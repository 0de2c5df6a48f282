----------------------------- MODULE TableConfig ----------------------------
(***************************************************************************)
(* What the owners of a connection configure for its tables: the settings  *)
(* of a table and the widgets, custom fields and actions that belong to    *)
(* them (entities/table-settings, widget, custom-field, table-actions).    *)
(* A handler reads the settings together with one of the three lists,      *)
(* writes the rows of the list one by one and then saves the settings with *)
(* the list it holds.  No transaction spans the handler                    *)
(* (common/abstract-use.case.ts starts one for InTransactionEnum.DEBUG     *)
(* only), so each of these is a step of its own.  The structure of the     *)
(* tables does not change here; the handlers that refuse their input       *)
(* before they write anything are guards, not steps.                       *)
(***************************************************************************)
EXTENDS Integers, FiniteSets, SequencesExt

CONSTANTS Requests,     \* requests that are served at a time
          Tables,       \* the tables of the connection
          FieldsOf,     \* [Tables -> their columns]
          KeyOf,        \* [Tables -> the columns of their primary key]
          Bodies,       \* bodies of a request for settings
          WidgetLists,  \* sequences of widgets that are wanted: [field, refers]
          Names,        \* fields that widgets, custom fields and actions name
          SettingsIds, ChildIds, \* ids of rows, each given once
          None, Undefined,
          MaxRequests   \* bound on the requests that are served

ASSUME TableConfigAssumption ==
  /\ None \notin Tables \union SettingsIds \union ChildIds
  /\ IsFiniteSet(ChildIds)
  /\ \A wanted \in WidgetLists : wanted \in Seq(ToSet(wanted))

\* The fields of a body that hold names of columns; the first four are those
\* that excluded_fields must not meet.
Guarded == {"search_fields", "readonly_fields", "columns_view", "ordering_field"}
Lists   == Guarded \union {"excluded_fields", "list_fields", "identification_fields",
                           "sortable_by", "identity_column", "autocomplete_columns"}
Kinds   == {"widget", "field", "action"}
Fields  == UNION {FieldsOf[t] : t \in Tables}

NoColumns   == [l \in Lists \union {"list_per_page"} |-> Undefined]
Defaults    == [l \in Lists \union {"list_per_page"} |->
                  IF l = "list_per_page" THEN None ELSE {}]

VARIABLES settings,  \* tableSettings: [table, columns], or None
          children,  \* the rows of the three lists: [kind, name, settings], or None
          req,       \* what each request has read and has yet to do
          origin,    \* history: the table an id was given for, or None
          served     \* requests so far

vars == <<settings, children, req, origin, served>>

Idle == [op |-> None, pc |-> "idle", tables |-> {}, table |-> None, body |-> None,
         kind |-> None, name |-> None, child |-> None, copy |-> None, array |-> <<>>,
         wanted |-> <<>>, found |-> <<>>, left |-> {}, alone |-> FALSE, before |-> None]
-----------------------------------------------------------------------------
(***************************************************************************)
(* Rows and lists.                                                         *)
(***************************************************************************)
SettingsOf(t) == {s \in SettingsIds : settings[s] # None /\ settings[s].table = t}
ChildrenOf(s, kind) == {c \in ChildIds : /\ children[c] # None
                                         /\ children[c].settings = s
                                         /\ children[c].kind = kind}
Fresh(ids) == {i \in ids : origin[i] = None}

\* A loaded list: the rows in whatever order the database gives them.
Item(c)           == [id |-> c, name |-> children[c].name]
Loaded(s, kind)   == {[i \in DOMAIN q |-> Item(q[i])] : q \in SetToSeqs(ChildrenOf(s, kind))}
Ids(array)        == {array[i].id : i \in DOMAIN array}
NamesIn(array)    == {array[i].name : i \in DOMAIN array}
\* findIndex by a property: the first place, or 0 for -1.
IndexOf(array, property, value) ==
  LET places == {i \in DOMAIN array : array[i][property] = value}
  IN  IF places = {} THEN 0 ELSE Min(places)
\* A variant with an index that counts from zero.
SpliceBefore(array, i) ==
  IF i > 1 THEN RemoveAt(array, i - 1) ELSE IF array = <<>> THEN <<>> ELSE Front(array)
\* splice(index, 1): the index -1 means the last place.
Splice(array, i) ==
  IF i > 0 THEN RemoveAt(array, i) ELSE IF array = <<>> THEN <<>> ELSE Front(array)

\* What the readers of a table are shown of it.
FoundSettings(t) ==
  IF SettingsOf(t) = {} THEN None ELSE settings[CHOOSE s \in SettingsOf(t) : TRUE].columns
Shown(c) == [id |-> c, kind |-> children[c].kind, name |-> children[c].name]
FoundWidgets(t) == UNION {{Shown(c) : c \in ChildrenOf(s, "widget")} : s \in SettingsOf(t)}
FoundFields(t)  == UNION {{Shown(c) : c \in ChildrenOf(s, "field")} : s \in SettingsOf(t)}
FoundActions(t) == UNION {{Shown(c) : c \in ChildrenOf(s, "action")} : s \in SettingsOf(t)}
View(t) == [columns |-> FoundSettings(t),
            listed  |-> FoundWidgets(t) \union FoundFields(t) \union FoundActions(t)]

\* save() writes the properties that are defined.
Merge(columns, body) == [l \in DOMAIN columns |-> IF body[l] = Undefined THEN columns[l]
                                                  ELSE body[l]]
(***************************************************************************)
(* tableSettingsFieldValidator.  With excluded_fields given it iterates    *)
(* over search_fields without asking whether there are any.  What it finds *)
(* about the primary key goes into an array nobody reads again, so that    *)
(* it refuses nothing; autocomplete_columns are not looked at.             *)
(***************************************************************************)
\* A variant that leaves readonly_fields out.
ExistButReadonly(t, body) ==
  \A l \in Lists \ {"autocomplete_columns", "readonly_fields"} :
    body[l] # Undefined => body[l] \subseteq FieldsOf[t]
Exist(t, body) ==
  \A l \in Lists \ {"autocomplete_columns"} :
    body[l] # Undefined => body[l] \subseteq FieldsOf[t]
PageIsPositive(body) ==
  body["list_per_page"] \notin {None, Undefined} => body["list_per_page"] > 0
ExcludedMeetNone(body) ==
  body["excluded_fields"] # Undefined =>
    /\ body["search_fields"] # Undefined
    /\ \A l \in Guarded : body[l] # Undefined => body[l] \intersect body["excluded_fields"] = {}
Accepts(t, body) == Exist(t, body) /\ PageIsPositive(body) /\ ExcludedMeetNone(body)

\* validateCreateWidgetsDs: a widget for a foreign key must know a table and a
\* column; the first of these that is wrong ends the check.
AcceptsWidgets(t, wanted) ==
  \A i \in DOMAIN wanted :
    /\ wanted[i].field \in FieldsOf[t]
    /\ wanted[i].refers # None =>
         /\ wanted[i].refers.table \in Tables
         /\ wanted[i].refers.column \in FieldsOf[wanted[i].refers.table]
\* validateCreateCustomFieldDto: the columns between the curlies must be there.
AcceptsField(t, name) == name \in FieldsOf[t]

(***************************************************************************)
(* The save of an entity with one of its lists: the row is updated, or     *)
(* inserted again when it is gone, with the connection only if that was    *)
(* loaded; the rows in the list are linked to it, those it was linked to   *)
(* and that are not in the list are not any more.                          *)
(***************************************************************************)
Saves(copy) == settings[copy.id] # None \/ copy.table = None \/ SettingsOf(copy.table) = {}
SavedRow(copy) ==
  IF settings[copy.id] # None
    THEN [settings[copy.id] EXCEPT !.columns = Merge(@, copy.columns)]
    ELSE [table |-> copy.table, columns |-> Merge(Defaults, copy.columns)]
Relinked(copy, kind, array) ==
  [c \in ChildIds |->
     IF children[c] = None THEN None
     ELSE IF c \in Ids(array) THEN [children[c] EXCEPT !.settings = copy.id]
     ELSE IF c \in ChildrenOf(copy.id, kind) THEN [children[c] EXCEPT !.settings = None]
     ELSE children[c]]
\* The save of a row of a list, which may have been removed meanwhile.
Written(c, kind, name) ==
  [children EXCEPT ![c] = IF @ # None THEN [@ EXCEPT !.name = name]
                          ELSE [kind |-> kind, name |-> name, settings |-> None]]
-----------------------------------------------------------------------------
(***************************************************************************)
(* Requests.  One that shares a table with another is not alone; for one   *)
(* that is, "before" is what the readers were shown when it came.          *)
(***************************************************************************)
Open(r, request) ==
  LET met == {q \in Requests : /\ q # r /\ req[q].pc # "idle"
                               /\ req[q].tables \intersect request.tables # {}}
  IN /\ served < MaxRequests /\ served' = served + 1
     /\ req' = [q \in Requests |->
               IF q = r
                 THEN [request EXCEPT !.alone = met = {},
                                      !.before = IF met = {} THEN [t \in request.tables |-> View(t)]
                                                 ELSE None]
               ELSE IF q \in met THEN [req[q] EXCEPT !.alone = FALSE, !.before = None]
               ELSE req[q]]
Goes(r, request) == req' = [req EXCEPT ![r] = request] /\ UNCHANGED served
Close(r) == Goes(r, Idle)

New(op, t, pc) == [Idle EXCEPT !.op = op, !.table = t, !.tables = {t}, !.pc = pc]

ReadInto(request, s, array) ==
  [request EXCEPT !.copy = [id |-> s, table |-> None, columns |-> settings[s].columns],
                  !.array = array]
\* A variant that does not ask for the name of the table.
ReadsOfAnyTable(request, kind) ==
  LET some == {s \in SettingsIds : settings[s] # None} IN
  IF some = {} THEN {request}
  ELSE UNION {{ReadInto(request, s, array) : array \in Loaded(s, kind)} : s \in some}
\* The settings of the table with one of their lists, loaded into the request.
Reads(request, kind) ==
  LET found == SettingsOf(request.table) IN
  IF found = {} THEN {request}
  ELSE UNION {{ReadInto(request, s, array) : array \in Loaded(s, kind)} : s \in found}

\* POST /settings
CreateSettings(r, t, body) ==
  /\ req[r].pc = "idle" /\ Accepts(t, body)
  /\ Open(r, [New("create settings", t, "create") EXCEPT !.body = body])
  /\ UNCHANGED <<settings, children, origin>>

\* PUT /settings
UpdateSettings(r, t, body) ==
  /\ req[r].pc = "idle" /\ Accepts(t, body)
  /\ \E s \in SettingsOf(t) :
       Open(r, [New("update settings", t, "save") EXCEPT
                  !.body = body, !.copy = [id |-> s, table |-> t, columns |-> body]])
  /\ UNCHANGED <<settings, children, origin>>

\* DELETE /settings
DeleteSettings(r, t) ==
  /\ req[r].pc = "idle"
  /\ \E s \in SettingsOf(t) :
       Open(r, [New("delete settings", t, "drop") EXCEPT
                  !.copy = [id |-> s, table |-> t, columns |-> settings[s].columns]])
  /\ UNCHANGED <<settings, children, origin>>

\* POST /field/:slug
CreateField(r, t, name) ==
  /\ req[r].pc = "idle" /\ AcceptsField(t, name)
  /\ \E request \in Reads([New("create field", t, "store") EXCEPT
                             !.kind = "field", !.name = name], "field") : Open(r, request)
  /\ UNCHANGED <<settings, children, origin>>

\* POST /table/action/:slug
CreateAction(r, t, name) ==
  /\ req[r].pc = "idle"
  /\ \E request \in Reads([New("create action", t, "store") EXCEPT
                             !.kind = "action", !.name = name], "action") :
       Open(r, IF request.copy = None THEN [request EXCEPT !.pc = "create"] ELSE request)
  /\ UNCHANGED <<settings, children, origin>>

\* PUT /field/:slug: the field is found by its id, the table is the one the
\* request names.
UpdateField(r, t, c, name) ==
  /\ req[r].pc = "idle" /\ AcceptsField(t, name)
  /\ children[c] # None /\ children[c].kind = "field"
  /\ Open(r, [New("update field", t, "write") EXCEPT
                !.kind = "field", !.child = c, !.name = name, !.tables = {t, origin[c]}])
  /\ UNCHANGED <<settings, children, origin>>

\* PUT /table/action/:slug
UpdateAction(r, c, name) ==
  /\ req[r].pc = "idle" /\ children[c] # None /\ children[c].kind = "action"
  /\ Open(r, [New("update action", origin[c], "write") EXCEPT
                !.kind = "action", !.child = c, !.name = name])
  /\ UNCHANGED <<settings, children, origin>>

\* DELETE /field/:slug
DeleteField(r, t, c) ==
  /\ req[r].pc = "idle" /\ children[c] # None /\ children[c].kind = "field"
  /\ Open(r, [New("delete field", t, "read") EXCEPT
                !.kind = "field", !.child = c, !.tables = {t, origin[c]}])
  /\ UNCHANGED <<settings, children, origin>>

\* DELETE /table/action/:slug
DeleteAction(r, c) ==
  /\ req[r].pc = "idle" /\ children[c] # None /\ children[c].kind = "action"
  /\ Open(r, [New("delete action", origin[c], "remove") EXCEPT !.kind = "action", !.child = c])
  /\ UNCHANGED <<settings, children, origin>>

\* POST /widget/:slug: the widgets of the table are to be those wanted.
PutWidgets(r, t, wanted) ==
  /\ req[r].pc = "idle" /\ AcceptsWidgets(t, wanted)
  /\ \E request \in Reads([New("put widgets", t, "find") EXCEPT
                             !.kind = "widget", !.name = {w.field : w \in ToSet(wanted)}, !.wanted = wanted],
                          "widget") :
       Open(r, IF request.copy = None THEN [request EXCEPT !.pc = "create"] ELSE request)
  /\ UNCHANGED <<settings, children, origin>>
-----------------------------------------------------------------------------
(***************************************************************************)
(* The steps that follow.                                                  *)
(***************************************************************************)
\* The insertion of settings, asked for or empty; the database keeps one row
\* for a table of a connection, and the request of a second one fails.
NextAfterCreate(request) ==
  CASE request.op = "create field"  -> "save"
    [] request.op = "create action" -> "store"
    [] request.op = "put widgets"   -> "find"
InsertSettings(r) ==
  /\ req[r].pc = "create"
  /\ LET t    == req[r].table
         body == IF req[r].body = None THEN NoColumns ELSE req[r].body
     IN \/ /\ SettingsOf(t) # {}
           /\ Close(r)
           /\ UNCHANGED <<settings, origin>>
        \/ \E s \in Fresh(SettingsIds) :
             /\ SettingsOf(t) = {}
             /\ settings' = [settings EXCEPT ![s] = [table |-> t,
                                                     columns |-> Merge(Defaults, body)]]
             /\ origin' = [origin EXCEPT ![s] = t]
             /\ IF req[r].op = "create settings" THEN Close(r)
                ELSE Goes(r, [req[r] EXCEPT
                                !.copy = [id |-> s, table |-> t, columns |-> Defaults],
                                !.pc = NextAfterCreate(req[r])])
  /\ UNCHANGED children

\* removeTableSettings: the lists go with the row (onDelete CASCADE).
DropSettings(r) ==
  /\ req[r].pc = "drop"
  /\ settings' = [settings EXCEPT ![req[r].copy.id] = None]
  /\ children' = [c \in ChildIds |->
                    IF children[c] # None /\ children[c].settings = req[r].copy.id THEN None
                    ELSE children[c]]
  /\ Close(r)
  /\ UNCHANGED origin

\* The new row of a list is saved, unlinked, and pushed onto the array.
Push(r, c, name) == Append(req[r].array, [id |-> c, name |-> name])
Born(r, c, name) ==
  /\ children' = [children EXCEPT ![c] = [kind |-> req[r].kind, name |-> name,
                                          settings |-> None]]
  /\ origin' = [origin EXCEPT ![c] = req[r].table]
StoreChild(r) ==
  /\ req[r].pc = "store"
  /\ \E c \in Fresh(ChildIds) :
       /\ Born(r, c, req[r].name)
       /\ Goes(r, [req[r] EXCEPT !.array = Push(r, c, req[r].name),
                                 !.pc = IF req[r].copy = None THEN "create" ELSE "save"])
  /\ UNCHANGED settings

WriteChild(r) ==
  /\ req[r].pc = "write"
  /\ children' = Written(req[r].child, req[r].kind, req[r].name)
  /\ Close(r)
  /\ UNCHANGED <<settings, origin>>

\* The second half of DELETE /field/:slug reads the settings of the table the
\* request names and takes the field out of their list: when it is not there,
\* the last one.
ReadForDelete(r) ==
  /\ req[r].pc = "read"
  /\ \E request \in Reads(req[r], "field") :
       IF request.copy = None THEN Close(r)
       ELSE Goes(r, [request EXCEPT
                       !.array = Splice(@, IndexOf(@, "id", req[r].child)),
                       !.pc = "remove"])
  /\ UNCHANGED <<settings, children, origin>>

RemoveChild(r) ==
  /\ req[r].pc = "remove"
  /\ children' = [children EXCEPT ![req[r].child] = None]
  /\ IF req[r].kind = "field" THEN Goes(r, [req[r] EXCEPT !.pc = "save"]) ELSE Close(r)
  /\ UNCHANGED <<settings, origin>>

\* findTableWidgets reads the widgets once more.  Those left over are deleted
\* in the order they were read in, which is any order.
FindWidgets(r) ==
  /\ req[r].pc = "find"
  /\ \E found \in IF SettingsOf(req[r].table) = {} THEN {<<>>}
                  ELSE Loaded(CHOOSE s \in SettingsOf(req[r].table) : TRUE, "widget") :
       Goes(r, [req[r] EXCEPT
                  !.found = found,
                  !.left = {item \in ToSet(found) : item.name \notin req[r].name},
                  !.pc = IF req[r].wanted # <<>> \/ ~ NamesIn(found) \subseteq req[r].name
                         THEN "widgets" ELSE "save"])
  /\ UNCHANGED <<settings, children, origin>>

\* After a widget: the next one wanted, then those left over, then the save.
Widgets(request) ==
  [request EXCEPT !.pc = IF request.wanted = <<>> /\ request.left = {} THEN "save" ELSE @]

PutWidget(r) ==
  /\ req[r].pc = "widgets" /\ req[r].wanted # <<>>
  /\ LET name  == Head(req[r].wanted).field
         known == IndexOf(req[r].found, "name", name)
         place == IndexOf(req[r].array, "name", name)
         Done(array) == Goes(r, Widgets([req[r] EXCEPT !.array = array, !.wanted = Tail(@)]))
     IN \/ /\ known > 0
           /\ children' = Written(req[r].found[known].id, "widget", name)
           /\ Done(IF place > 0 THEN [req[r].array EXCEPT ![place] = req[r].found[known]]
                   ELSE req[r].array)
           /\ UNCHANGED origin
        \/ /\ known = 0
           /\ \E c \in Fresh(ChildIds) : Born(r, c, name) /\ Done(Push(r, c, name))
  /\ UNCHANGED settings

DropWidget(r) ==
  /\ req[r].pc = "widgets" /\ req[r].wanted = <<>>
  /\ \E item \in req[r].left :
       LET place == IndexOf(req[r].array, "name", item.name) IN
       /\ children' = [children EXCEPT ![item.id] = None]
       /\ Goes(r, Widgets([req[r] EXCEPT !.array = Splice(@, place), !.left = @ \ {item}]))
  /\ UNCHANGED <<settings, origin>>

\* saveNewOrUpdatedSettings ends every handler that holds a list, and PUT /settings.
SaveSettings(r) ==
  /\ req[r].pc = "save"
  /\ LET copy == req[r].copy IN
     \/ /\ Saves(copy)
        /\ settings' = [settings EXCEPT ![copy.id] = SavedRow(copy)]
        /\ children' = IF req[r].kind = None THEN children
                       ELSE Relinked(copy, req[r].kind, req[r].array)
     \/ ~ Saves(copy) /\ UNCHANGED <<settings, children>>
  /\ Close(r)
  /\ UNCHANGED origin
-----------------------------------------------------------------------------
Init ==
  /\ settings = [s \in SettingsIds |-> None]
  /\ children = [c \in ChildIds |-> None]
  /\ req = [r \in Requests |-> Idle]
  /\ origin = [i \in SettingsIds \union ChildIds |-> None]
  /\ served = 0

Step(r) ==
  \/ InsertSettings(r) \/ DropSettings(r) \/ StoreChild(r) \/ WriteChild(r)
  \/ ReadForDelete(r) \/ RemoveChild(r) \/ FindWidgets(r) \/ PutWidget(r)
  \/ DropWidget(r) \/ SaveSettings(r)

Next ==
  \E r \in Requests :
    \/ Step(r)
    \/ \E t \in Tables :
         \/ \E body \in Bodies : CreateSettings(r, t, body) \/ UpdateSettings(r, t, body)
         \/ DeleteSettings(r, t)
         \/ \E name \in Names : CreateField(r, t, name) \/ CreateAction(r, t, name)
         \/ \E c \in ChildIds : \/ DeleteField(r, t, c)
                                \/ \E name \in Names : UpdateField(r, t, c, name)
         \/ \E wanted \in WidgetLists : PutWidgets(r, t, wanted)
    \/ \E c \in ChildIds : \/ DeleteAction(r, c)
                           \/ \E name \in Names : UpdateAction(r, c, name)

Spec == Init /\ [][Next]_vars
-----------------------------------------------------------------------------
(***************************************************************************)
(* Properties.                                                             *)
(***************************************************************************)
(***************************************************************************)
(* Widgets, fields and actions are shown with the table they were made     *)
(* for: whatever two requests read of each other's rows, and though every  *)
(* save of settings relinks a whole list by the ids it holds, no row moves *)
(* to another table (findTableSettingsWith..., saveNewOrUpdatedSettings).  *)
(***************************************************************************)
ChildrenStayInTheirTable ==
  \A t \in Tables, c \in ChildIds :
    children[c] # None /\ children[c].settings \in SettingsOf(t) => origin[c] = t

(***************************************************************************)
(* What is stored names columns of the table it is stored for, though      *)
(* update merges a body into a row it was not validated with, and a save   *)
(* of a list writes back columns it read earlier                           *)
(* (table-settings-field-validator.ts, validate-create-widgets-ds.ts).     *)
(***************************************************************************)
StoredFieldsExist ==
  \A t \in Tables : \A s \in SettingsOf(t) :
    /\ \A l \in Lists \ {"autocomplete_columns"} : settings[s].columns[l] \subseteq FieldsOf[t]
    /\ \A c \in ChildrenOf(s, "widget") : children[c].name \in FieldsOf[t]

\* What a request that nobody overlapped on its tables must have done to them.
Renamed(listed, c, name) == {IF e.id = c THEN [e EXCEPT !.name = name] ELSE e : e \in listed}
Without(listed, c) == {e \in listed : e.id # c}
Widget(e) == e.kind = "widget"
TookEffect(q, now) ==
  LET was == q.before[q.table]
      Configured == IF was.columns = None THEN Defaults ELSE was.columns
  IN CASE q.op = "create settings" ->
            now = IF was.columns # None THEN was
                  ELSE [was EXCEPT !.columns = Merge(Defaults, q.body)]
       [] q.op = "update settings" -> now = [was EXCEPT !.columns = Merge(was.columns, q.body)]
       [] q.op = "delete settings" -> now = [columns |-> None, listed |-> {}]
       [] q.op \in {"create field", "create action"} ->
            /\ now.columns = Configured
            /\ \E c \in ChildIds :
                 /\ \A e \in was.listed : e.id # c
                 /\ now.listed = was.listed \union {[id |-> c, kind |-> q.kind, name |-> q.name]}
       [] q.op \in {"update field", "update action"} ->
            now = [was EXCEPT !.listed = Renamed(@, q.child, q.name)]
       [] q.op \in {"delete field", "delete action"} ->
            q.kind = "action" \/ Without(was.listed, q.child) # was.listed
              => now = [was EXCEPT !.listed = Without(@, q.child)]
       [] q.op = "put widgets" ->
            /\ now.columns = Configured
            /\ {e.name : e \in {e \in now.listed : Widget(e)}} = q.name
            /\ {e \in now.listed : ~ Widget(e)} = {e \in was.listed : ~ Widget(e)}

(***************************************************************************)
(* A request that no other one overlaps on its tables leaves them exactly  *)
(* as it was asked to, or, where it fails, as they were: every step of a   *)
(* handler counts, the rows before the links, and requests for other       *)
(* tables in between do not matter.  Not covered: a field that the table   *)
(* of the request does not list, being another's or having lost its link,  *)
(* takes a field of that table with it when it is deleted                  *)
(* (delete-custom-field.use.case.ts:47).                                   *)
(***************************************************************************)
AloneTakesEffect ==
  [][\A r \in Requests, t \in Tables :
       /\ req[r].pc # "idle" /\ req'[r].pc = "idle" /\ req[r].alone /\ req[r].tables = {t}
       => TookEffect(req[r], View(t)')]_vars

(***************************************************************************)
(* "You cannot exclude primary key" (exceptions/text/messages.ts:39).      *)
(***************************************************************************)
KeysAreNotExcluded ==
  \A t \in Tables : \A s \in SettingsOf(t) :
    settings[s].columns["excluded_fields"] \intersect KeyOf[t] = {}
=============================================================================
