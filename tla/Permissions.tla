---------------------------- MODULE Permissions ----------------------------
(***************************************************************************)
(* PUT /permissions/:groupId, the only endpoint that changes the rights of *)
(* a group (create-or-update-permissions.use.case.ts).                     *)
(*                                                                         *)
(* No use case runs in a transaction (AbstractUseCase starts one only for  *)
(* InTransactionEnum.DEBUG), so every repository call commits on its own   *)
(* and the requests interleave between calls.  The group and its           *)
(* permissions are read once into memory; each later save of the group     *)
(* makes the junction table equal to that snapshot plus what the request   *)
(* pushed.  TypeORM does that in two steps: it SELECTs the links that      *)
(* exist, and then writes the difference.                                  *)
(***************************************************************************)
EXTENDS UserAccess, Naturals, FiniteSetsExt

CONSTANTS Requests,     \* slots for requests in flight
          Wants,        \* the request bodies clients send
          adminPermission,  \* the rows every main group was created with
          InitialMembers,   \* who is in which group at first: sets of <<group, user>>
          MovingUsers,  \* the users whose groups change meanwhile
          MaxRequests,  \* bound on requests of a run
          MaxFaults     \* bound on requests cut short by a failing statement

(***************************************************************************)
(* A body names a connection, a level for it and for the group, and for    *)
(* each table it lists the keys that are true; the other keys are false.   *)
(***************************************************************************)
Want == [connectionId : Connections, connection : Levels, group : Levels,
         tables : UNION {[S -> SUBSET TableKeys] : S \in SUBSET Tables}]

ASSUME PermissionsAssumption ==
  /\ Groups # {} /\ Wants # {} /\ Wants \subseteq Want
  /\ adminPermission \in [MainGroups \X {"Connection", "Group"} -> PermissionIds]
  /\ \A a, b \in DOMAIN adminPermission : adminPermission[a] = adminPermission[b] => a = b
  /\ InitialMembers \subseteq SUBSET (Groups \X Users) /\ MovingUsers \subseteq Users
  /\ MaxRequests \in Nat /\ MaxFaults \in Nat

VARIABLES pc,           \* pc[r]: the next call request r makes ...
          part,         \* ... and the part of the use case it belongs to
          target,       \* the group of the URL
          want,         \* the body
          mem,          \* groupToUpdate.permissions: ids of the snapshot
          current,      \* currentConnectionPermission, currentGroupPermission
          loaded,       \* links seen by the SELECT of the group save under way
          todo,         \* keys the current part still has to visit
          reply,        \* table rights the answer will report
          issued,       \* requests so far
          faults,       \* requests cut short so far
          crowded       \* history: groups two requests were in flight for at once

requestVars == <<pc, part, target, want, mem, current, loaded, todo, reply>>
counters    == <<issued, faults, crowded>>
vars        == <<accessVars, requestVars, counters>>

(***************************************************************************)
(* Each of the four parts of the use case is a "change" and a save of the  *)
(* group, which is a "load" and a "write".                                 *)
(***************************************************************************)
Parts == {"connection", "group", "revoke", "grant"}
Ended == {"idle", "answered"}
Calls == {"findGroup", "findCurrent", "change", "load", "write"}

None == [connection |-> {}, group |-> {}]   \* no current permission was found

TypeOK ==
  /\ AccessTypeOK
  /\ pc \in [Requests -> Ended \union Calls]
  /\ part \in [Requests -> Parts]
  /\ target \in [Requests -> Groups]
  /\ want \in [Requests -> Wants]
  /\ mem \in [Requests -> SUBSET PermissionIds]
  /\ current \in [Requests -> [connection : SUBSET PermissionIds,
                               group : SUBSET PermissionIds]]
  /\ loaded \in [Requests -> SUBSET PermissionIds]
  /\ todo \in [Requests -> SUBSET (Tables \X TableKeys)]
  /\ reply \in [Requests -> SUBSET (Tables \X TableKeys)]
  /\ issued \in 0..MaxRequests
  /\ faults \in 0..MaxFaults
  /\ crowded \subseteq Groups

Active(r) == pc[r] \in Calls

\* The table rights of a group as the answer of the endpoint lists them.
TableGrants(g) ==
  {<<permission[p].tableName, permission[p].accessLevel>> :
     p \in {q \in PermissionsIn(g) : permission[q].type = "Table"}}

AdminRow(type) == [type |-> type, accessLevel |-> "edit", tableName |-> NoTable]

(***************************************************************************)
(* A connection starts with its main group holding edit on the connection  *)
(* and on itself (createdDefaultAdminPermissionsInGroup); the other groups *)
(* start without rights.  Anybody may be in any group.                     *)
(***************************************************************************)
AdminRows == MainGroups \X {"Connection", "Group"}

Init ==
  /\ permission = [p \in PermissionIds |->
       IF \E a \in AdminRows : adminPermission[a] = p
       THEN AdminRow((CHOOSE a \in AdminRows : adminPermission[a] = p)[2])
       ELSE NoRow]
  /\ removed = {}
  /\ permissionGroups = {<<adminPermission[a], a[1]>> : a \in AdminRows}
  /\ groupUsers \in InitialMembers
  /\ pc = [r \in Requests |-> "idle"]
  /\ part = [r \in Requests |-> "connection"]
  /\ target = [r \in Requests |-> CHOOSE g \in Groups : TRUE]
  /\ want = [r \in Requests |-> CHOOSE w \in Wants : TRUE]
  /\ mem = [r \in Requests |-> {}]
  /\ current = [r \in Requests |-> None]
  /\ loaded = [r \in Requests |-> {}]
  /\ todo = [r \in Requests |-> {}]
  /\ reply = [r \in Requests |-> {}]
  /\ issued = 0 /\ faults = 0 /\ crowded = {}
-----------------------------------------------------------------------------
Goto(r, call) == pc' = [pc EXCEPT ![r] = call]

\* Any ending of a request drops what it held in memory.
End(r, call) == /\ Goto(r, call)
                /\ mem' = [mem EXCEPT ![r] = {}]
                /\ current' = [current EXCEPT ![r] = None]
                /\ loaded' = [loaded EXCEPT ![r] = {}]
                /\ todo' = [todo EXCEPT ![r] = {}]
                /\ part' = [part EXCEPT ![r] = "connection"]

\* A client sends a request and GroupEditGuard lets it pass.  (A request the
\* guard rejects touches nothing.)
Start(r, user, g, w) ==
  /\ issued < MaxRequests
  /\ pc[r] \in Ended
  /\ checkUserGroupEdit(user, g)
  /\ Goto(r, "findGroup")
  /\ target' = [target EXCEPT ![r] = g]
  /\ want' = [want EXCEPT ![r] = w]
  /\ reply' = [reply EXCEPT ![r] = {}]
  /\ issued' = issued + 1
  /\ LET others == {q \in Requests : Active(q) /\ target[q] = g} IN
       crowded' = IF others = {} THEN crowded ELSE crowded \union {g}
  /\ UNCHANGED <<accessVars, part, mem, current, loaded, todo, faults>>

\* Mutant: the join selects the rows of all groups of the connection.
FindWholeConnection(r) ==
  /\ pc[r] = "findGroup"
  /\ IF connectionOf[target[r]] # want[r].connectionId \/ target[r] \in MainGroups
     THEN End(r, "idle")
     ELSE /\ Goto(r, "findCurrent")
          /\ mem' = [mem EXCEPT ![r] = UNION {PermissionsIn(g) : g \in
                        {h \in Groups : connectionOf[h] = connectionOf[target[r]]}}]
          /\ UNCHANGED <<part, current, loaded, todo>>
  /\ UNCHANGED <<accessVars, target, want, reply, counters>>

\* getConnectionByGroupId and findGroupWithPermissionsById: a body for another
\* connection and the main group are refused, otherwise the group's rows are
\* in memory from here on.
FindGroup(r) ==
  /\ pc[r] = "findGroup"
  /\ IF connectionOf[target[r]] # want[r].connectionId \/ target[r] \in MainGroups
     THEN End(r, "idle")
     ELSE /\ Goto(r, "findCurrent")
          /\ mem' = [mem EXCEPT ![r] = PermissionsIn(target[r])]
          /\ UNCHANGED <<part, current, loaded, todo>>
  /\ UNCHANGED <<accessVars, target, want, reply, counters>>

\* Mutant: the query without its condition on the group.
AnyInConnection(type, g) ==
  LET rows == {p \in UNION {PermissionsIn(h) : h \in Groups} :
                 /\ permission[p].type = type
                 /\ \E h \in Groups : p \in PermissionsIn(h) /\ connectionOf[h] = connectionOf[g]}
  IN  IF rows = {} THEN {{}} ELSE {{p} : p \in rows}

\* A query's getOne without an order: any one of the matching rows, if any.
AnyOf(type, g) ==
  LET rows == {p \in PermissionsIn(g) : permission[p].type = type}
  IN  IF rows = {} THEN {{}} ELSE {{p} : p \in rows}

\* The rows to update, queried in parallel, and the table rows the answer
\* starts from.
FindCurrent(r) ==
  /\ pc[r] = "findCurrent"
  /\ \E c \in AnyOf("Connection", target[r]), g \in AnyOf("Group", target[r]) :
        current' = [current EXCEPT ![r] = [connection |-> c, group |-> g]]
  /\ reply' = [reply EXCEPT ![r] = TableGrants(target[r])]
  /\ Goto(r, "change")
  /\ UNCHANGED <<accessVars, part, target, want, mem, loaded, todo, counters>>

Fresh == CHOOSE p \in PermissionIds : permission[p] = NoRow
CanCreate == \E p \in PermissionIds : permission[p] = NoRow

Insert(row) == permission' = [permission EXCEPT ![Fresh] = row]

\* Mutant: the new row is not pushed to the permissions of the group.
ChangeLevelUnpushed(r, type, level, found) ==
  /\ pc[r] = "change"
  /\ \/ \E p \in found :
          /\ permission' = [permission EXCEPT ![p] =
                [type |-> type, accessLevel |-> level, tableName |-> NoTable]]
          /\ permissionGroups' = {link \in permissionGroups : link[1] # p}
                                   \union {<<p, target[r]>>}
     \/ /\ found = {} /\ CanCreate
        /\ Insert([type |-> type, accessLevel |-> level, tableName |-> NoTable])
        /\ UNCHANGED permissionGroups
  /\ Goto(r, "load")
  /\ UNCHANGED <<removed, groupUsers, part, target, want, mem, current, loaded, todo,
                 reply, counters>>

(***************************************************************************)
(* The level of the connection or of the group.  A row that was found is   *)
(* updated, and as it was loaded with its one group, saving it also makes  *)
(* that group its only one; otherwise a row is inserted and pushed.        *)
(***************************************************************************)
ChangeLevel(r, type, level, found) ==
  /\ pc[r] = "change"
  /\ \/ \E p \in found :
          /\ permission' = [permission EXCEPT ![p] =
                [type |-> type, accessLevel |-> level, tableName |-> NoTable]]
          /\ permissionGroups' = {link \in permissionGroups : link[1] # p}
                                   \union {<<p, target[r]>>}
          /\ UNCHANGED mem
     \/ /\ found = {} /\ CanCreate
        /\ Insert([type |-> type, accessLevel |-> level, tableName |-> NoTable])
        /\ mem' = [mem EXCEPT ![r] = @ \union {Fresh}]
        /\ UNCHANGED permissionGroups
  /\ Goto(r, "load")
  /\ UNCHANGED <<removed, groupUsers, part, target, want, current, loaded, todo, reply,
                 counters>>

ChangeConnectionLevel(r) ==
  /\ part[r] = "connection"
  /\ ChangeLevel(r, "Connection", want[r].connection, current[r].connection)

ChangeGroupLevel(r) ==
  /\ part[r] = "group"
  /\ ChangeLevel(r, "Group", want[r].group, current[r].group)

\* saveNewOrUpdatedGroup, first half: TypeORM SELECTs the links of the group.
LoadLinks(r) ==
  /\ pc[r] = "load"
  /\ loaded' = [loaded EXCEPT ![r] = PermissionsIn(target[r])]
  /\ Goto(r, "write")
  /\ UNCHANGED <<accessVars, part, target, want, mem, current, todo, reply, counters>>

\* The keys a body lists as false (or true), and the rows of a snapshot that
\* carry such a key.
Listed(w, value) ==
  {key \in (DOMAIN w.tables) \X TableKeys : (key[2] \in w.tables[key[1]]) = value}

Carriers(snapshot, key) ==
  {p \in snapshot : /\ permission[p].tableName = key[1]
                    /\ permission[p].accessLevel = key[2]}

\* The keys a part has to visit: false ones that some row carries, true ones
\* that none does.
KeysToRevoke(r) == {key \in Listed(want[r], FALSE) : Carriers(mem[r], key) # {}}
KeysToGrant(r)  == {key \in Listed(want[r], TRUE)  : Carriers(mem[r], key) = {}}

Visit(r, keys) == /\ todo' = [todo EXCEPT ![r] = keys]
                  /\ Goto(r, IF keys = {} THEN "load" ELSE "change")

\* What the use case goes on with after the save of a part.
NextPart(r) ==
  \/ /\ part[r] = "connection"
     /\ part' = [part EXCEPT ![r] = "group"]
     /\ Goto(r, "change") /\ UNCHANGED todo
  \/ /\ part[r] = "group"
     /\ part' = [part EXCEPT ![r] = "revoke"]
     /\ Visit(r, KeysToRevoke(r))
  \/ /\ part[r] = "revoke"
     /\ part' = [part EXCEPT ![r] = "grant"]
     /\ Visit(r, KeysToGrant(r))

\* saveNewOrUpdatedGroup, second half: the difference of snapshot and SELECT
\* is written in one transaction, which fails on a link that meanwhile exists
\* or on a row that meanwhile was deleted.
WriteLinks(r) ==
  LET g == target[r]
      new == mem[r] \ loaded[r]
      old == loaded[r] \ mem[r]
  IN  /\ pc[r] = "write"
      /\ IF \E p \in new : p \in PermissionsIn(g) \/ ~Exists(p)
         THEN End(r, "idle") /\ UNCHANGED permissionGroups
         ELSE /\ permissionGroups' = (permissionGroups \ (old \X {g})) \union (new \X {g})
              /\ IF part[r] = "grant"
                 THEN End(r, "answered")
                 ELSE NextPart(r) /\ UNCHANGED <<mem, current, loaded>>
      /\ UNCHANGED <<permission, removed, groupUsers, target, want, reply, counters>>

\* Each false key: the first row of the snapshot that carries it is deleted.
\* The entity stays in the array but loses its id, so that no later save of
\* the group links it again.
Revoke(r, key) ==
  /\ pc[r] = "change" /\ part[r] = "revoke"
  /\ key \in todo[r]
  /\ \E p \in Carriers(mem[r], key) :
        /\ removed' = removed \union {p}
        /\ permissionGroups' = {link \in permissionGroups : link[1] # p}
        /\ mem' = [mem EXCEPT ![r] = @ \ {p}]
  /\ reply' = [reply EXCEPT ![r] = @ \ {key}]
  /\ Visit(r, todo[r] \ {key})
  /\ UNCHANGED <<permission, groupUsers, part, target, want, current, loaded, counters>>

\* Each true key no row of the snapshot carries: a row is pushed and inserted,
\* to be linked by the save that follows.
Grant(r, key) ==
  /\ pc[r] = "change" /\ part[r] = "grant"
  /\ key \in todo[r]
  /\ CanCreate
  /\ Insert([type |-> "Table", accessLevel |-> key[2], tableName |-> key[1]])
  /\ mem' = [mem EXCEPT ![r] = @ \union {Fresh}]
  /\ reply' = [reply EXCEPT ![r] = @ \union {key}]
  /\ Visit(r, todo[r] \ {key})
  /\ UNCHANGED <<removed, permissionGroups, groupUsers, part, target, want, current,
                 loaded, counters>>

\* A statement fails or the process dies: what was written stays written.
Fail(r) ==
  /\ Active(r)
  /\ faults < MaxFaults
  /\ faults' = faults + 1
  /\ End(r, "idle")
  /\ UNCHANGED <<accessVars, target, want, reply, issued, crowded>>

\* The endpoints of groups and accounts change who is in a group at any time.
ChangeMembership(g, user) ==
  /\ groupUsers' = IF <<g, user>> \in groupUsers
                   THEN groupUsers \ {<<g, user>>} ELSE groupUsers \union {<<g, user>>}
  /\ UNCHANGED <<permission, removed, permissionGroups, requestVars, counters>>

Step(r) == \/ FindGroup(r)
           \/ FindCurrent(r)
           \/ ChangeConnectionLevel(r)
           \/ ChangeGroupLevel(r)
           \/ LoadLinks(r)
           \/ WriteLinks(r)
           \/ \E key \in Tables \X TableKeys : Revoke(r, key) \/ Grant(r, key)

Next == \/ \E r \in Requests :
              \/ \E user \in Users, g \in Groups, w \in Wants : Start(r, user, g, w)
              \/ Step(r)
              \/ Fail(r)
        \/ \E g \in Groups, user \in MovingUsers : ChangeMembership(g, user)

Spec == Init /\ [][Next]_vars
-----------------------------------------------------------------------------
(***************************************************************************)
(* Every member of a main group can edit the connection, whatever requests *)
(* on whatever groups are under way: the isMain check                      *)
(* (create-or-update-permissions.use.case.ts:67-74) is made on a snapshot, *)
(* and the rows written later are found by separate queries.               *)
(***************************************************************************)
MainMembersCanEdit ==
  \A g \in MainGroups, u \in Users :
     <<g, u>> \in groupUsers => checkUserConnectionEdit(u, connectionOf[g])

(***************************************************************************)
(* No permission row is shared: a change of one group's right would        *)
(* silently be a change of another's.                                      *)
(***************************************************************************)
RowsAreNotShared ==
  \A p \in PermissionIds : \A g, h \in Groups :
     p \in PermissionsIn(g) /\ p \in PermissionsIn(h) => g = h

InEffect(g, w) ==
  /\ LevelsOf("Connection", {g}) = {w.connection}
  /\ LevelsOf("Group", {g}) = {w.group}
  /\ \A t \in DOMAIN w.tables : TableLevelsOf({g}, t) = w.tables[t]

Answers(r) == pc[r] = "write" /\ pc'[r] = "answered"

(***************************************************************************)
(* When a request is answered, the group has exactly the rights of the     *)
(* body, also after requests on it that failed half way, and the answer    *)
(* lists the rights on tables that the group has - provided no two         *)
(* requests on the group ever overlapped (buildFinalTablesPermissions      *)
(* computes the answer from what was read, deleted and created, without    *)
(* asking the database again).                                             *)
(***************************************************************************)
AnsweredIsInEffect ==
  [][\A r \in Requests : Answers(r) /\ target[r] \notin crowded
       => (InEffect(target[r], want[r]) /\ reply[r] = TableGrants(target[r]))']_vars

(***************************************************************************)
(* Listing the tables and checking one table are two pieces of code        *)
(* (getUserPermissionsForAvailableTables, getUserTablePermissions) that    *)
(* have to agree: a table is listed, with the same flags, exactly when a   *)
(* check of that table finds it visible, and what may be written may be    *)
(* read.                                                                   *)
(***************************************************************************)
ListingAgreesWithChecks ==
  \A u \in Users, c \in Connections, t \in Tables :
     LET flags == getUserTablePermissions(u, c, t) IN
     /\ [tableName |-> t, accessLevel |-> flags]
          \in getUserPermissionsForAvailableTables(u, c) <=> flags.visibility
     /\ (checkTableAdd(u, c, t) \/ checkTableDelete(u, c, t) \/ checkTableEdit(u, c, t))
          => checkTableRead(u, c, t)

=============================================================================
