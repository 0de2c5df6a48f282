----------------------------- MODULE UserAccess -----------------------------
(***************************************************************************)
(* Who may do what: the permission rows, the junction tables that link     *)
(* them to groups and groups to users, and the queries of                  *)
(* user-access-custom-repository-extension.ts over them.                   *)
(*                                                                         *)
(* A permission row is linked to groups by permission_groups_group, a      *)
(* group to its users by user_groups_group; a group belongs to one         *)
(* connection and is its main (Admin) group or not, for as long as it      *)
(* lives.                                                                  *)
(***************************************************************************)
EXTENDS FiniteSets

CONSTANTS Users, Groups, Connections, Tables,
          connectionOf,     \* the connection each group belongs to
          MainGroups,       \* the groups with isMain = true
          PermissionIds,    \* ids a permission row can get, never reused
          NoTable,          \* the tableName '' of rows that name no table
          NoRow             \* a permission id no row was created under

ASSUME GroupsAssumption == /\ connectionOf \in [Groups -> Connections]
                           /\ MainGroups \subseteq Groups
                           /\ NoTable \notin Tables

VARIABLES permission,       \* the row created under each id, deleted or not
          removed,          \* ids whose row was deleted
          permissionGroups, \* permission_groups_group: {<<permission, group>>}
          groupUsers        \* user_groups_group: {<<group, user>>}

accessVars == <<permission, removed, permissionGroups, groupUsers>>

TableKeys == {"visibility", "readonly", "add", "delete", "edit"}
Levels    == {"none", "readonly", "edit", "fullaccess"}

PermissionRow ==
  [type : {"Connection", "Group"}, accessLevel : Levels, tableName : {NoTable}]
    \union [type : {"Table"}, accessLevel : TableKeys, tableName : Tables]

ASSUME NoRowAssumption == NoRow \notin PermissionRow

Exists(p) == permission[p] # NoRow /\ p \notin removed
PermissionsIn(g) == {p \in PermissionIds : <<p, g>> \in permissionGroups}

AccessTypeOK == /\ permission \in [PermissionIds -> PermissionRow \union {NoRow}]
                /\ removed \subseteq PermissionIds
                /\ permissionGroups \subseteq PermissionIds \X Groups
                /\ groupUsers \subseteq Groups \X Users

\* The foreign keys of the junction: a linked permission row is in the table.
LinksExist == \A link \in permissionGroups : Exists(link[1])
-----------------------------------------------------------------------------

\* The joins of every query: rows of a type, of the user's groups.
UserGroupsIn(user, connection) ==
  {g \in Groups : <<g, user>> \in groupUsers /\ connectionOf[g] = connection}

LevelsOf(ofType, groups) ==
  {permission[p].accessLevel : p \in
    {q \in UNION {PermissionsIn(g) : g \in groups} : permission[q].type = ofType}}

Strongest(levels) ==
  IF levels \intersect {"fullaccess", "edit"} # {} THEN "edit"
  ELSE IF "readonly" \in levels THEN "readonly" ELSE "none"

getUserConnectionAccessLevel(user, connection) ==
  Strongest(LevelsOf("Connection", UserGroupsIn(user, connection)))

checkUserConnectionRead(user, connection) ==
  getUserConnectionAccessLevel(user, connection) \in {"edit", "readonly"}

checkUserConnectionEdit(user, connection) ==
  getUserConnectionAccessLevel(user, connection) = "edit"

\* Edit on the connection is edit on each of its groups; otherwise the user has
\* to be in the group, and the group has to grant access to itself.
getGroupAccessLevel(user, group) ==
  IF checkUserConnectionEdit(user, connectionOf[group]) THEN "edit"
  ELSE IF <<group, user>> \in groupUsers
       THEN Strongest(LevelsOf("Group", {group})) ELSE "none"

checkUserGroupRead(user, group) == getGroupAccessLevel(user, group) \in {"edit", "readonly"}
checkUserGroupEdit(user, group) == getGroupAccessLevel(user, group) = "edit"
-----------------------------------------------------------------------------
\* The five flags of a table: readonly is reported only next to a writing
\* permission, which is what the code computes.
TableFlags(levels) ==
  [visibility |-> "visibility" \in levels,
   readonly   |-> "readonly" \in levels
                    /\ levels \intersect {"add", "delete", "edit"} # {},
   add        |-> "add" \in levels,
   delete     |-> "delete" \in levels,
   edit       |-> "edit" \in levels]

FullTableFlags == [visibility |-> TRUE, readonly |-> FALSE,
                   add |-> TRUE, delete |-> TRUE, edit |-> TRUE]

TableLevelsOf(groups, table) ==
  {permission[p].accessLevel : p \in
    {q \in UNION {PermissionsIn(g) : g \in groups} :
        permission[q].type = "Table" /\ permission[q].tableName = table}}

getUserTablePermissions(user, connection, table) ==
  IF checkUserConnectionEdit(user, connection) THEN FullTableFlags
  ELSE TableFlags(TableLevelsOf(UserGroupsIn(user, connection), table))

\* Mutant: without the early answer for users who can edit the connection.
TablesByRowsOnly(user, connection) ==
  LET rows == {p \in UNION {PermissionsIn(g) : g \in UserGroupsIn(user, connection)} :
                 permission[p].type = "Table"}
      levels(t) == {permission[p].accessLevel :
                      p \in {q \in rows : permission[q].tableName = t}}
  IN  {[tableName |-> t, accessLevel |-> TableFlags(levels(t))] :
         t \in {u \in Tables : "visibility" \in levels(u)}}

\* One query for all table rows, sorted into a list of levels per table; tables
\* without visibility are left out of the answer.
getUserPermissionsForAvailableTables(user, connection) ==
  LET rows == {p \in UNION {PermissionsIn(g) : g \in UserGroupsIn(user, connection)} :
                 permission[p].type = "Table"}
      levels(t) == {permission[p].accessLevel :
                      p \in {q \in rows : permission[q].tableName = t}}
      flags(t) == IF checkUserConnectionEdit(user, connection)
                  THEN FullTableFlags ELSE TableFlags(levels(t))
  IN  {[tableName |-> t, accessLevel |-> flags(t)] : t \in {u \in Tables : flags(u).visibility}}

checkTableRead(user, connection, table) ==
  LET level == getUserTablePermissions(user, connection, table)
  IN  level.visibility \/ level.add \/ level.delete \/ level.edit

checkTableAdd(user, connection, table) ==
  LET level == getUserTablePermissions(user, connection, table)
  IN  level.visibility /\ level.add

checkTableDelete(user, connection, table) ==
  LET level == getUserTablePermissions(user, connection, table)
  IN  level.visibility /\ level.delete

checkTableEdit(user, connection, table) ==
  LET level == getUserTablePermissions(user, connection, table)
  IN  level.visibility /\ level.edit
=============================================================================
