------------------------- MODULE PermissionsProofs -------------------------
(***************************************************************************)
(* Whatever permission requests run at once, on any groups, connections    *)
(* and bodies, the main group of a connection keeps the right to edit it,  *)
(* and no permission row comes to be shared by two groups; and what a      *)
(* request answers is in effect, on a group where no two requests met.     *)
(***************************************************************************)
EXTENDS Permissions, TLAPS

(***************************************************************************)
(* A group claims a row that is linked to it, and a row that a request on  *)
(* the group holds in memory: the request may write or link it later.      *)
(***************************************************************************)
Held(r) == mem[r] \union current[r].connection \union current[r].group

Claims(g, p) == \/ p \in PermissionsIn(g)
                \/ \E r \in Requests : target[r] = g /\ p \in Held(r)

\* A row has at most one claimant; an id no row was created under has none.
OneClaimant == \A p \in PermissionIds : \A g, h \in Groups :
                  Claims(g, p) /\ Claims(h, p) => g = h
FreshUnclaimed == \A p \in PermissionIds, g \in Groups :
                     permission[p] = NoRow => ~Claims(g, p)

\* Before a request has read its group it holds nothing, and afterwards its
\* group is not a main group.
EmptyBeforeRead == \A r \in Requests :
                      pc[r] \in Ended \union {"findGroup"} => Held(r) = {}
NotMainAfterRead == \A r \in Requests :
                       pc[r] \in Calls \ {"findGroup"} => target[r] \notin MainGroups

AdminId(g) == adminPermission[<<g, "Connection">>]

AdminRowStays == \A g \in MainGroups :
                    /\ AdminId(g) \in PermissionsIn(g)
                    /\ permission[AdminId(g)] = AdminRow("Connection")

IInv == /\ TypeOK
        /\ OneClaimant /\ FreshUnclaimed
        /\ EmptyBeforeRead /\ NotMainAfterRead
        /\ AdminRowStays
-----------------------------------------------------------------------------
LEMMA AdminIdIsAnId == \A g \in MainGroups : g \in Groups /\ AdminId(g) \in PermissionIds
BY PermissionsAssumption, GroupsAssumption DEF AdminId

LEMMA FreshIsUnused == CanCreate => Fresh \in PermissionIds /\ permission[Fresh] = NoRow
BY DEF CanCreate, Fresh

LEMMA AdminRowIsARow == \A type \in {"Connection", "Group"} :
                           AdminRow(type) \in PermissionRow /\ AdminRow(type) # NoRow
BY NoRowAssumption DEF AdminRow, PermissionRow, Levels

LEMMA WantsAreBodies == \A w \in Wants : w.connection \in Levels /\ w.group \in Levels
BY PermissionsAssumption DEF Want

LEMMA TableGrantsAreKeys ==
  ASSUME TypeOK, FreshUnclaimed, NEW g \in Groups
  PROVE  TableGrants(g) \subseteq Tables \X TableKeys
<1> SUFFICES ASSUME NEW p \in PermissionsIn(g), permission[p].type = "Table"
             PROVE  <<permission[p].tableName, permission[p].accessLevel>>
                      \in Tables \X TableKeys
  BY DEF TableGrants
<1>1. permission[p] \in PermissionRow
  BY DEF TypeOK, AccessTypeOK, FreshUnclaimed, Claims, PermissionsIn
<1>2. QED
  BY <1>1 DEF PermissionRow
-----------------------------------------------------------------------------
(***************************************************************************)
(* Type correctness.                                                       *)
(***************************************************************************)
LEMMA InitTypeOK == Init => TypeOK
<1> SUFFICES ASSUME Init PROVE TypeOK
  OBVIOUS
<1>1. permission \in [PermissionIds -> PermissionRow \union {NoRow}]
  <2> SUFFICES ASSUME NEW p \in PermissionIds, \E a \in AdminRows : adminPermission[a] = p
               PROVE  AdminRow((CHOOSE a \in AdminRows : adminPermission[a] = p)[2])
                        \in PermissionRow
    BY DEF Init
  <2>1. (CHOOSE a \in AdminRows : adminPermission[a] = p) \in AdminRows
    OBVIOUS
  <2>2. QED
    BY <2>1, AdminRowIsARow DEF AdminRows
<1>2. permissionGroups \subseteq PermissionIds \X Groups
  BY PermissionsAssumption, GroupsAssumption DEF Init, AdminRows
<1>3. groupUsers \subseteq Groups \X Users
  BY PermissionsAssumption DEF Init
<1>4. AccessTypeOK
  BY <1>1, <1>2, <1>3 DEF Init, AccessTypeOK
<1>5. QED
  BY <1>4, PermissionsAssumption DEF Init, TypeOK, None, Ended, Parts

LEMMA EndTypeOK ==
  ASSUME TypeOK, NEW r \in Requests, NEW call \in Ended, End(r, call)
  PROVE  /\ pc' \in [Requests -> Ended \union Calls]
         /\ part' \in [Requests -> Parts]
         /\ mem' \in [Requests -> SUBSET PermissionIds]
         /\ current' \in [Requests -> [connection : SUBSET PermissionIds,
                                      group : SUBSET PermissionIds]]
         /\ loaded' \in [Requests -> SUBSET PermissionIds]
         /\ todo' \in [Requests -> SUBSET (Tables \X TableKeys)]
BY DEF TypeOK, End, Goto, None, Parts

LEMMA StartTypeOK ==
  ASSUME TypeOK, NEW r \in Requests, NEW user \in Users, NEW g \in Groups, NEW w \in Wants,
         Start(r, user, g, w)
  PROVE  TypeOK'
<1>1. crowded' \subseteq Groups
  BY DEF Start, TypeOK
<1>2. issued' \in 0..MaxRequests
  BY PermissionsAssumption DEF Start, TypeOK
<1>3. /\ pc' \in [Requests -> Ended \union Calls]
      /\ target' \in [Requests -> Groups]
      /\ want' \in [Requests -> Wants]
      /\ reply' \in [Requests -> SUBSET (Tables \X TableKeys)]
  BY DEF Start, Goto, TypeOK, Calls
<1>4. UNCHANGED <<permission, removed, permissionGroups, groupUsers, part, mem, current,
                  loaded, todo, faults>>
  BY DEF Start, accessVars
<1>5. QED
  BY <1>1, <1>2, <1>3, <1>4 DEF TypeOK, AccessTypeOK

LEMMA FindGroupTypeOK ==
  ASSUME TypeOK, NEW r \in Requests, FindGroup(r)
  PROVE  TypeOK'
<1> DEFINE Refused == connectionOf[target[r]] # want[r].connectionId
                        \/ target[r] \in MainGroups
<1>1. CASE Refused
  BY <1>1, EndTypeOK DEF FindGroup, TypeOK, AccessTypeOK, accessVars, counters, Ended
<1>2. CASE ~Refused
  <2>1. PermissionsIn(target[r]) \subseteq PermissionIds
    BY DEF PermissionsIn
  <2>2. /\ pc' \in [Requests -> Ended \union Calls]
        /\ mem' \in [Requests -> SUBSET PermissionIds]
    BY <1>2, <2>1 DEF FindGroup, Goto, TypeOK, Calls
  <2>3. UNCHANGED <<permission, removed, permissionGroups, groupUsers, part, target, want,
                    current, loaded, todo, reply, issued, faults, crowded>>
    BY <1>2 DEF FindGroup, accessVars, counters
  <2>4. QED
    BY <2>2, <2>3 DEF TypeOK, AccessTypeOK
<1>3. QED
  BY <1>1, <1>2

LEMMA FindCurrentTypeOK ==
  ASSUME TypeOK, FreshUnclaimed, NEW r \in Requests, FindCurrent(r)
  PROVE  TypeOK'
<1>1. target[r] \in Groups
  BY DEF TypeOK
<1>2. \A type, c : c \in AnyOf(type, target[r]) => c \subseteq PermissionIds
  BY DEF AnyOf, PermissionsIn
<1>3. current' \in [Requests -> [connection : SUBSET PermissionIds,
                                group : SUBSET PermissionIds]]
  BY <1>2 DEF FindCurrent, TypeOK
<1>4. reply' \in [Requests -> SUBSET (Tables \X TableKeys)]
  BY <1>1, TableGrantsAreKeys DEF FindCurrent, TypeOK
<1>5. QED
  BY <1>3, <1>4 DEF FindCurrent, TypeOK, AccessTypeOK, accessVars, counters, Goto, Calls

LEMMA ChangeLevelTypeOK ==
  ASSUME TypeOK, NEW r \in Requests, NEW type \in {"Connection", "Group"},
         NEW level \in Levels, NEW found \in SUBSET PermissionIds,
         ChangeLevel(r, type, level, found)
  PROVE  TypeOK'
<1> DEFINE row == [type |-> type, accessLevel |-> level, tableName |-> NoTable]
<1>1. row \in PermissionRow
  BY DEF PermissionRow
<1>2. target[r] \in Groups
  BY DEF TypeOK
<1>3. permission' \in [PermissionIds -> PermissionRow \union {NoRow}]
  BY <1>1, FreshIsUnused DEF ChangeLevel, Insert, TypeOK, AccessTypeOK
<1>4. permissionGroups' \subseteq PermissionIds \X Groups
  BY <1>2 DEF ChangeLevel, TypeOK, AccessTypeOK
<1>5. mem' \in [Requests -> SUBSET PermissionIds]
  BY FreshIsUnused DEF ChangeLevel, TypeOK
<1>6. QED
  BY <1>3, <1>4, <1>5 DEF ChangeLevel, TypeOK, AccessTypeOK, counters, Goto, Calls

LEMMA LoadLinksTypeOK ==
  ASSUME TypeOK, NEW r \in Requests, LoadLinks(r)
  PROVE  TypeOK'
BY DEF LoadLinks, TypeOK, AccessTypeOK, accessVars, counters, Goto, Calls, PermissionsIn

LEMMA VisitTypeOK ==
  ASSUME TypeOK, NEW r \in Requests, NEW keys \in SUBSET (Tables \X TableKeys),
         Visit(r, keys)
  PROVE  /\ pc' \in [Requests -> Ended \union Calls]
         /\ todo' \in [Requests -> SUBSET (Tables \X TableKeys)]
BY DEF Visit, Goto, TypeOK, Calls

LEMMA KeysAreKeys ==
  ASSUME TypeOK, NEW r \in Requests
  PROVE  /\ KeysToRevoke(r) \subseteq Tables \X TableKeys
         /\ KeysToGrant(r) \subseteq Tables \X TableKeys
<1>1. want[r] \in Want
  BY PermissionsAssumption DEF TypeOK
<1>2. DOMAIN want[r].tables \subseteq Tables
  BY <1>1 DEF Want
<1>3. \A value : Listed(want[r], value) \subseteq Tables \X TableKeys
  BY <1>2 DEF Listed
<1>4. QED
  BY <1>3 DEF KeysToRevoke, KeysToGrant

LEMMA NextPartTypeOK ==
  ASSUME TypeOK, NEW r \in Requests, NextPart(r)
  PROVE  /\ pc' \in [Requests -> Ended \union Calls]
         /\ part' \in [Requests -> Parts]
         /\ todo' \in [Requests -> SUBSET (Tables \X TableKeys)]
<1>1. CASE part[r] = "connection"
  BY <1>1 DEF NextPart, Goto, TypeOK, Parts, Calls
<1>2. CASE part[r] = "group"
  BY <1>2, KeysAreKeys, VisitTypeOK DEF NextPart, TypeOK, Parts
<1>3. CASE part[r] = "revoke"
  BY <1>3, KeysAreKeys, VisitTypeOK DEF NextPart, TypeOK, Parts
<1>4. QED
  BY <1>1, <1>2, <1>3 DEF NextPart

LEMMA WriteLinksTypeOK ==
  ASSUME TypeOK, NEW r \in Requests, WriteLinks(r)
  PROVE  TypeOK'
<1>1. permissionGroups' \subseteq PermissionIds \X Groups
  BY DEF WriteLinks, TypeOK, AccessTypeOK
<1>2. \/ \E call \in Ended : End(r, call)
      \/ NextPart(r) /\ UNCHANGED <<mem, current, loaded>>
  BY DEF WriteLinks, Ended
<1>3. /\ pc' \in [Requests -> Ended \union Calls]
      /\ part' \in [Requests -> Parts]
      /\ mem' \in [Requests -> SUBSET PermissionIds]
      /\ current' \in [Requests -> [connection : SUBSET PermissionIds,
                                   group : SUBSET PermissionIds]]
      /\ loaded' \in [Requests -> SUBSET PermissionIds]
      /\ todo' \in [Requests -> SUBSET (Tables \X TableKeys)]
  BY <1>2, EndTypeOK, NextPartTypeOK DEF TypeOK
<1>4. UNCHANGED <<permission, removed, groupUsers, target, want, reply, counters>>
  BY DEF WriteLinks
<1>5. QED
  BY <1>1, <1>3, <1>4 DEF TypeOK, AccessTypeOK, counters

LEMMA RevokeTypeOK ==
  ASSUME TypeOK, NEW r \in Requests, NEW key \in Tables \X TableKeys, Revoke(r, key)
  PROVE  TypeOK'
<1>1. /\ removed' \subseteq PermissionIds
      /\ permissionGroups' \subseteq PermissionIds \X Groups
      /\ mem' \in [Requests -> SUBSET PermissionIds]
  BY DEF Revoke, Carriers, TypeOK, AccessTypeOK
<1>2. todo[r] \ {key} \in SUBSET (Tables \X TableKeys)
  BY DEF TypeOK
<1>3. /\ pc' \in [Requests -> Ended \union Calls]
      /\ todo' \in [Requests -> SUBSET (Tables \X TableKeys)]
  BY <1>2, VisitTypeOK DEF Revoke
<1>4. reply' \in [Requests -> SUBSET (Tables \X TableKeys)]
  BY DEF Revoke, TypeOK
<1>5. QED
  BY <1>1, <1>3, <1>4 DEF Revoke, TypeOK, AccessTypeOK, counters

LEMMA GrantTypeOK ==
  ASSUME TypeOK, NEW r \in Requests, NEW key \in Tables \X TableKeys, Grant(r, key)
  PROVE  TypeOK'
<1>1. [type |-> "Table", accessLevel |-> key[2], tableName |-> key[1]] \in PermissionRow
  BY DEF PermissionRow
<1>2. permission' \in [PermissionIds -> PermissionRow \union {NoRow}]
  BY <1>1, FreshIsUnused DEF Grant, Insert, TypeOK, AccessTypeOK
<1>3. todo[r] \ {key} \in SUBSET (Tables \X TableKeys)
  BY DEF TypeOK
<1>4. /\ pc' \in [Requests -> Ended \union Calls]
      /\ todo' \in [Requests -> SUBSET (Tables \X TableKeys)]
  BY <1>3, VisitTypeOK DEF Grant
<1>5. /\ mem' \in [Requests -> SUBSET PermissionIds]
      /\ reply' \in [Requests -> SUBSET (Tables \X TableKeys)]
  BY FreshIsUnused DEF Grant, TypeOK
<1>6. QED
  BY <1>2, <1>4, <1>5 DEF Grant, TypeOK, AccessTypeOK, counters

LEMMA FailTypeOK ==
  ASSUME TypeOK, NEW r \in Requests, Fail(r)
  PROVE  TypeOK'
<1>1. faults' \in 0..MaxFaults
  BY PermissionsAssumption DEF Fail, TypeOK
<1>2. End(r, "idle")
  BY DEF Fail
<1>3. QED
  BY <1>1, <1>2, EndTypeOK DEF Fail, TypeOK, AccessTypeOK, accessVars, Ended

LEMMA ChangeMembershipTypeOK ==
  ASSUME TypeOK, NEW g \in Groups, NEW user \in MovingUsers, ChangeMembership(g, user)
  PROVE  TypeOK'
<1>1. groupUsers' \subseteq Groups \X Users
  BY PermissionsAssumption DEF ChangeMembership, TypeOK, AccessTypeOK
<1>2. QED
  BY <1>1 DEF ChangeMembership, TypeOK, AccessTypeOK, requestVars, counters

\* Every step of a request or of the members keeps the types.
LEMMA NextTypeOK ==
  ASSUME TypeOK, FreshUnclaimed, [Next]_vars
  PROVE  TypeOK'
<1>1. ASSUME NEW r \in Requests, NEW user \in Users, NEW g \in Groups, NEW w \in Wants,
             Start(r, user, g, w)
      PROVE  TypeOK'
  BY <1>1, StartTypeOK
<1>2. ASSUME NEW r \in Requests, Step(r)
      PROVE  TypeOK'
  <2>1. /\ current[r].connection \in SUBSET PermissionIds
        /\ current[r].group \in SUBSET PermissionIds
        /\ want[r].connection \in Levels /\ want[r].group \in Levels
    BY WantsAreBodies DEF TypeOK
  <2>2. CASE ChangeConnectionLevel(r)
    BY <2>1, <2>2, ChangeLevelTypeOK DEF ChangeConnectionLevel
  <2>3. CASE ChangeGroupLevel(r)
    BY <2>1, <2>3, ChangeLevelTypeOK DEF ChangeGroupLevel
  <2>4. QED
    BY <1>2, <2>2, <2>3, FindGroupTypeOK, FindCurrentTypeOK, LoadLinksTypeOK,
       WriteLinksTypeOK, RevokeTypeOK, GrantTypeOK DEF Step
<1>3. ASSUME NEW r \in Requests, Fail(r)
      PROVE  TypeOK'
  BY <1>3, FailTypeOK
<1>4. ASSUME NEW g \in Groups, NEW user \in MovingUsers, ChangeMembership(g, user)
      PROVE  TypeOK'
  BY <1>4, ChangeMembershipTypeOK
<1>5. CASE UNCHANGED vars
  BY <1>5 DEF vars, accessVars, requestVars, counters, TypeOK, AccessTypeOK
<1>6. QED
  BY <1>1, <1>2, <1>3, <1>4, <1>5 DEF Next
-----------------------------------------------------------------------------
(***************************************************************************)
(* Who claims which row.  A step either creates no claim, or creates one   *)
(* row and one claim on it; both keep a row with a single claimant.        *)
(***************************************************************************)
NoNewClaims == /\ \A p \in PermissionIds, g \in Groups : Claims(g, p)' => Claims(g, p)
               /\ \A p \in PermissionIds : permission'[p] = NoRow => permission[p] = NoRow

LEMMA NoNewClaimsIsSafe ==
  ASSUME OneClaimant, FreshUnclaimed, NoNewClaims
  PROVE  OneClaimant' /\ FreshUnclaimed'
BY DEF OneClaimant, FreshUnclaimed, NoNewClaims

\* The row created is claimed by nobody else.
OneNewClaim(g) ==
  /\ CanCreate
  /\ \A p \in PermissionIds, h \in Groups :
        Claims(h, p)' => Claims(h, p) \/ (h = g /\ p = Fresh)
  /\ \A p \in PermissionIds : permission'[p] = NoRow => permission[p] = NoRow /\ p # Fresh

LEMMA OneNewClaimIsSafe ==
  ASSUME OneClaimant, FreshUnclaimed, NEW g \in Groups, OneNewClaim(g)
  PROVE  OneClaimant' /\ FreshUnclaimed'
BY FreshIsUnused DEF OneClaimant, FreshUnclaimed, OneNewClaim

\* The rows a request holds are not the row a main group edits by.
LEMMA HeldIsNotAdmin ==
  ASSUME IInv, NEW r \in Requests, NEW p \in Held(r), NEW g \in MainGroups
  PROVE  p # AdminId(g) /\ target[r] # g
<1>1. pc[r] \in Ended \union Calls /\ target[r] \in Groups
  BY DEF IInv, TypeOK
<1>2. target[r] \notin MainGroups
  BY <1>1 DEF IInv, EmptyBeforeRead, NotMainAfterRead
<1>3. p \in PermissionIds
  BY DEF IInv, TypeOK, Held
<1>4. Claims(target[r], p)
  BY DEF Claims
<1>5. Claims(g, AdminId(g))
  BY DEF IInv, AdminRowStays, Claims
<1>6. QED
  BY <1>1, <1>2, <1>3, <1>4, <1>5, AdminIdIsAnId DEF IInv, OneClaimant

\* A request that wrote only rows it holds, or a new one, and links of its own
\* group or of rows it holds, has left the rows of the main groups alone.
WritesOwnRows(r) ==
  /\ \A p \in PermissionIds : permission'[p] # permission[p]
                             => p \in Held(r) \/ permission[p] = NoRow
  /\ \A link \in permissionGroups \ permissionGroups' :
        link[1] \in Held(r) \/ (link[2] = target[r] /\ target[r] \notin MainGroups)

LEMMA OwnRowsAreNotAdmins ==
  ASSUME IInv, NEW r \in Requests, WritesOwnRows(r)
  PROVE  AdminRowStays'
<1> SUFFICES ASSUME NEW g \in MainGroups
             PROVE  /\ AdminId(g) \in PermissionsIn(g)'
                    /\ permission'[AdminId(g)] = AdminRow("Connection")
  BY DEF AdminRowStays, AdminId, AdminRow
<1>1. /\ AdminId(g) \in PermissionIds /\ <<AdminId(g), g>> \in permissionGroups
      /\ permission[AdminId(g)] = AdminRow("Connection")
  BY DEF IInv, AdminRowStays, PermissionsIn
<1>2. AdminId(g) \notin Held(r)
  BY HeldIsNotAdmin
<1>3. permission[AdminId(g)] # NoRow
  BY <1>1, AdminRowIsARow
<1>4. permission'[AdminId(g)] = AdminRow("Connection")
  BY <1>1, <1>2, <1>3 DEF WritesOwnRows
<1>5. <<AdminId(g), g>> \in permissionGroups'
  BY <1>1, <1>2 DEF WritesOwnRows
<1>6. QED
  BY <1>1, <1>4, <1>5 DEF PermissionsIn

\* The parts of the invariant about where a request stands.
Standing == EmptyBeforeRead /\ NotMainAfterRead

\* What a step of request r leaves alone.
OthersStand(r) ==
  \A q \in Requests \ {r} : /\ pc'[q] = pc[q] /\ target'[q] = target[q]
                            /\ mem'[q] = mem[q] /\ current'[q] = current[q]

LEMMA StandingStays ==
  ASSUME IInv, NEW r \in Requests, OthersStand(r),
         pc'[r] \in Ended \union {"findGroup"} => Held(r)' = {},
         pc'[r] \in Calls \ {"findGroup"} => target'[r] \notin MainGroups
  PROVE  Standing'
<1>1. \A q \in Requests \ {r} : Held(q)' = Held(q)
  BY DEF OthersStand, Held
<1>2. EmptyBeforeRead'
  BY <1>1 DEF EmptyBeforeRead, OthersStand, IInv
<1>3. NotMainAfterRead'
  BY DEF NotMainAfterRead, OthersStand, IInv
<1>4. QED
  BY <1>2, <1>3 DEF Standing

\* A request that adds no link but to what it holds, and holds no more than its
\* group claims already.
AddsOwnLinks(r) ==
  \A link \in permissionGroups' :
     link \in permissionGroups \/ (link[2] = target[r] /\ link[1] \in Held(r))
KeepsRows == \A p \in PermissionIds : permission'[p] = NoRow => permission[p] = NoRow

LEMMA NoNewClaimsBy ==
  ASSUME IInv, NEW r \in Requests, OthersStand(r), target'[r] = target[r] \/ Held(r)' = {},
         Held(r)' \subseteq Held(r) \union PermissionsIn(target[r]),
         AddsOwnLinks(r), KeepsRows
  PROVE  NoNewClaims
<1> SUFFICES ASSUME NEW p \in PermissionIds, NEW g \in Groups, Claims(g, p)'
             PROVE  Claims(g, p)
  BY DEF NoNewClaims, KeepsRows
<1>1. CASE p \in PermissionsIn(g)'
  BY <1>1 DEF PermissionsIn, Claims, AddsOwnLinks
<1>2. CASE \E q \in Requests : target'[q] = g /\ p \in Held(q)'
  <2>1. PICK q \in Requests : target'[q] = g /\ p \in Held(q)'
    BY <1>2
  <2>2. CASE q = r
    BY <2>1, <2>2 DEF Claims
  <2>3. CASE q # r
    BY <2>1, <2>3 DEF Claims, OthersStand, Held
  <2>4. QED
    BY <2>2, <2>3
<1>3. QED
  BY <1>1, <1>2 DEF Claims

\* A request that inserts a row, holds it from then on, and links nothing.
LEMMA OneNewClaimBy ==
  ASSUME IInv, NEW r \in Requests, OthersStand(r), target' = target, CanCreate,
         NEW row \in PermissionRow, Insert(row),
         Held(r)' \subseteq Held(r) \union {Fresh}, permissionGroups' = permissionGroups
  PROVE  OneNewClaim(target[r]) /\ WritesOwnRows(r)
<1>1. \A p \in PermissionIds : permission'[p] = IF p = Fresh THEN row ELSE permission[p]
  BY DEF Insert, IInv, TypeOK, AccessTypeOK
<1>2. WritesOwnRows(r)
  BY <1>1, FreshIsUnused DEF WritesOwnRows
<1>3. row # NoRow
  BY NoRowAssumption
<1>4. ASSUME NEW p \in PermissionIds, NEW h \in Groups, Claims(h, p)'
      PROVE  Claims(h, p) \/ (h = target[r] /\ p = Fresh)
  <2>1. CASE p \in PermissionsIn(h)'
    BY <2>1 DEF PermissionsIn, Claims
  <2>2. ASSUME NEW q \in Requests, target'[q] = h, p \in Held(q)'
        PROVE  Claims(h, p) \/ (h = target[r] /\ p = Fresh)
    <3>1. CASE q = r
      BY <2>2, <3>1 DEF Claims
    <3>2. CASE q # r
      BY <2>2, <3>2 DEF Claims, OthersStand, Held
    <3>3. QED
      BY <3>1, <3>2
  <2>3. QED
    BY <1>4, <2>1, <2>2 DEF Claims
<1>5. QED
  BY <1>1, <1>2, <1>3, <1>4 DEF OneNewClaim
-----------------------------------------------------------------------------
(***************************************************************************)
(* The steps, one by one.  The conjuncts other than TypeOK:                *)
(***************************************************************************)
Separation == OneClaimant /\ FreshUnclaimed /\ Standing /\ AdminRowStays

LEMMA SeparationByShrinking ==
  ASSUME IInv, NEW r \in Requests, NoNewClaims, Standing', WritesOwnRows(r)
  PROVE  Separation'
BY NoNewClaimsIsSafe, OwnRowsAreNotAdmins DEF IInv, Separation

LEMMA EndHolds ==
  ASSUME IInv, NEW r \in Requests, NEW call \in Ended, End(r, call), target' = target,
         permission' = permission,
         AddsOwnLinks(r), WritesOwnRows(r)
  PROVE  Separation'
<1>1. Held(r)' = {}
  BY DEF Held, End, None, IInv, TypeOK
<1>2. OthersStand(r) /\ pc'[r] = call
  BY DEF OthersStand, End, Goto, IInv, TypeOK
<1>3. KeepsRows
  BY DEF KeepsRows
<1> NoNewClaims
  BY <1>1, <1>2, <1>3, NoNewClaimsBy
<1>4. call \notin Calls
  BY DEF Ended, Calls
<1>5. Standing'
  BY <1>1, <1>2, <1>4, StandingStays
<1>6. QED
  BY <1>5, SeparationByShrinking

LEMMA StartSeparates ==
  ASSUME IInv, NEW r \in Requests, NEW user \in Users, NEW g \in Groups, NEW w \in Wants,
         Start(r, user, g, w)
  PROVE  Separation'
<1>1. OthersStand(r) /\ pc'[r] = "findGroup"
  BY DEF OthersStand, Start, Goto, IInv, TypeOK
<1>2. UNCHANGED <<permission, permissionGroups, mem, current>>
  BY DEF Start, accessVars
<1>3. Held(r)' = {}
  BY <1>2 DEF Held, Start, IInv, EmptyBeforeRead
<1>4. NoNewClaims
  <2>1. AddsOwnLinks(r) /\ KeepsRows
    BY <1>2 DEF AddsOwnLinks, KeepsRows
  <2>2. Held(r)' \subseteq Held(r) \union PermissionsIn(target[r])
    BY <1>3
  <2>3. QED
    BY <1>1, <1>3, <2>1, <2>2, NoNewClaimsBy
<1>5. Standing'
  BY <1>1, <1>3, StandingStays DEF Calls
<1>6. WritesOwnRows(r)
  BY <1>2 DEF WritesOwnRows
<1>7. QED
  BY <1>4, <1>5, <1>6, SeparationByShrinking

LEMMA FindGroupSeparates ==
  ASSUME IInv, NEW r \in Requests, FindGroup(r)
  PROVE  Separation'
<1>1. UNCHANGED <<permission, permissionGroups, target>>
  BY DEF FindGroup, accessVars
<1>2. WritesOwnRows(r) /\ AddsOwnLinks(r) /\ KeepsRows
  BY <1>1 DEF WritesOwnRows, AddsOwnLinks, KeepsRows
<1> DEFINE Refused == connectionOf[target[r]] # want[r].connectionId
                        \/ target[r] \in MainGroups
<1>3. CASE Refused
  <2>1. End(r, "idle") /\ "idle" \in Ended
    BY <1>3 DEF FindGroup, Ended
  <2>2. QED
    BY <1>1, <1>2, <2>1, EndHolds
<1>4. CASE ~Refused
  <2>1. OthersStand(r) /\ pc'[r] = "findCurrent"
    BY <1>1, <1>4 DEF OthersStand, FindGroup, Goto, IInv, TypeOK
  <2>2. Held(r)' \subseteq Held(r) \union PermissionsIn(target[r])
    BY <1>4 DEF Held, FindGroup, IInv, TypeOK
  <2>3. NoNewClaims
    BY <1>1, <1>2, <2>1, <2>2, NoNewClaimsBy
  <2>4. Standing'
    BY <1>1, <1>4, <2>1, StandingStays DEF Ended
  <2>5. QED
    BY <1>2, <2>3, <2>4, SeparationByShrinking
<1>5. QED
  BY <1>3, <1>4

\* A request that goes on and is already past the check of its group.
LEMMA GoesOn ==
  ASSUME IInv, NEW r \in Requests, OthersStand(r), target' = target,
         pc[r] \in Calls \ {"findGroup"}, pc'[r] \in Calls \ {"findGroup"}
  PROVE  Standing'
<1>1. target'[r] \notin MainGroups
  BY DEF IInv, NotMainAfterRead
<1>2. pc'[r] \notin Ended \union {"findGroup"}
  BY DEF Calls, Ended
<1>3. QED
  BY <1>1, <1>2, StandingStays

LEMMA FindCurrentSeparates ==
  ASSUME IInv, NEW r \in Requests, FindCurrent(r)
  PROVE  Separation'
<1>1. UNCHANGED <<permission, permissionGroups, target, mem>>
  BY DEF FindCurrent, accessVars
<1>2. WritesOwnRows(r) /\ AddsOwnLinks(r) /\ KeepsRows
  BY <1>1 DEF WritesOwnRows, AddsOwnLinks, KeepsRows
<1>3. OthersStand(r) /\ pc[r] = "findCurrent" /\ pc'[r] = "change"
  BY <1>1 DEF OthersStand, FindCurrent, Goto, IInv, TypeOK
<1>4. Held(r)' \subseteq Held(r) \union PermissionsIn(target[r])
  <2>1. \A type, c : c \in AnyOf(type, target[r]) => c \subseteq PermissionsIn(target[r])
    BY DEF AnyOf
  <2>2. QED
    BY <1>1, <2>1 DEF Held, FindCurrent, IInv, TypeOK
<1>5. NoNewClaims
  BY <1>1, <1>2, <1>3, <1>4, NoNewClaimsBy
<1>6. Standing'
  BY <1>1, <1>3, GoesOn DEF Calls
<1>7. QED
  BY <1>2, <1>5, <1>6, SeparationByShrinking

LEMMA SeparationByInsertion ==
  ASSUME IInv, NEW r \in Requests, OthersStand(r), target' = target, CanCreate,
         NEW row \in PermissionRow, Insert(row), Standing',
         Held(r)' \subseteq Held(r) \union {Fresh}, permissionGroups' = permissionGroups
  PROVE  Separation'
<1>1. OneNewClaim(target[r]) /\ WritesOwnRows(r)
  BY OneNewClaimBy
<1>2. target[r] \in Groups
  BY DEF IInv, TypeOK
<1>3. QED
  BY <1>1, <1>2, OneNewClaimIsSafe, OwnRowsAreNotAdmins DEF IInv, Separation

LEMMA ChangeLevelSeparates ==
  ASSUME IInv, NEW r \in Requests, NEW type \in {"Connection", "Group"},
         NEW level \in Levels, NEW found \in SUBSET Held(r),
         ChangeLevel(r, type, level, found)
  PROVE  Separation'
<1> DEFINE row == [type |-> type, accessLevel |-> level, tableName |-> NoTable]
<1>1. row \in PermissionRow /\ row # NoRow
  BY NoRowAssumption DEF PermissionRow
<1>2. UNCHANGED <<target, current>>
  BY DEF ChangeLevel
<1>3. OthersStand(r) /\ pc[r] = "change" /\ pc'[r] = "load"
  BY <1>2 DEF OthersStand, ChangeLevel, Goto, IInv, TypeOK
<1>4. Standing'
  BY <1>2, <1>3, GoesOn DEF Calls
<1>5. ASSUME NEW p \in found,
             permission' = [permission EXCEPT ![p] = row],
             permissionGroups' = {link \in permissionGroups : link[1] # p}
                                   \union {<<p, target[r]>>},
             UNCHANGED mem
      PROVE  Separation'
  <2>1. p \in Held(r) /\ Held(r)' = Held(r)
    BY <1>2, <1>5 DEF Held
  <2>2. WritesOwnRows(r)
    BY <1>5, <2>1 DEF WritesOwnRows, IInv, TypeOK, AccessTypeOK
  <2>3. AddsOwnLinks(r)
    BY <1>5, <2>1 DEF AddsOwnLinks
  <2>4. KeepsRows
    BY <1>1, <1>5 DEF KeepsRows, IInv, TypeOK, AccessTypeOK
  <2>5. NoNewClaims
    BY <1>2, <1>3, <2>1, <2>3, <2>4, NoNewClaimsBy
  <2>6. QED
    BY <1>4, <2>2, <2>5, SeparationByShrinking
<1>6. ASSUME CanCreate, Insert(row), mem' = [mem EXCEPT ![r] = @ \union {Fresh}],
             UNCHANGED permissionGroups
      PROVE  Separation'
  <2>1. Held(r)' \subseteq Held(r) \union {Fresh}
    BY <1>2, <1>6 DEF Held, IInv, TypeOK
  <2>2. QED
    BY <1>1, <1>2, <1>3, <1>4, <1>6, <2>1, SeparationByInsertion
<1>7. QED
  BY <1>5, <1>6 DEF ChangeLevel

LEMMA LoadLinksSeparates ==
  ASSUME IInv, NEW r \in Requests, LoadLinks(r)
  PROVE  Separation'
<1>1. UNCHANGED <<permission, permissionGroups, target, mem, current>>
  BY DEF LoadLinks, accessVars
<1>2. WritesOwnRows(r) /\ AddsOwnLinks(r) /\ KeepsRows
  BY <1>1 DEF WritesOwnRows, AddsOwnLinks, KeepsRows
<1>3. OthersStand(r) /\ pc[r] = "load" /\ pc'[r] = "write"
  BY <1>1 DEF OthersStand, LoadLinks, Goto, IInv, TypeOK
<1>4. Held(r)' = Held(r)
  BY <1>1 DEF Held
<1>5. NoNewClaims
  BY <1>1, <1>2, <1>3, <1>4, NoNewClaimsBy
<1>6. Standing'
  BY <1>1, <1>3, GoesOn DEF Calls
<1>7. QED
  BY <1>2, <1>5, <1>6, SeparationByShrinking

LEMMA WriteLinksSeparates ==
  ASSUME IInv, NEW r \in Requests, WriteLinks(r)
  PROVE  Separation'
<1>1. UNCHANGED <<permission, target>> /\ pc[r] = "write"
  BY DEF WriteLinks
<1>2. target[r] \notin MainGroups
  BY <1>1 DEF IInv, NotMainAfterRead, Calls
<1>3. WritesOwnRows(r)
  BY <1>1, <1>2 DEF WritesOwnRows, WriteLinks
<1>4. KeepsRows
  BY <1>1 DEF KeepsRows
<1>5. AddsOwnLinks(r)
  BY DEF AddsOwnLinks, WriteLinks, Held
<1>6. ASSUME NEW call \in Ended, End(r, call)
      PROVE  Separation'
  BY <1>1, <1>3, <1>5, <1>6, EndHolds
<1>7. ASSUME NextPart(r), UNCHANGED <<mem, current, loaded>>
      PROVE  Separation'
  <2>1. Goto(r, "change") \/ Goto(r, "load")
    BY <1>7 DEF NextPart, Visit
  <2>2. OthersStand(r) /\ pc'[r] \in {"change", "load"}
    BY <1>1, <1>7, <2>1 DEF OthersStand, Goto, IInv, TypeOK
  <2>3. Held(r)' = Held(r)
    BY <1>7 DEF Held
  <2>4. NoNewClaims
    BY <1>1, <1>4, <1>5, <2>2, <2>3, NoNewClaimsBy
  <2>5. Standing'
    BY <1>1, <2>2, GoesOn DEF Calls
  <2>6. QED
    BY <1>3, <2>4, <2>5, SeparationByShrinking
<1>8. \/ \E call \in Ended : End(r, call)
      \/ NextPart(r) /\ UNCHANGED <<mem, current, loaded>>
  BY DEF WriteLinks, Ended
<1>9. QED
  BY <1>6, <1>7, <1>8

LEMMA VisitGoesOn ==
  ASSUME IInv, NEW r \in Requests, NEW keys, Visit(r, keys),
         \A q \in Requests \ {r} : mem'[q] = mem[q], UNCHANGED <<target, current>>
  PROVE  OthersStand(r) /\ pc'[r] \in {"change", "load"}
<1>1. Goto(r, "change") \/ Goto(r, "load")
  BY DEF Visit
<1>2. QED
  BY <1>1 DEF OthersStand, Goto, IInv, TypeOK

LEMMA RevokeSeparates ==
  ASSUME IInv, NEW r \in Requests, NEW key \in Tables \X TableKeys, Revoke(r, key)
  PROVE  Separation'
<1>1. PICK p \in Carriers(mem[r], key) :
          /\ permissionGroups' = {link \in permissionGroups : link[1] # p}
          /\ mem' = [mem EXCEPT ![r] = @ \ {p}]
  BY DEF Revoke
<1>2. UNCHANGED <<permission, target, current>> /\ pc[r] = "change"
  BY DEF Revoke
<1>3. p \in Held(r) /\ Held(r)' \subseteq Held(r)
  BY <1>1, <1>2 DEF Carriers, Held, IInv, TypeOK
<1>4. WritesOwnRows(r) /\ AddsOwnLinks(r) /\ KeepsRows
  BY <1>1, <1>2, <1>3 DEF WritesOwnRows, AddsOwnLinks, KeepsRows
<1>5. OthersStand(r) /\ pc'[r] \in {"change", "load"}
  <2>1. Visit(r, todo[r] \ {key})
    BY DEF Revoke
  <2>2. \A q \in Requests \ {r} : mem'[q] = mem[q]
    BY <1>1 DEF IInv, TypeOK
  <2>3. QED
    BY <1>2, <2>1, <2>2, VisitGoesOn
<1>6. NoNewClaims
  BY <1>2, <1>3, <1>4, <1>5, NoNewClaimsBy
<1>7. Standing'
  BY <1>2, <1>5, GoesOn DEF Calls
<1>8. QED
  BY <1>4, <1>6, <1>7, SeparationByShrinking

LEMMA GrantSeparates ==
  ASSUME IInv, NEW r \in Requests, NEW key \in Tables \X TableKeys, Grant(r, key)
  PROVE  Separation'
<1> DEFINE row == [type |-> "Table", accessLevel |-> key[2], tableName |-> key[1]]
<1>1. row \in PermissionRow
  BY DEF PermissionRow
<1>2. /\ UNCHANGED <<permissionGroups, target, current>> /\ pc[r] = "change"
      /\ CanCreate /\ Insert(row) /\ mem' = [mem EXCEPT ![r] = @ \union {Fresh}]
  BY DEF Grant
<1>3. Held(r)' \subseteq Held(r) \union {Fresh}
  BY <1>2 DEF Held, IInv, TypeOK
<1>4. OthersStand(r) /\ pc'[r] \in {"change", "load"}
  <2>1. Visit(r, todo[r] \ {key})
    BY DEF Grant
  <2>2. \A q \in Requests \ {r} : mem'[q] = mem[q]
    BY <1>2 DEF IInv, TypeOK
  <2>3. QED
    BY <1>2, <2>1, <2>2, VisitGoesOn
<1>5. Standing'
  BY <1>2, <1>4, GoesOn DEF Calls
<1>6. QED
  BY <1>1, <1>2, <1>3, <1>4, <1>5, SeparationByInsertion

LEMMA FailSeparates ==
  ASSUME IInv, NEW r \in Requests, Fail(r)
  PROVE  Separation'
<1>1. UNCHANGED <<permission, permissionGroups, target>> /\ End(r, "idle")
  BY DEF Fail, accessVars
<1>2. WritesOwnRows(r) /\ AddsOwnLinks(r)
  BY <1>1 DEF WritesOwnRows, AddsOwnLinks
<1>3. QED
  BY <1>1, <1>2, EndHolds DEF Ended

LEMMA IdleSeparates ==
  ASSUME IInv, UNCHANGED <<permission, permissionGroups, pc, target, mem, current>>
  PROVE  Separation'
<1>1. \A r \in Requests : Held(r)' = Held(r)
  BY DEF Held
<1>2. \A g \in Groups, p \in PermissionIds : Claims(g, p)' <=> Claims(g, p)
  BY <1>1 DEF Claims, PermissionsIn
<1>3. OneClaimant' /\ FreshUnclaimed'
  BY <1>2 DEF IInv, OneClaimant, FreshUnclaimed
<1>4. Standing'
  BY <1>1 DEF IInv, Standing, EmptyBeforeRead, NotMainAfterRead
<1>5. AdminRowStays'
  BY DEF IInv, AdminRowStays, AdminId, AdminRow, PermissionsIn
<1>6. QED
  BY <1>3, <1>4, <1>5 DEF Separation
-----------------------------------------------------------------------------
LEMMA InitIInv == Init => IInv
<1> SUFFICES ASSUME Init PROVE IInv
  OBVIOUS
<1>1. \A r \in Requests : Held(r) = {}
  BY DEF Init, Held, None
<1>2. ASSUME NEW a \in AdminRows
      PROVE  permission[adminPermission[a]] = AdminRow(a[2])
  <2>1. adminPermission[a] \in PermissionIds
    BY PermissionsAssumption DEF AdminRows
  <2>2. (CHOOSE b \in AdminRows : adminPermission[b] = adminPermission[a]) = a
    BY PermissionsAssumption DEF AdminRows
  <2>3. QED
    BY <2>1, <2>2 DEF Init
<1>3. ASSUME NEW p \in PermissionIds, NEW g \in Groups, Claims(g, p)
      PROVE  \E a \in AdminRows : adminPermission[a] = p /\ a[1] = g
  BY <1>1, <1>3 DEF Claims, PermissionsIn, Init
<1>4. OneClaimant
  BY <1>3, PermissionsAssumption DEF OneClaimant, AdminRows
<1>5. FreshUnclaimed
  <2>1. \A a \in AdminRows : AdminRow(a[2]) # NoRow
    BY AdminRowIsARow DEF AdminRows
  <2>2. QED
    BY <1>2, <1>3, <2>1 DEF FreshUnclaimed
<1>6. EmptyBeforeRead /\ NotMainAfterRead
  BY <1>1 DEF EmptyBeforeRead, NotMainAfterRead, Init, Calls
<1>7. AdminRowStays
  <2> SUFFICES ASSUME NEW g \in MainGroups
               PROVE  /\ AdminId(g) \in PermissionsIn(g)
                      /\ permission[AdminId(g)] = AdminRow("Connection")
    BY DEF AdminRowStays
  <2>1. <<g, "Connection">> \in AdminRows
    BY DEF AdminRows
  <2>2. permission[AdminId(g)] = AdminRow("Connection")
    BY <1>2, <2>1 DEF AdminId
  <2>3. <<AdminId(g), g>> \in permissionGroups
    BY <2>1 DEF Init, AdminId
  <2>4. QED
    BY <2>2, <2>3, AdminIdIsAnId DEF PermissionsIn
<1>8. QED
  BY <1>4, <1>5, <1>6, <1>7, InitTypeOK DEF IInv

LEMMA NextIInv == IInv /\ [Next]_vars => IInv'
<1> SUFFICES ASSUME IInv, [Next]_vars PROVE IInv'
  OBVIOUS
<1>1. TypeOK'
  BY NextTypeOK DEF IInv
<1>2. ASSUME NEW r \in Requests, NEW user \in Users, NEW g \in Groups, NEW w \in Wants,
             Start(r, user, g, w)
      PROVE  Separation'
  BY <1>2, StartSeparates
<1>3. ASSUME NEW r \in Requests, Step(r)
      PROVE  Separation'
  <2>1. /\ current[r].connection \in SUBSET Held(r) /\ current[r].group \in SUBSET Held(r)
        /\ want[r].connection \in Levels /\ want[r].group \in Levels
    BY WantsAreBodies DEF IInv, TypeOK, Held
  <2>2. CASE ChangeConnectionLevel(r)
    BY <2>1, <2>2, ChangeLevelSeparates DEF ChangeConnectionLevel
  <2>3. CASE ChangeGroupLevel(r)
    BY <2>1, <2>3, ChangeLevelSeparates DEF ChangeGroupLevel
  <2>4. QED
    BY <1>3, <2>2, <2>3, FindGroupSeparates, FindCurrentSeparates, LoadLinksSeparates,
       WriteLinksSeparates, RevokeSeparates, GrantSeparates DEF Step
<1>4. ASSUME NEW r \in Requests, Fail(r)
      PROVE  Separation'
  BY <1>4, FailSeparates
<1>5. ASSUME NEW g \in Groups, NEW user \in MovingUsers, ChangeMembership(g, user)
      PROVE  Separation'
  <2>1. UNCHANGED <<permission, permissionGroups, pc, target, mem, current>>
    BY <1>5 DEF ChangeMembership, requestVars
  <2>2. QED
    BY <2>1, IdleSeparates
<1>6. ASSUME UNCHANGED vars
      PROVE  Separation'
  <2>1. UNCHANGED <<permission, permissionGroups, pc, target, mem, current>>
    BY <1>6 DEF vars, accessVars, requestVars
  <2>2. QED
    BY <2>1, IdleSeparates
<1>7. Separation'
  BY <1>2, <1>3, <1>4, <1>5, <1>6 DEF Next
<1>8. QED
  BY <1>1, <1>7 DEF IInv, Separation, Standing

LEMMA Invariance == Spec => []IInv
BY InitIInv, NextIInv, PTL DEF Spec
-----------------------------------------------------------------------------
\* Every variable keeps its type, however the requests interleave
\* (create-or-update-permissions.use.case.ts).
THEOREM TypeCorrect == Spec => []TypeOK
<1>1. IInv => TypeOK
  BY DEF IInv
<1>2. QED
  BY <1>1, Invariance, PTL

(***************************************************************************)
(* The isMain check of a request (create-or-update-permissions.use.case.ts *)
(* :67-74) and its saves of whole snapshots together never take the right  *)
(* to edit a connection from a member of its main group.                   *)
(***************************************************************************)
THEOREM MainMembersAlwaysCanEdit == Spec => []MainMembersCanEdit
<1>1. IInv => MainMembersCanEdit
  <2> SUFFICES ASSUME IInv, NEW g \in MainGroups, NEW u \in Users, <<g, u>> \in groupUsers
               PROVE  checkUserConnectionEdit(u, connectionOf[g])
    BY DEF MainMembersCanEdit
  <2>1. g \in UserGroupsIn(u, connectionOf[g])
    BY AdminIdIsAnId DEF UserGroupsIn
  <2>2. AdminId(g) \in PermissionsIn(g) /\ permission[AdminId(g)] = AdminRow("Connection")
    BY DEF IInv, AdminRowStays
  <2>3. AdminId(g) \in {q \in UNION {PermissionsIn(h) : h \in UserGroupsIn(u, connectionOf[g])} :
                          permission[q].type = "Connection"}
    BY <2>1, <2>2 DEF AdminRow
  <2>4. "edit" \in LevelsOf("Connection", UserGroupsIn(u, connectionOf[g]))
    BY <2>2, <2>3 DEF LevelsOf, AdminRow
  <2>5. QED
    BY <2>4 DEF checkUserConnectionEdit, getUserConnectionAccessLevel, Strongest
<1>2. QED
  BY <1>1, Invariance, PTL

(***************************************************************************)
(* No permission row comes to belong to two groups: a request links only   *)
(* rows it read from its own group or created.                             *)
(***************************************************************************)
THEOREM RowsNeverShared == Spec => []RowsAreNotShared
<1>1. IInv => RowsAreNotShared
  BY DEF IInv, OneClaimant, RowsAreNotShared, Claims
<1>2. QED
  BY <1>1, Invariance, PTL

-----------------------------------------------------------------------------
(***************************************************************************)
(* The flags the listing computes for a table, from the rows of all tables *)
(* together, are those of the check of that table alone.                   *)
(***************************************************************************)
ListedFlags(user, connection, t) ==
  IF checkUserConnectionEdit(user, connection) THEN FullTableFlags
  ELSE TableFlags({permission[p].accessLevel :
         p \in {q \in {x \in UNION {PermissionsIn(g) : g \in UserGroupsIn(user, connection)} :
                          permission[x].type = "Table"} :
                 permission[q].tableName = t}})

LEMMA ListedFlagsAreTheChecked ==
  ASSUME NEW user, NEW connection, NEW t
  PROVE  ListedFlags(user, connection, t) = getUserTablePermissions(user, connection, t)
<1> DEFINE rows == UNION {PermissionsIn(g) : g \in UserGroupsIn(user, connection)}
<1>1. {q \in {x \in rows : permission[x].type = "Table"} : permission[q].tableName = t}
        = {q \in rows : permission[q].type = "Table" /\ permission[q].tableName = t}
  OBVIOUS
<1>2. TableLevelsOf(UserGroupsIn(user, connection), t) =
        {permission[p].accessLevel :
           p \in {q \in rows : permission[q].type = "Table" /\ permission[q].tableName = t}}
  BY DEF TableLevelsOf
<1>3. QED
  BY <1>1, <1>2 DEF ListedFlags, getUserTablePermissions

LEMMA ListingIsByTable ==
  ASSUME NEW user, NEW connection
  PROVE  getUserPermissionsForAvailableTables(user, connection) =
           {[tableName |-> t, accessLevel |-> ListedFlags(user, connection, t)] :
              t \in {u \in Tables : ListedFlags(user, connection, u).visibility}}
BY DEF getUserPermissionsForAvailableTables, ListedFlags

LEMMA ListingAgrees == ListingAgreesWithChecks
<1> SUFFICES ASSUME NEW u \in Users, NEW c \in Connections, NEW t \in Tables
             PROVE  /\ [tableName |-> t, accessLevel |-> getUserTablePermissions(u, c, t)]
                         \in getUserPermissionsForAvailableTables(u, c)
                           <=> getUserTablePermissions(u, c, t).visibility
                    /\ (checkTableAdd(u, c, t) \/ checkTableDelete(u, c, t) \/ checkTableEdit(u, c, t))
                         => checkTableRead(u, c, t)
  BY DEF ListingAgreesWithChecks
<1> DEFINE entry(x) == [tableName |-> x, accessLevel |-> ListedFlags(u, c, x)]
<1>1. ListedFlags(u, c, t) = getUserTablePermissions(u, c, t)
  BY ListedFlagsAreTheChecked
<1>2. \A x : entry(x) = entry(t) => x = t
  OBVIOUS
<1>3. entry(t) \in getUserPermissionsForAvailableTables(u, c) <=> ListedFlags(u, c, t).visibility
  <2>1. getUserPermissionsForAvailableTables(u, c) =
          {entry(x) : x \in {y \in Tables : ListedFlags(u, c, y).visibility}}
    BY ListingIsByTable
  <2> HIDE DEF entry
  <2>2. QED
    BY <1>2, <2>1
<1>4. (checkTableAdd(u, c, t) \/ checkTableDelete(u, c, t) \/ checkTableEdit(u, c, t))
        => checkTableRead(u, c, t)
  BY DEF checkTableAdd, checkTableDelete, checkTableEdit, checkTableRead
<1>5. QED
  BY <1>1, <1>3, <1>4

(***************************************************************************)
(* The listing of tables and the checks of single tables agree, whatever   *)
(* the rows and the links are.                                             *)
(***************************************************************************)
THEOREM ListingAlwaysAgrees == Spec => []ListingAgreesWithChecks
<1>1. QED
  BY ListingAgrees, PTL
-----------------------------------------------------------------------------
(***************************************************************************)
(* Sets of permission rows, by what they grant.  No two rows of a set are  *)
(* alike when it has one row for the connection and one for the group at   *)
(* most, and each right on a table once.                                   *)
(***************************************************************************)
RowsOf(rows, S, type)  == {p \in S : rows[p].type = type}
LevelsIn(rows, S, type) == {rows[p].accessLevel : p \in RowsOf(rows, S, type)}
Rights(rows, S) == {<<rows[p].tableName, rows[p].accessLevel>> : p \in RowsOf(rows, S, "Table")}

Alike(row, other) == row.type = other.type /\ (row.type = "Table" => row = other)
NoneAlike(rows, S) == \A p, q \in S : Alike(rows[p], rows[q]) => p = q

(***************************************************************************)
(* What a request knows that never met another one on its group.  Between  *)
(* two saves its snapshot is what the group is linked to, and the answer   *)
(* it prepares lists the rights of the snapshot; what it has found still   *)
(* waits to be changed, and what it has changed is as the body asks.       *)
(***************************************************************************)
Knows(r) ==
  LET links  == PermissionsIn(target[r])
      rights == Rights(permission, mem[r])
      asked(value) == Listed(want[r], value)
  IN  /\ links \subseteq mem[r]
      /\ pc[r] = "change" /\ part[r] # "grant" => mem[r] = links
      /\ pc[r] = "write" => loaded[r] = links
      /\ NoneAlike(permission, mem[r])
      /\ reply[r] = rights
      /\ IF part[r] = "connection" /\ pc[r] = "change"
         THEN current[r].connection = RowsOf(permission, mem[r], "Connection")
         ELSE LevelsIn(permission, mem[r], "Connection") = {want[r].connection}
      /\ IF part[r] = "connection" \/ (part[r] = "group" /\ pc[r] = "change")
         THEN current[r].group = RowsOf(permission, mem[r], "Group")
         ELSE LevelsIn(permission, mem[r], "Group") = {want[r].group}
      /\ part[r] = "revoke" => todo[r] = asked(FALSE) \intersect rights
      /\ part[r] = "grant" => /\ todo[r] = asked(TRUE) \ rights
                              /\ asked(FALSE) \intersect rights = {}
      /\ part[r] \in {"revoke", "grant"} /\ pc[r] # "change" => todo[r] = {}

Changing == {"change", "load", "write"}

\* Every request begins with the part on the connection.
AtStart == \A r \in Requests :
              pc[r] \in Ended \union {"findGroup", "findCurrent"} => part[r] = "connection"

Facts(r) == /\ pc[r] = "findCurrent" => mem[r] = PermissionsIn(target[r])
            /\ pc[r] \in Changing => Knows(r)

NoneAlikeIn(g) == g \notin MainGroups => NoneAlike(permission, PermissionsIn(g))

Quiet(g) ==
  /\ \A q, r \in Requests : Active(q) /\ Active(r) /\ target[q] = g /\ target[r] = g => q = r
  /\ NoneAlikeIn(g)
  /\ \A r \in Requests : target[r] = g => Facts(r)

EffectInv == IInv /\ AtStart /\ \A g \in Groups \ crowded : Quiet(g)

Typed(rows, S) == rows \in [PermissionIds -> PermissionRow \union {NoRow}]
                    /\ S \subseteq PermissionIds /\ \A p \in S : rows[p] # NoRow

\* Rows that did not change grant the same.
LEMMA SameRows ==
  ASSUME NEW rows, NEW before, NEW S, \A p \in S : rows[p] = before[p]
  PROVE  /\ \A type : RowsOf(rows, S, type) = RowsOf(before, S, type)
         /\ \A type : LevelsIn(rows, S, type) = LevelsIn(before, S, type)
         /\ Rights(rows, S) = Rights(before, S)
         /\ NoneAlike(rows, S) <=> NoneAlike(before, S)
<1>1. \A type : RowsOf(rows, S, type) = RowsOf(before, S, type)
  BY DEF RowsOf
<1>2. \A type : \A p \in RowsOf(before, S, type) : rows[p] = before[p]
  BY DEF RowsOf
<1>3. \A type : LevelsIn(rows, S, type) = LevelsIn(before, S, type)
  BY <1>1, <1>2 DEF LevelsIn
<1>4. Rights(rows, S) = Rights(before, S)
  BY <1>1, <1>2 DEF Rights
<1>5. NoneAlike(rows, S) <=> NoneAlike(before, S)
  BY DEF NoneAlike
<1> QED BY <1>1, <1>3, <1>4, <1>5

\* The rows that carry a key are those of tables that grant it.
LEMMA CarriersGrant ==
  ASSUME NEW S, Typed(permission, S), NEW key \in Tables \X TableKeys
  PROVE  /\ Carriers(S, key) # {} <=> key \in Rights(permission, S)
         /\ \A p \in Carriers(S, key) :
              permission[p] = [type |-> "Table", accessLevel |-> key[2], tableName |-> key[1]]
<1>1. \A p \in S : permission[p] \in PermissionRow
  BY DEF Typed
<1>2. ASSUME NEW p \in Carriers(S, key)
      PROVE  permission[p] = [type |-> "Table", accessLevel |-> key[2], tableName |-> key[1]]
  <2>1. /\ permission[p] \in PermissionRow /\ permission[p].tableName = key[1]
        /\ permission[p].accessLevel = key[2] /\ key[1] \in Tables
    BY <1>1 DEF Carriers
  <2>2. permission[p] \in [type : {"Table"}, accessLevel : TableKeys, tableName : Tables]
    BY <2>1, GroupsAssumption DEF PermissionRow
  <2> QED BY <2>1, <2>2
<1>3. key = <<key[1], key[2]>>
  OBVIOUS
<1>4. Carriers(S, key) # {} => key \in Rights(permission, S)
  BY <1>2, <1>3 DEF Rights, RowsOf, Carriers
<1>5. key \in Rights(permission, S) => Carriers(S, key) # {}
  BY DEF Rights, RowsOf, Carriers
<1> QED BY <1>2, <1>4, <1>5

LEMMA RightsAreKeys ==
  ASSUME NEW rows, NEW S, Typed(rows, S)
  PROVE  Rights(rows, S) \subseteq Tables \X TableKeys
<1> SUFFICES ASSUME NEW p \in S, rows[p].type = "Table"
             PROVE  <<rows[p].tableName, rows[p].accessLevel>> \in Tables \X TableKeys
  BY DEF Rights, RowsOf
<1>1. rows[p] \in PermissionRow
  BY DEF Typed
<1> QED BY <1>1 DEF PermissionRow

\* What it means for a level to be set, in rows that become a set T.
SetsLevel(rows, S, after, T, type, level) ==
  /\ NoneAlike(after, T)
  /\ Rights(after, T) = Rights(rows, S)
  /\ LevelsIn(after, T, type) = {level}
  /\ \A other \in {"Connection", "Group"} \ {type} :
       /\ RowsOf(after, T, other) = RowsOf(rows, S, other)
       /\ LevelsIn(after, T, other) = LevelsIn(rows, S, other)

\* The only row of its type gets a level, whether it was there or not.
LEMMA LevelIsSet ==
  ASSUME NEW rows, NEW S, Typed(rows, S), NoneAlike(rows, S), NEW p \in PermissionIds,
         NEW type \in {"Connection", "Group"}, NEW level,
         RowsOf(rows, S, type) = S \intersect {p}, NEW after,
         after[p].type = type /\ after[p].accessLevel = level,
         \A q \in S \ {p} : after[q] = rows[q]
  PROVE  SetsLevel(rows, S, after, S \union {p}, type, level)
<1> DEFINE T == S \union {p}
<1>1. /\ after[p].type = type /\ after[p].accessLevel = level
      /\ \A q \in S \ {p} : after[q] = rows[q]
  OBVIOUS
<1>2. \A q \in S : rows[q].type = type <=> q = p
  BY DEF RowsOf
<1>3. type # "Table"
  OBVIOUS
<1>4. ASSUME NEW other, other # type
      PROVE  /\ RowsOf(after, T, other) = RowsOf(rows, S, other)
             /\ \A q \in RowsOf(rows, S, other) : after[q] = rows[q]
  BY <1>1, <1>2, <1>4 DEF RowsOf
<1>5. Rights(after, T) = Rights(rows, S)
  <2>1. /\ RowsOf(after, T, "Table") = RowsOf(rows, S, "Table")
        /\ \A q \in RowsOf(rows, S, "Table") : after[q] = rows[q]
    BY <1>3, <1>4
  <2> QED BY <2>1 DEF Rights
<1>6. \A other \in {"Connection", "Group"} \ {type} :
        LevelsIn(after, T, other) = LevelsIn(rows, S, other)
  BY <1>4 DEF LevelsIn
<1>7. RowsOf(after, T, type) = {p}
  BY <1>1, <1>2 DEF RowsOf
<1>8. LevelsIn(after, T, type) = {level}
  BY <1>1, <1>7 DEF LevelsIn
<1>9. NoneAlike(after, T)
  <2> SUFFICES ASSUME NEW q \in T, NEW o \in T, Alike(after[q], after[o]) PROVE q = o
    BY DEF NoneAlike
  <2>1. CASE q \in S \ {p} /\ o \in S \ {p}
    BY <1>1, <2>1 DEF NoneAlike
  <2>2. CASE q = p \/ o = p
    <3>1. after[q].type = type /\ after[o].type = type
      BY <1>1, <2>2 DEF Alike
    <3> QED BY <1>7, <3>1 DEF RowsOf
  <2> QED BY <2>1, <2>2
<1> QED BY <1>4, <1>5, <1>6, <1>8, <1>9 DEF SetsLevel

\* A right on a table is taken away, or added.
LEMMA RightIsRevoked ==
  ASSUME NEW rows, NEW S, Typed(rows, S), NoneAlike(rows, S), NEW p \in S,
         NEW key \in Tables \X TableKeys,
         rows[p] = [type |-> "Table", accessLevel |-> key[2], tableName |-> key[1]]
  PROVE  /\ NoneAlike(rows, S \ {p}) /\ Rights(rows, S \ {p}) = Rights(rows, S) \ {key}
         /\ \A type \in {"Connection", "Group"} :
              LevelsIn(rows, S \ {p}, type) = LevelsIn(rows, S, type)
<1>1. NoneAlike(rows, S \ {p})
  BY DEF NoneAlike
<1>2. \A type \in {"Connection", "Group"} : RowsOf(rows, S \ {p}, type) = RowsOf(rows, S, type)
  BY DEF RowsOf
<1>3. \A type \in {"Connection", "Group"} :
        LevelsIn(rows, S \ {p}, type) = LevelsIn(rows, S, type)
  BY <1>2 DEF LevelsIn
<1>4. RowsOf(rows, S, "Table") = RowsOf(rows, S \ {p}, "Table") \union {p}
  BY DEF RowsOf
<1>5. <<rows[p].tableName, rows[p].accessLevel>> = key
  OBVIOUS
<1>6. ASSUME NEW q \in RowsOf(rows, S \ {p}, "Table"),
             <<rows[q].tableName, rows[q].accessLevel>> = key
      PROVE  FALSE
  <2>1. rows[q] \in PermissionRow /\ rows[q].type = "Table" /\ q \in S /\ q # p
    BY DEF RowsOf, Typed
  <2>2. rows[q] \in [type : {"Table"}, accessLevel : TableKeys, tableName : Tables]
    BY <2>1 DEF PermissionRow
  <2>3. rows[q].tableName = key[1] /\ rows[q].accessLevel = key[2]
    BY <1>6
  <2>4. rows[q] = rows[p]
    BY <2>2, <2>3
  <2> QED BY <2>1, <2>4 DEF NoneAlike, Alike
<1>7. Rights(rows, S \ {p}) = Rights(rows, S) \ {key}
  BY <1>4, <1>5, <1>6 DEF Rights
<1> QED BY <1>1, <1>3, <1>7

LEMMA RightIsGranted ==
  ASSUME NEW rows, NEW S, Typed(rows, S), NoneAlike(rows, S), NEW p \in PermissionIds \ S,
         NEW key \in Tables \X TableKeys, key \notin Rights(rows, S), NEW after,
         after[p] = [type |-> "Table", accessLevel |-> key[2], tableName |-> key[1]],
         \A q \in S : after[q] = rows[q]
  PROVE  /\ NoneAlike(after, S \union {p})
         /\ Rights(after, S \union {p}) = Rights(rows, S) \union {key}
         /\ \A type \in {"Connection", "Group"} :
              LevelsIn(after, S \union {p}, type) = LevelsIn(rows, S, type)
<1> DEFINE T == S \union {p}
<1>1. /\ after[p] = [type |-> "Table", accessLevel |-> key[2], tableName |-> key[1]]
      /\ \A q \in S : after[q] = rows[q]
  OBVIOUS
<1>2. after[p].type = "Table" /\ <<after[p].tableName, after[p].accessLevel>> = key
  BY <1>1
<1>3. \A type \in {"Connection", "Group"} :
        /\ RowsOf(after, T, type) = RowsOf(rows, S, type)
        /\ \A q \in RowsOf(rows, S, type) : after[q] = rows[q]
  BY <1>1, <1>2 DEF RowsOf
<1>4. \A type \in {"Connection", "Group"} : LevelsIn(after, T, type) = LevelsIn(rows, S, type)
  BY <1>3 DEF LevelsIn
<1>5. /\ RowsOf(after, T, "Table") = RowsOf(rows, S, "Table") \union {p}
      /\ \A q \in RowsOf(rows, S, "Table") : after[q] = rows[q]
  BY <1>1, <1>2 DEF RowsOf
<1>6. Rights(after, T) = Rights(rows, S) \union {key}
  <2> DEFINE right(row) == <<row.tableName, row.accessLevel>>
             R == RowsOf(rows, S, "Table")
  <2>1. /\ Rights(after, T) = {right(after[q]) : q \in R \union {p}}
        /\ Rights(rows, S) = {right(rows[q]) : q \in R}
    BY <1>5 DEF Rights
  <2>2. right(after[p]) = key /\ \A q \in R : right(after[q]) = right(rows[q])
    BY <1>2, <1>5
  <2> HIDE DEF right, R
  <2>3. ASSUME NEW k
        PROVE  k \in Rights(after, T) <=> k \in Rights(rows, S) \union {key}
    BY <2>1, <2>2
  <2> QED BY <2>3
<1>7. ASSUME NEW q \in S
      PROVE  ~Alike(after[q], after[p]) /\ ~Alike(after[p], after[q])
  <2> SUFFICES ASSUME rows[q] = after[p] PROVE FALSE
    BY <1>1, <1>2 DEF Alike
  <2>1. q \in RowsOf(rows, S, "Table") /\ <<rows[q].tableName, rows[q].accessLevel>> = key
    BY <1>2 DEF RowsOf
  <2> QED BY <2>1 DEF Rights
<1>8. NoneAlike(after, T)
  BY <1>1, <1>7 DEF NoneAlike
<1> QED BY <1>4, <1>6, <1>8

-----------------------------------------------------------------------------
\* Rows that a request holds, or that are linked, were created.
LEMMA ClaimedIsTyped ==
  ASSUME IInv, NEW g \in Groups
  PROVE  /\ Typed(permission, PermissionsIn(g))
         /\ \A r \in Requests : target[r] = g => Typed(permission, mem[r])
<1>1. permission \in [PermissionIds -> PermissionRow \union {NoRow}]
  BY DEF IInv, TypeOK, AccessTypeOK
<1>2. ASSUME NEW p \in PermissionIds, Claims(g, p)
      PROVE  permission[p] # NoRow
  BY <1>2 DEF IInv, FreshUnclaimed
<1>3. Typed(permission, PermissionsIn(g))
  BY <1>1, <1>2 DEF Typed, PermissionsIn, Claims
<1>4. ASSUME NEW r \in Requests, target[r] = g
      PROVE  Typed(permission, mem[r])
  <2>1. mem[r] \subseteq PermissionIds
    BY DEF IInv, TypeOK
  <2>2. \A p \in mem[r] : Claims(g, p)
    BY <1>4 DEF Claims, Held
  <2> QED BY <1>1, <1>2, <2>1, <2>2 DEF Typed
<1> QED BY <1>3, <1>4

LEMMA KeysAreRights ==
  ASSUME IInv, NEW r \in Requests
  PROVE  /\ KeysToRevoke(r) = Listed(want[r], FALSE) \intersect Rights(permission, mem[r])
         /\ KeysToGrant(r) = Listed(want[r], TRUE) \ Rights(permission, mem[r])
<1>1. Typed(permission, mem[r])
  BY ClaimedIsTyped DEF IInv, TypeOK
<1>2. \A value : Listed(want[r], value) \subseteq Tables \X TableKeys
  <2>1. want[r] \in Want
    BY PermissionsAssumption DEF IInv, TypeOK
  <2>2. DOMAIN want[r].tables \subseteq Tables
    BY <2>1 DEF Want
  <2> QED BY <2>2 DEF Listed
<1>3. \A key \in Tables \X TableKeys :
        Carriers(mem[r], key) # {} <=> key \in Rights(permission, mem[r])
  BY <1>1, CarriersGrant
<1> QED BY <1>2, <1>3 DEF KeysToRevoke, KeysToGrant

(***************************************************************************)
(* A group that no request of a step is on keeps its links and the rows    *)
(* it claims, and so what is known of it.                                  *)
(***************************************************************************)
Leaves(g) == /\ PermissionsIn(g)' = PermissionsIn(g)
             /\ \A p \in PermissionIds : Claims(g, p) => permission'[p] = permission[p]

OthersKeep(r) ==
  \A q \in Requests \ {r} :
     /\ pc'[q] = pc[q] /\ part'[q] = part[q] /\ target'[q] = target[q] /\ want'[q] = want[q]
     /\ mem'[q] = mem[q] /\ current'[q] = current[q] /\ loaded'[q] = loaded[q]
     /\ todo'[q] = todo[q] /\ reply'[q] = reply[q]

LEMMA OwnWritesLeaveOthers ==
  ASSUME IInv, NEW r \in Requests, WritesOwnRows(r), AddsOwnLinks(r),
         NEW g \in Groups, g # target[r]
  PROVE  Leaves(g)
<1>1. target[r] \in Groups /\ Held(r) \subseteq PermissionIds
  BY DEF IInv, TypeOK, Held
<1>2. ASSUME NEW p \in PermissionIds, Claims(g, p)
      PROVE  p \notin Held(r) /\ permission[p] # NoRow
  <2>1. p \in Held(r) => Claims(target[r], p)
    BY DEF Claims
  <2> QED BY <1>1, <1>2, <2>1 DEF IInv, OneClaimant, FreshUnclaimed
<1>3. \A p \in PermissionIds : Claims(g, p) => permission'[p] = permission[p]
  BY <1>2 DEF WritesOwnRows
<1>4. PermissionsIn(g)' \subseteq PermissionsIn(g)
  BY DEF PermissionsIn, AddsOwnLinks
<1>5. ASSUME NEW p \in PermissionsIn(g) PROVE p \in PermissionsIn(g)'
  <2>1. p \in PermissionIds /\ <<p, g>> \in permissionGroups /\ p \notin Held(r)
    BY <1>2 DEF PermissionsIn, Claims
  <2> QED BY <2>1 DEF WritesOwnRows, PermissionsIn
<1> QED BY <1>3, <1>4, <1>5 DEF Leaves

LEMMA FactsStay ==
  ASSUME IInv, NEW g \in Groups, Leaves(g), NEW q \in Requests, target[q] = g, Facts(q),
         pc'[q] = pc[q], part'[q] = part[q], target'[q] = target[q], want'[q] = want[q],
         mem'[q] = mem[q], current'[q] = current[q], loaded'[q] = loaded[q],
         todo'[q] = todo[q], reply'[q] = reply[q]
  PROVE  Facts(q)'
<1>1. PermissionsIn(target[q])' = PermissionsIn(target[q])
  BY DEF Leaves, PermissionsIn
<1>2. \A p \in mem[q] : permission'[p] = permission[p]
  <2>1. mem[q] \subseteq PermissionIds
    BY DEF IInv, TypeOK
  <2>2. \A p \in mem[q] : Claims(g, p)
    BY DEF Claims, Held
  <2> QED BY <2>1, <2>2 DEF Leaves
<1>3. /\ \A type : RowsOf(permission', mem[q], type) = RowsOf(permission, mem[q], type)
      /\ \A type : LevelsIn(permission', mem[q], type) = LevelsIn(permission, mem[q], type)
      /\ Rights(permission', mem[q]) = Rights(permission, mem[q])
      /\ NoneAlike(permission', mem[q]) <=> NoneAlike(permission, mem[q])
  BY <1>2, SameRows
<1>4. ASSUME Knows(q) PROVE Knows(q)'
  BY <1>1, <1>3, <1>4 DEF Knows
<1> QED BY <1>1, <1>4 DEF Facts

LEMMA QuietStays ==
  ASSUME IInv, NEW r \in Requests, OthersKeep(r), NEW g \in Groups, Quiet(g), Leaves(g),
         target[r] # g, target'[r] # g
  PROVE  Quiet(g)'
<1>1. \A q \in Requests : target'[q] = g => q # r /\ target[q] = g
  BY DEF OthersKeep
<1>2. \A q \in Requests : target'[q] = g => (Active(q)' <=> Active(q))
  BY <1>1 DEF OthersKeep, Active
<1>3. \A p, q \in Requests :
        Active(p)' /\ Active(q)' /\ target'[p] = g /\ target'[q] = g => p = q
  BY <1>1, <1>2 DEF Quiet
<1>4. NoneAlikeIn(g)'
  <2>1. \A p \in PermissionsIn(g) : permission'[p] = permission[p]
    BY DEF Leaves, Claims, PermissionsIn
  <2>2. NoneAlike(permission', PermissionsIn(g)) <=> NoneAlike(permission, PermissionsIn(g))
    BY <2>1, SameRows
  <2> QED BY <2>2 DEF NoneAlikeIn, Leaves, Quiet
<1>5. ASSUME NEW q \in Requests, target'[q] = g
      PROVE  Facts(q)'
  BY <1>1, <1>5, FactsStay DEF OthersKeep, Quiet
<1> QED BY <1>3, <1>4, <1>5 DEF Quiet

\* What a step of a request has to establish for its own group.
LEMMA QuietGoesOn ==
  ASSUME NEW r \in Requests, Active(r), OthersKeep(r), NEW g \in Groups, Quiet(g),
         target[r] = g, target'[r] = g, Facts(r)', NoneAlikeIn(g)'
  PROVE  Quiet(g)'
<1>1. \A q \in Requests \ {r} : target'[q] = g => target[q] = g /\ ~Active(q) /\ ~Active(q)'
  BY DEF OthersKeep, Active, Quiet
<1>2. ASSUME NEW q \in Requests \ {r}, target'[q] = g
      PROVE  Facts(q)'
  <2>1. target[q] = g /\ pc[q] \notin Calls /\ Facts(q)
    BY <1>1, <1>2 DEF Active, Quiet
  <2>2. pc'[q] = pc[q] /\ part'[q] = part[q]
    BY DEF OthersKeep
  <2> QED BY <2>1, <2>2 DEF Facts, Calls, Changing
<1>3. ASSUME NEW p \in Requests, NEW q \in Requests, Active(p)', Active(q)',
             target'[p] = g, target'[q] = g
      PROVE  p = q
  BY <1>1, <1>3
<1> QED BY <1>2, <1>3 DEF Quiet

-----------------------------------------------------------------------------
(***************************************************************************)
(* The steps.  First what each of them touches.                            *)
(***************************************************************************)
Touches(r) == /\ Active(r) /\ OthersKeep(r) /\ WritesOwnRows(r) /\ AddsOwnLinks(r)
              /\ UNCHANGED <<target, want, crowded>>

LEMMA EndKeepsOthers ==
  ASSUME TypeOK, NEW r \in Requests, NEW how \in Ended, End(r, how),
         UNCHANGED <<target, want, reply>>
  PROVE  /\ OthersKeep(r) /\ pc'[r] = how /\ part'[r] = "connection"
BY DEF TypeOK, End, Goto, OthersKeep

LEMMA VisitKeepsOthers ==
  ASSUME TypeOK, NEW r \in Requests, NEW keys, Visit(r, keys)
  PROVE  /\ \A q \in Requests \ {r} : pc'[q] = pc[q] /\ todo'[q] = todo[q]
         /\ todo'[r] = keys /\ pc'[r] = IF keys = {} THEN "load" ELSE "change"
BY DEF TypeOK, Visit, Goto

LEMMA FindTouches ==
  ASSUME IInv, NEW r \in Requests, FindGroup(r) \/ FindCurrent(r) \/ LoadLinks(r) \/ Fail(r)
  PROVE  Touches(r)
<1>1. /\ UNCHANGED <<permission, permissionGroups, target, want, crowded>>
      /\ pc[r] \in Calls
  BY DEF FindGroup, FindCurrent, LoadLinks, Fail, accessVars, counters, Active, Calls
<1>2. WritesOwnRows(r) /\ AddsOwnLinks(r)
  BY <1>1 DEF WritesOwnRows, AddsOwnLinks
<1>3. ASSUME NEW how \in Ended, End(r, how), UNCHANGED <<target, want, reply>>
      PROVE  OthersKeep(r)
  BY <1>3, EndKeepsOthers DEF IInv
<1>4. ASSUME FindGroup(r) PROVE OthersKeep(r)
  <2>1. CASE End(r, "idle")
    BY <1>3, <1>4, <2>1 DEF FindGroup, Ended
  <2>2. CASE ~End(r, "idle")
    BY <1>4, <2>2 DEF FindGroup, Goto, IInv, TypeOK, OthersKeep
  <2> QED BY <2>1, <2>2
<1>5. ASSUME FindCurrent(r) PROVE OthersKeep(r)
  BY <1>5 DEF FindCurrent, Goto, IInv, TypeOK, OthersKeep
<1>6. ASSUME LoadLinks(r) PROVE OthersKeep(r)
  BY <1>6 DEF LoadLinks, Goto, IInv, TypeOK, OthersKeep
<1>7. ASSUME Fail(r) PROVE OthersKeep(r)
  BY <1>3, <1>7 DEF Fail, Ended
<1> QED BY <1>1, <1>2, <1>4, <1>5, <1>6, <1>7 DEF Touches, Active

LEMMA ChangeLevelTouches ==
  ASSUME IInv, NEW r \in Requests, NEW type \in {"Connection", "Group"}, NEW level \in Levels,
         NEW found \in SUBSET Held(r), ChangeLevel(r, type, level, found)
  PROVE  Touches(r)
<1> DEFINE row == [type |-> type, accessLevel |-> level, tableName |-> NoTable]
<1>1. /\ pc[r] \in Calls /\ UNCHANGED <<target, want, crowded, part, current, loaded, todo, reply>>
      /\ Goto(r, "load")
  BY DEF ChangeLevel, counters, Calls
<1>2. ASSUME NEW p \in found, permission' = [permission EXCEPT ![p] = row],
             permissionGroups' = {link \in permissionGroups : link[1] # p}
                                   \union {<<p, target[r]>>},
             UNCHANGED mem
      PROVE  WritesOwnRows(r) /\ AddsOwnLinks(r) /\ OthersKeep(r)
  <2>1. p \in Held(r)
    OBVIOUS
  <2>2. WritesOwnRows(r)
    BY <1>2, <2>1 DEF WritesOwnRows, IInv, TypeOK, AccessTypeOK
  <2>3. AddsOwnLinks(r)
    BY <1>2, <2>1 DEF AddsOwnLinks
  <2>4. OthersKeep(r)
    BY <1>1, <1>2 DEF Goto, IInv, TypeOK, OthersKeep
  <2> QED BY <2>2, <2>3, <2>4
<1>3. ASSUME CanCreate, Insert(row), mem' = [mem EXCEPT ![r] = @ \union {Fresh}],
             UNCHANGED permissionGroups
      PROVE  WritesOwnRows(r) /\ AddsOwnLinks(r) /\ OthersKeep(r)
  <2>1. WritesOwnRows(r) /\ AddsOwnLinks(r)
    BY <1>3, FreshIsUnused DEF WritesOwnRows, AddsOwnLinks, Insert, IInv, TypeOK, AccessTypeOK
  <2>2. OthersKeep(r)
    BY <1>1, <1>3 DEF Goto, IInv, TypeOK, OthersKeep
  <2> QED BY <2>1, <2>2
<1> QED BY <1>1, <1>2, <1>3 DEF ChangeLevel, Touches, Active

LEMMA WriteTouches ==
  ASSUME IInv, NEW r \in Requests, WriteLinks(r)
  PROVE  Touches(r)
<1>1. /\ pc[r] = "write" /\ UNCHANGED <<permission, target, want, crowded, reply>>
  BY DEF WriteLinks, counters
<1>2. target[r] \notin MainGroups
  BY <1>1 DEF IInv, NotMainAfterRead, Calls
<1>3. WritesOwnRows(r)
  BY <1>1, <1>2 DEF WritesOwnRows, WriteLinks
<1>4. AddsOwnLinks(r)
  BY DEF AddsOwnLinks, WriteLinks, Held
<1>5. ASSUME NEW how \in Ended, End(r, how) PROVE OthersKeep(r)
  BY <1>1, <1>5, EndKeepsOthers DEF IInv
<1>6. ASSUME NextPart(r), UNCHANGED <<mem, current, loaded>> PROVE OthersKeep(r)
  <2>1. \A q \in Requests \ {r} : pc'[q] = pc[q] /\ todo'[q] = todo[q] /\ part'[q] = part[q]
    <3>1. CASE part[r] = "connection"
      BY <1>6, <3>1 DEF NextPart, Goto, IInv, TypeOK
    <3>2. CASE part[r] = "group"
      BY <1>6, <3>2, VisitKeepsOthers DEF NextPart, IInv, TypeOK
    <3>3. CASE part[r] = "revoke"
      BY <1>6, <3>3, VisitKeepsOthers DEF NextPart, IInv, TypeOK
    <3> QED BY <1>6, <3>1, <3>2, <3>3 DEF NextPart
  <2> QED BY <1>1, <1>6, <2>1 DEF OthersKeep
<1>7. \/ \E how \in Ended : End(r, how)
      \/ NextPart(r) /\ UNCHANGED <<mem, current, loaded>>
  BY DEF WriteLinks, Ended
<1>8. OthersKeep(r)
  BY <1>5, <1>6, <1>7
<1> QED BY <1>1, <1>3, <1>4, <1>8 DEF Touches, Active, Calls

LEMMA KeyTouches ==
  ASSUME IInv, NEW r \in Requests, NEW key \in Tables \X TableKeys, Revoke(r, key) \/ Grant(r, key)
  PROVE  Touches(r)
<1>1. /\ pc[r] \in Calls /\ UNCHANGED <<target, want, crowded, part, current, loaded>>
      /\ Visit(r, todo[r] \ {key})
  BY DEF Revoke, Grant, counters, Calls
<1>2. \A q \in Requests \ {r} : mem'[q] = mem[q] /\ reply'[q] = reply[q]
  BY DEF Revoke, Grant, IInv, TypeOK
<1>3. OthersKeep(r)
  BY <1>1, <1>2, VisitKeepsOthers DEF OthersKeep, IInv
<1>4. ASSUME Revoke(r, key) PROVE WritesOwnRows(r) /\ AddsOwnLinks(r)
  BY <1>4 DEF Revoke, Carriers, Held, WritesOwnRows, AddsOwnLinks
<1>5. ASSUME Grant(r, key) PROVE WritesOwnRows(r) /\ AddsOwnLinks(r)
  BY <1>5, FreshIsUnused DEF Grant, Insert, WritesOwnRows, AddsOwnLinks, IInv, TypeOK, AccessTypeOK
<1> QED BY <1>1, <1>3, <1>4, <1>5 DEF Touches, Active

LEMMA StepTouches ==
  ASSUME IInv, NEW r \in Requests, Step(r) \/ Fail(r)
  PROVE  Touches(r)
<1>1. /\ current[r].connection \in SUBSET Held(r) /\ current[r].group \in SUBSET Held(r)
      /\ want[r].connection \in Levels /\ want[r].group \in Levels
  BY WantsAreBodies DEF IInv, TypeOK, Held
<1>2. ASSUME ChangeConnectionLevel(r) PROVE Touches(r)
  BY <1>1, <1>2, ChangeLevelTouches DEF ChangeConnectionLevel
<1>3. ASSUME ChangeGroupLevel(r) PROVE Touches(r)
  BY <1>1, <1>3, ChangeLevelTouches DEF ChangeGroupLevel
<1> QED BY <1>2, <1>3, FindTouches, WriteTouches, KeyTouches DEF Step

-----------------------------------------------------------------------------
(***************************************************************************)
(* Then what each establishes for its own group, which no other request    *)
(* is on.                                                                  *)
(***************************************************************************)
Settles(r) == Facts(r)' /\ NoneAlikeIn(target[r])'

\* A group keeps its rows when its links do not change, nor the rows.
LEMMA SameLinksSettle ==
  ASSUME EffectInv, NEW r \in Requests, Touches(r), target[r] \notin crowded,
         UNCHANGED <<permission, permissionGroups>>
  PROVE  NoneAlikeIn(target[r])' /\ PermissionsIn(target[r])' = PermissionsIn(target[r])
<1>1. NoneAlikeIn(target[r])
  BY DEF EffectInv, Quiet, IInv, TypeOK
<1>2. target' = target
  BY DEF Touches
<1> QED BY <1>1, <1>2 DEF NoneAlikeIn, PermissionsIn

LEMMA FindGroupSettles ==
  ASSUME EffectInv, NEW r \in Requests, FindGroup(r), target[r] \notin crowded
  PROVE  Settles(r)
<1>1. Touches(r) /\ UNCHANGED <<permission, permissionGroups, target>>
  BY FindTouches DEF EffectInv, FindGroup, accessVars
<1>2. NoneAlikeIn(target[r])' /\ PermissionsIn(target[r])' = PermissionsIn(target[r])
  BY <1>1, SameLinksSettle
<1>3. CASE End(r, "idle")
  <2>1. pc'[r] = "idle" /\ part'[r] = "connection"
    BY <1>3 DEF End, Goto, EffectInv, IInv, TypeOK
  <2> QED BY <1>2, <2>1 DEF Settles, Facts, Changing
<1>4. CASE ~End(r, "idle")
  <2>1. /\ pc'[r] = "findCurrent" /\ mem'[r] = PermissionsIn(target[r]) /\ part'[r] = part[r]
        /\ pc[r] = "findGroup"
    BY <1>4 DEF FindGroup, Goto, EffectInv, IInv, TypeOK
  <2> QED BY <1>1, <1>2, <2>1 DEF Settles, Facts, Changing
<1> QED BY <1>3, <1>4

\* The row of a type that a query finds is the only one.
LEMMA AnyOfIsAll ==
  ASSUME NEW g \in Groups, NoneAlike(permission, PermissionsIn(g)),
         NEW type \in {"Connection", "Group"}, NEW c \in AnyOf(type, g)
  PROVE  c = RowsOf(permission, PermissionsIn(g), type)
<1> DEFINE rows == RowsOf(permission, PermissionsIn(g), type)
<1>1. \A p, q \in rows : p = q
  BY DEF RowsOf, NoneAlike, Alike
<1>2. AnyOf(type, g) = IF rows = {} THEN {{}} ELSE {{p} : p \in rows}
  BY DEF AnyOf, RowsOf
<1> HIDE DEF rows
<1>3. CASE rows = {}
  BY <1>2, <1>3 DEF rows
<1>4. CASE rows # {}
  <2>1. PICK p \in rows : c = {p}
    BY <1>2, <1>4
  <2> QED BY <1>1, <2>1 DEF rows
<1> QED BY <1>3, <1>4

LEMMA FindCurrentSettles ==
  ASSUME EffectInv, NEW r \in Requests, FindCurrent(r), target[r] \notin crowded
  PROVE  Settles(r)
<1>1. /\ Touches(r) /\ UNCHANGED <<permission, permissionGroups, target, want, mem, part>>
      /\ pc[r] = "findCurrent"
  BY FindTouches DEF EffectInv, FindCurrent, accessVars
<1>2. NoneAlikeIn(target[r])' /\ PermissionsIn(target[r])' = PermissionsIn(target[r])
  BY <1>1, SameLinksSettle
<1>3. target[r] \in Groups \ crowded /\ target[r] \notin MainGroups
  BY <1>1 DEF EffectInv, IInv, TypeOK, NotMainAfterRead, Calls
<1>4. /\ mem[r] = PermissionsIn(target[r]) /\ part[r] = "connection"
      /\ NoneAlike(permission, mem[r])
  BY <1>1, <1>3 DEF EffectInv, AtStart, Quiet, Facts, NoneAlikeIn
<1>5. PICK c \in AnyOf("Connection", target[r]), g \in AnyOf("Group", target[r]) :
        current' = [current EXCEPT ![r] = [connection |-> c, group |-> g]]
  BY DEF FindCurrent
<1>6. /\ current'[r].connection = RowsOf(permission, mem[r], "Connection")
      /\ current'[r].group = RowsOf(permission, mem[r], "Group")
  <2>1. current'[r] = [connection |-> c, group |-> g]
    BY <1>5 DEF EffectInv, IInv, TypeOK
  <2>2. /\ c = RowsOf(permission, mem[r], "Connection")
        /\ g = RowsOf(permission, mem[r], "Group")
    BY <1>3, <1>4, AnyOfIsAll
  <2> QED BY <2>1, <2>2
<1>7. pc'[r] = "change" /\ reply'[r] = TableGrants(target[r])
  BY DEF FindCurrent, Goto, EffectInv, IInv, TypeOK
<1>8. TableGrants(target[r]) = Rights(permission, mem[r])
  BY <1>4 DEF TableGrants, Rights, RowsOf
<1>9. Knows(r)'
  BY <1>1, <1>2, <1>4, <1>6, <1>7, <1>8 DEF Knows
<1> QED BY <1>1, <1>2, <1>4, <1>7, <1>9 DEF Settles, Facts, Ended

\* A row of the group is set to a level, or a new one is.
LEMMA ChangeLevelSettles ==
  ASSUME EffectInv, NEW r \in Requests, NEW type \in {"Connection", "Group"},
         NEW level \in Levels, NEW found, ChangeLevel(r, type, level, found),
         target[r] \notin crowded, Touches(r), part[r] \in {"connection", "group"},
         found = RowsOf(permission, mem[r], type)
  PROVE  /\ PermissionsIn(target[r])' = PermissionsIn(target[r])
         /\ PermissionsIn(target[r]) \subseteq mem'[r]
         /\ pc'[r] = "load" /\ UNCHANGED <<part, want, target, current, loaded, todo, reply>>
         /\ SetsLevel(permission, mem[r], permission', mem'[r], type, level)
<1> DEFINE row == [type |-> type, accessLevel |-> level, tableName |-> NoTable]
           g == target[r]
<1>1. /\ pc[r] = "change" /\ pc'[r] = "load"
      /\ UNCHANGED <<part, want, target, current, loaded, todo, reply>>
  BY DEF ChangeLevel, Goto, EffectInv, IInv, TypeOK
<1>2. g \in Groups \ crowded
  BY DEF EffectInv, IInv, TypeOK
<1>3. /\ mem[r] = PermissionsIn(g) /\ NoneAlike(permission, mem[r])
      /\ Typed(permission, mem[r])
  <2>1. Knows(r) /\ IInv
    BY <1>1, <1>2 DEF EffectInv, Quiet, Facts, Changing
  <2> QED BY <1>1, <1>2, <2>1, ClaimedIsTyped DEF Knows
<1>4. PICK p \in PermissionIds :
        /\ permission' = [permission EXCEPT ![p] = row]
        /\ mem'[r] = mem[r] \union {p} /\ found = mem[r] \intersect {p}
        /\ PermissionsIn(g)' = PermissionsIn(g)
  <2>1. ASSUME NEW p \in found, permission' = [permission EXCEPT ![p] = row],
               permissionGroups' = {link \in permissionGroups : link[1] # p}
                                     \union {<<p, target[r]>>},
               UNCHANGED mem
        PROVE  /\ p \in PermissionIds /\ mem'[r] = mem[r] \union {p}
               /\ found = mem[r] \intersect {p} /\ PermissionsIn(g)' = PermissionsIn(g)
    <3>1. p \in mem[r] /\ permission[p].type = type
      BY DEF RowsOf
    <3>2. found = mem[r] \intersect {p}
      BY <3>1, <1>3 DEF RowsOf, NoneAlike, Alike
    <3>3. p \in PermissionsIn(g) /\ p \in PermissionIds
      BY <1>3, <3>1 DEF PermissionsIn
    <3>4. PermissionsIn(g)' = PermissionsIn(g)
      BY <1>1, <2>1, <3>3 DEF PermissionsIn
    <3> QED BY <2>1, <3>1, <3>2, <3>3, <3>4
  <2>2. ASSUME found = {}, CanCreate, Insert(row),
               mem' = [mem EXCEPT ![r] = @ \union {Fresh}], UNCHANGED permissionGroups
        PROVE  /\ Fresh \in PermissionIds /\ permission' = [permission EXCEPT ![Fresh] = row]
               /\ mem'[r] = mem[r] \union {Fresh}
               /\ found = mem[r] \intersect {Fresh} /\ PermissionsIn(g)' = PermissionsIn(g)
    <3>1. Fresh \in PermissionIds /\ permission[Fresh] = NoRow
      BY <2>2, FreshIsUnused
    <3>2. Fresh \notin mem[r]
      BY <1>3, <3>1 DEF Typed
    <3>3. mem'[r] = mem[r] \union {Fresh}
      BY <2>2 DEF EffectInv, IInv, TypeOK
    <3>4. PermissionsIn(g)' = PermissionsIn(g)
      BY <1>1, <2>2 DEF PermissionsIn
    <3> QED BY <2>2, <3>1, <3>2, <3>3, <3>4 DEF Insert
  <2> QED BY <2>1, <2>2 DEF ChangeLevel
<1>5. PICK S, rows, after : S = mem[r] /\ rows = permission /\ after = permission'
  OBVIOUS
<1>6. SetsLevel(permission, S, permission', S \union {p}, type, level)
  <2>1. Typed(rows, S) /\ NoneAlike(rows, S) /\ RowsOf(rows, S, type) = S \intersect {p}
    BY <1>3, <1>4, <1>5
  <2>2. /\ after[p].type = type /\ after[p].accessLevel = level
        /\ \A q \in S \ {p} : after[q] = rows[q]
    BY <1>3, <1>4, <1>5 DEF Typed
  <2> HIDE DEF row
  <2>3. SetsLevel(rows, S, after, S \union {p}, type, level)
    BY <2>1, <2>2, LevelIsSet
  <2> QED BY <1>5, <2>3
<1> QED BY <1>1, <1>3, <1>4, <1>5, <1>6

LEMMA ChangesSettle ==
  ASSUME EffectInv, NEW r \in Requests, ChangeConnectionLevel(r) \/ ChangeGroupLevel(r),
         target[r] \notin crowded
  PROVE  Settles(r)
<1>1. Touches(r)
  BY StepTouches DEF EffectInv, Step
<1>2. target[r] \in Groups \ crowded /\ want[r].connection \in Levels /\ want[r].group \in Levels
  BY WantsAreBodies DEF EffectInv, IInv, TypeOK
<1>3. pc[r] = "change" /\ part[r] \in {"connection", "group"}
  BY DEF ChangeConnectionLevel, ChangeGroupLevel, ChangeLevel
<1>4. Knows(r)
  BY <1>2, <1>3 DEF EffectInv, Quiet, Facts, Changing
<1>5. target[r] \notin MainGroups
  BY <1>3 DEF EffectInv, IInv, NotMainAfterRead, Calls
<1>6. /\ PermissionsIn(target[r])' = PermissionsIn(target[r])
      /\ PermissionsIn(target[r]) \subseteq mem'[r]
      /\ pc'[r] = "load" /\ UNCHANGED <<part, want, target, current, loaded, todo, reply>>
      /\ NoneAlike(permission', mem'[r])
      /\ Rights(permission', mem'[r]) = Rights(permission, mem[r])
      /\ LevelsIn(permission', mem'[r], "Connection") = {want[r].connection}
      /\ IF part[r] = "connection"
         THEN RowsOf(permission', mem'[r], "Group") = RowsOf(permission, mem[r], "Group")
         ELSE LevelsIn(permission', mem'[r], "Group") = {want[r].group}
  <2>1. CASE ChangeConnectionLevel(r)
    <3>1. /\ ChangeLevel(r, "Connection", want[r].connection, current[r].connection)
          /\ part[r] = "connection"
      BY <2>1 DEF ChangeConnectionLevel
    <3>2. current[r].connection = RowsOf(permission, mem[r], "Connection")
      BY <1>3, <1>4, <3>1 DEF Knows
    <3> QED BY <1>1, <1>2, <3>1, <3>2, ChangeLevelSettles DEF SetsLevel
  <2>2. CASE ChangeGroupLevel(r)
    <3>1. /\ ChangeLevel(r, "Group", want[r].group, current[r].group) /\ part[r] = "group"
      BY <2>2 DEF ChangeGroupLevel
    <3>2. /\ current[r].group = RowsOf(permission, mem[r], "Group")
          /\ LevelsIn(permission, mem[r], "Connection") = {want[r].connection}
      BY <1>3, <1>4, <3>1 DEF Knows
    <3> QED BY <1>1, <1>2, <3>1, <3>2, ChangeLevelSettles DEF SetsLevel
  <2> QED BY <2>1, <2>2
<1>7. reply[r] = Rights(permission, mem[r])
  BY <1>4 DEF Knows
<1>8. part[r] = "connection" => current[r].group = RowsOf(permission, mem[r], "Group")
  BY <1>4 DEF Knows
<1>9. NoneAlike(permission', PermissionsIn(target[r]))
  BY <1>6 DEF NoneAlike
<1>10. Knows(r)'
  BY <1>3, <1>6, <1>7, <1>8 DEF Knows
<1> QED BY <1>6, <1>9, <1>10 DEF Settles, Facts, NoneAlikeIn, Ended

LEMMA LoadSettles ==
  ASSUME EffectInv, NEW r \in Requests, LoadLinks(r), target[r] \notin crowded
  PROVE  Settles(r)
<1>1. /\ Touches(r) /\ UNCHANGED <<permission, permissionGroups, target, want, mem, part>>
      /\ UNCHANGED <<current, todo, reply>> /\ pc[r] = "load" /\ pc'[r] = "write"
      /\ loaded'[r] = PermissionsIn(target[r])
  BY FindTouches DEF EffectInv, LoadLinks, accessVars, Goto, IInv, TypeOK
<1>2. NoneAlikeIn(target[r])' /\ PermissionsIn(target[r])' = PermissionsIn(target[r])
  BY <1>1, SameLinksSettle
<1>3. Knows(r)
  BY <1>1 DEF EffectInv, IInv, TypeOK, Quiet, Facts, Changing
<1>4. Knows(r)'
  BY <1>1, <1>2, <1>3 DEF Knows
<1> QED BY <1>1, <1>2, <1>4 DEF Settles, Facts, Ended

\* The difference that a save writes makes the links those of the snapshot.
LEMMA SavedAreTheSnapshot ==
  ASSUME EffectInv, NEW r \in Requests, WriteLinks(r), target[r] \notin crowded
  PROVE  \/ End(r, "idle") /\ PermissionsIn(target[r])' = PermissionsIn(target[r])
         \/ /\ PermissionsIn(target[r])' = mem[r]
            /\ IF part[r] = "grant" THEN End(r, "answered")
               ELSE NextPart(r) /\ UNCHANGED <<mem, current, loaded>>
<1>1. pc[r] = "write" /\ target' = target /\ target[r] \in Groups
  BY DEF WriteLinks, EffectInv, IInv, TypeOK
<1>2. Knows(r)
  BY <1>1 DEF EffectInv, IInv, TypeOK, Quiet, Facts, Changing
<1>3. loaded[r] = PermissionsIn(target[r]) /\ mem[r] \subseteq PermissionIds
  BY <1>1, <1>2 DEF Knows, EffectInv, IInv, TypeOK
<1> DEFINE new == mem[r] \ loaded[r]
           old == loaded[r] \ mem[r]
<1>4. ASSUME permissionGroups' = (permissionGroups \ (old \X {target[r]})) \union (new \X {target[r]})
      PROVE  PermissionsIn(target[r])' = mem[r]
  <2>1. \A p \in PermissionIds : <<p, target[r]>> \in permissionGroups' <=>
            (p \in loaded[r] /\ p \notin old) \/ p \in new
    BY <1>3, <1>4 DEF PermissionsIn
  <2> QED BY <1>1, <1>3, <2>1 DEF PermissionsIn
<1>5. ASSUME UNCHANGED permissionGroups
      PROVE  PermissionsIn(target[r])' = PermissionsIn(target[r])
  BY <1>1, <1>5 DEF PermissionsIn
<1> QED BY <1>4, <1>5 DEF WriteLinks

LEMMA WriteSettles ==
  ASSUME EffectInv, NEW r \in Requests, WriteLinks(r), target[r] \notin crowded
  PROVE  Settles(r)
<1>1. /\ pc[r] = "write" /\ UNCHANGED <<permission, target, want, reply>>
      /\ target[r] \in Groups \ crowded
  BY DEF WriteLinks, EffectInv, IInv, TypeOK
<1>2. Knows(r)
  BY <1>1 DEF EffectInv, Quiet, Facts, Changing
<1>3. target[r] \notin MainGroups
  BY <1>1 DEF EffectInv, IInv, NotMainAfterRead, Calls
<1>4. NoneAlike(permission, mem[r]) /\ NoneAlike(permission, PermissionsIn(target[r]))
  BY <1>1, <1>2, <1>3 DEF Knows, EffectInv, Quiet, NoneAlikeIn
<1>5. ASSUME NEW how \in Ended, End(r, how),
             PermissionsIn(target[r])' = PermissionsIn(target[r])
               \/ PermissionsIn(target[r])' = mem[r]
      PROVE  Settles(r)
  <2>1. pc'[r] = how /\ part'[r] = "connection"
    BY <1>5 DEF End, Goto, EffectInv, IInv, TypeOK
  <2>2. NoneAlikeIn(target[r])'
    BY <1>1, <1>4, <1>5 DEF NoneAlikeIn
  <2> QED BY <2>1, <2>2 DEF Settles, Facts, Ended, Changing
<1>6. ASSUME PermissionsIn(target[r])' = mem[r], NextPart(r), UNCHANGED <<mem, current, loaded>>
      PROVE  Settles(r)
  <2>1. NoneAlikeIn(target[r])'
    BY <1>1, <1>4, <1>6 DEF NoneAlikeIn
  <2>2. /\ KeysToRevoke(r) = Listed(want[r], FALSE) \intersect Rights(permission, mem[r])
        /\ KeysToGrant(r) = Listed(want[r], TRUE) \ Rights(permission, mem[r])
    BY KeysAreRights DEF EffectInv
  <2>3. CASE part[r] = "connection"
    <3>1. part'[r] = "group" /\ pc'[r] = "change"
      BY <1>6, <2>3 DEF NextPart, Goto, EffectInv, IInv, TypeOK
    <3>2. Knows(r)'
      BY <1>1, <1>2, <1>6, <2>3, <3>1 DEF Knows
    <3> QED BY <2>1, <3>1, <3>2 DEF Settles, Facts, Ended
  <2>4. CASE part[r] = "group"
    <3>1. /\ part'[r] = "revoke" /\ todo'[r] = KeysToRevoke(r)
          /\ pc'[r] = IF KeysToRevoke(r) = {} THEN "load" ELSE "change"
      BY <1>6, <2>4, VisitKeepsOthers DEF NextPart, EffectInv, IInv, TypeOK
    <3>2. Knows(r)'
      BY <1>1, <1>2, <1>6, <2>2, <2>4, <3>1 DEF Knows
    <3> QED BY <2>1, <3>1, <3>2 DEF Settles, Facts, Ended
  <2>5. CASE part[r] = "revoke"
    <3>1. /\ part'[r] = "grant" /\ todo'[r] = KeysToGrant(r)
          /\ pc'[r] = IF KeysToGrant(r) = {} THEN "load" ELSE "change"
      BY <1>6, <2>5, VisitKeepsOthers DEF NextPart, EffectInv, IInv, TypeOK
    <3>2. Listed(want[r], FALSE) \intersect Rights(permission, mem[r]) = {}
      BY <1>1, <1>2, <2>5 DEF Knows
    <3>3. Knows(r)'
      BY <1>1, <1>2, <1>6, <2>2, <2>5, <3>1, <3>2 DEF Knows
    <3> QED BY <2>1, <3>1, <3>3 DEF Settles, Facts, Ended
  <2> QED BY <1>6, <2>3, <2>4, <2>5 DEF NextPart
<1> QED BY <1>5, <1>6, SavedAreTheSnapshot DEF Ended

LEMMA RevokeSettles ==
  ASSUME EffectInv, NEW r \in Requests, NEW key \in Tables \X TableKeys, Revoke(r, key),
         target[r] \notin crowded
  PROVE  Settles(r)
<1>1. /\ pc[r] = "change" /\ part[r] = "revoke" /\ key \in todo[r]
      /\ UNCHANGED <<permission, target, want, part, current, loaded>>
      /\ target[r] \in Groups \ crowded
  BY DEF Revoke, EffectInv, IInv, TypeOK
<1>2. Knows(r) /\ mem[r] = PermissionsIn(target[r]) /\ NoneAlike(permission, mem[r])
  BY <1>1 DEF EffectInv, Quiet, Facts, Changing, Knows
<1>3. Typed(permission, mem[r])
  BY <1>1, ClaimedIsTyped DEF EffectInv
<1>4. PICK p \in Carriers(mem[r], key) :
        /\ permissionGroups' = {link \in permissionGroups : link[1] # p}
        /\ mem' = [mem EXCEPT ![r] = @ \ {p}]
  BY DEF Revoke
<1>5. /\ p \in mem[r]
      /\ permission[p] = [type |-> "Table", accessLevel |-> key[2], tableName |-> key[1]]
  BY <1>3, <1>4, CarriersGrant DEF Carriers
<1>6. mem'[r] = mem[r] \ {p} /\ PermissionsIn(target[r])' = mem'[r]
  BY <1>1, <1>2, <1>4 DEF PermissionsIn, EffectInv, IInv, TypeOK
<1>7. PICK S, rows : S = mem[r] /\ rows = permission
  OBVIOUS
<1>8. /\ NoneAlike(rows, S \ {p}) /\ Rights(rows, S \ {p}) = Rights(rows, S) \ {key}
      /\ \A type \in {"Connection", "Group"} :
           LevelsIn(rows, S \ {p}, type) = LevelsIn(rows, S, type)
  BY <1>2, <1>3, <1>5, <1>7, RightIsRevoked
<1>9. /\ todo'[r] = todo[r] \ {key} /\ reply'[r] = reply[r] \ {key}
      /\ pc'[r] = IF todo'[r] = {} THEN "load" ELSE "change"
  <2>1. Visit(r, todo[r] \ {key}) /\ reply' = [reply EXCEPT ![r] = @ \ {key}]
    BY DEF Revoke
  <2> QED BY <2>1, VisitKeepsOthers DEF EffectInv, IInv, TypeOK
<1>10. /\ NoneAlike(permission', mem'[r])
       /\ Rights(permission', mem'[r]) = Rights(permission, mem[r]) \ {key}
       /\ LevelsIn(permission', mem'[r], "Connection") = LevelsIn(permission, mem[r], "Connection")
       /\ LevelsIn(permission', mem'[r], "Group") = LevelsIn(permission, mem[r], "Group")
  BY <1>1, <1>6, <1>7, <1>8
<1>11. Knows(r)'
  BY <1>1, <1>2, <1>6, <1>9, <1>10 DEF Knows
<1>12. NoneAlikeIn(target[r])'
  BY <1>6, <1>10 DEF NoneAlikeIn
<1> QED BY <1>1, <1>9, <1>11, <1>12 DEF Settles, Facts, Ended

LEMMA GrantSettles ==
  ASSUME EffectInv, NEW r \in Requests, NEW key \in Tables \X TableKeys, Grant(r, key),
         target[r] \notin crowded
  PROVE  Settles(r)
<1> DEFINE row == [type |-> "Table", accessLevel |-> key[2], tableName |-> key[1]]
<1>1. /\ pc[r] = "change" /\ part[r] = "grant" /\ key \in todo[r] /\ CanCreate
      /\ UNCHANGED <<permissionGroups, target, want, part, current, loaded>>
      /\ target[r] \in Groups \ crowded
      /\ permission' = [permission EXCEPT ![Fresh] = row]
      /\ mem'[r] = mem[r] \union {Fresh}
  BY DEF Grant, Insert, EffectInv, IInv, TypeOK
<1>2. /\ Knows(r) /\ PermissionsIn(target[r]) \subseteq mem[r] /\ NoneAlike(permission, mem[r])
      /\ todo[r] = Listed(want[r], TRUE) \ Rights(permission, mem[r])
      /\ Listed(want[r], FALSE) \intersect Rights(permission, mem[r]) = {}
  BY <1>1 DEF EffectInv, Quiet, Facts, Changing, Knows
<1>3. Typed(permission, mem[r])
  BY <1>1, ClaimedIsTyped DEF EffectInv
<1>4. Fresh \in PermissionIds \ mem[r]
  BY <1>1, <1>3, FreshIsUnused DEF Typed
<1>5. key \notin Rights(permission, mem[r]) /\ key \notin Listed(want[r], FALSE)
  BY <1>1, <1>2 DEF Listed
<1>6. PICK S, rows, after, p : S = mem[r] /\ rows = permission /\ after = permission' /\ p = Fresh
  OBVIOUS
<1>7. /\ NoneAlike(after, S \union {p})
      /\ Rights(after, S \union {p}) = Rights(rows, S) \union {key}
      /\ \A type \in {"Connection", "Group"} :
           LevelsIn(after, S \union {p}, type) = LevelsIn(rows, S, type)
  <2>1. Typed(rows, S) /\ NoneAlike(rows, S) /\ p \in PermissionIds \ S
        /\ key \notin Rights(rows, S) /\ after[p] = row
        /\ \A q \in S : after[q] = rows[q]
    BY <1>1, <1>2, <1>3, <1>4, <1>5, <1>6 DEF Typed
  <2> QED BY <2>1, RightIsGranted
<1>8. /\ todo'[r] = todo[r] \ {key} /\ reply'[r] = reply[r] \union {key}
      /\ pc'[r] = IF todo'[r] = {} THEN "load" ELSE "change"
  <2>1. Visit(r, todo[r] \ {key}) /\ reply' = [reply EXCEPT ![r] = @ \union {key}]
    BY DEF Grant
  <2> QED BY <2>1, VisitKeepsOthers DEF EffectInv, IInv, TypeOK
<1>9. /\ NoneAlike(permission', mem'[r])
      /\ Rights(permission', mem'[r]) = Rights(permission, mem[r]) \union {key}
      /\ LevelsIn(permission', mem'[r], "Connection") = LevelsIn(permission, mem[r], "Connection")
      /\ LevelsIn(permission', mem'[r], "Group") = LevelsIn(permission, mem[r], "Group")
  <2>1. mem'[r] = S \union {p}
    BY <1>1, <1>6
  <2> QED BY <1>6, <1>7, <2>1
<1>10. PermissionsIn(target[r])' = PermissionsIn(target[r])
  BY <1>1 DEF PermissionsIn
<1>11. Knows(r)'
  <2> HIDE DEF row
  <2>1. todo'[r] = Listed(want[r], TRUE) \ Rights(permission', mem'[r])
    BY <1>2, <1>8, <1>9
  <2>2. Listed(want[r], FALSE) \intersect Rights(permission', mem'[r]) = {}
    BY <1>2, <1>5, <1>9
  <2>3. reply'[r] = Rights(permission', mem'[r])
    BY <1>2, <1>8, <1>9 DEF Knows
  <2>4. /\ LevelsIn(permission', mem'[r], "Connection") = {want[r].connection}
        /\ LevelsIn(permission', mem'[r], "Group") = {want[r].group}
    BY <1>1, <1>2, <1>9 DEF Knows
  <2>5. PermissionsIn(target[r])' \subseteq mem'[r] /\ pc'[r] # "write"
    BY <1>1, <1>2, <1>8, <1>10
  <2> QED BY <1>1, <1>8, <1>9, <2>1, <2>2, <2>3, <2>4, <2>5 DEF Knows
<1>12. NoneAlikeIn(target[r])'
  BY <1>1, <1>2, <1>9, <1>10 DEF NoneAlikeIn, NoneAlike
<1> QED BY <1>1, <1>8, <1>11, <1>12 DEF Settles, Facts, Ended

LEMMA StepSettles ==
  ASSUME EffectInv, NEW r \in Requests, Step(r) \/ Fail(r), target[r] \notin crowded
  PROVE  Settles(r)
<1>1. ASSUME Fail(r) PROVE Settles(r)
  <2>1. Touches(r) /\ UNCHANGED <<permission, permissionGroups>> /\ End(r, "idle")
    BY <1>1, StepTouches DEF EffectInv, Fail, accessVars
  <2>2. pc'[r] = "idle" /\ part'[r] = "connection"
    BY <2>1 DEF End, Goto, EffectInv, IInv, TypeOK
  <2> QED BY <2>1, <2>2, SameLinksSettle DEF Settles, Facts, Changing
<1> QED BY <1>1, FindGroupSettles, FindCurrentSettles, ChangesSettle, LoadSettles, WriteSettles,
           RevokeSettles, GrantSettles DEF Step

LEMMA AtStartStays == IInv /\ AtStart /\ [Next]_vars => AtStart'
<1> DEFINE starts(q) == pc'[q] \in Ended \union {"findGroup", "findCurrent"}
                          => part'[q] = "connection"
<1> SUFFICES ASSUME IInv, AtStart, [Next]_vars, NEW q \in Requests PROVE starts(q)
  BY DEF AtStart
<1>1. TypeOK /\ (pc'[q] = pc[q] /\ part'[q] = part[q] => starts(q))
  BY DEF IInv, AtStart
<1>2. ASSUME NEW r \in Requests, NEW user \in Users, NEW g \in Groups, NEW w \in Wants,
             Start(r, user, g, w)
      PROVE  starts(q)
  BY <1>1, <1>2 DEF Start, Goto, TypeOK, AtStart
<1>3. ASSUME NEW r \in Requests, Step(r) \/ Fail(r)
      PROVE  starts(q)
  <2>1. CASE q # r
    BY <1>1, <1>3, <2>1, StepTouches DEF Touches, OthersKeep
  <2>2. ASSUME NEW how \in Ended, End(q, how) PROVE starts(q)
    BY <1>1, <2>2 DEF End, TypeOK
  <2>3. ASSUME NEW call \in Changing, Goto(q, call) PROVE starts(q)
    BY <1>1, <2>3 DEF Goto, TypeOK, Changing, Ended
  <2>4. ASSUME NEW keys, Visit(q, keys) PROVE starts(q)
    BY <2>3, <2>4 DEF Visit, Changing
  <2>5. ASSUME q = r, FindGroup(q) PROVE starts(q)
    <3>1. ASSUME UNCHANGED part, pc[q] = "findGroup" PROVE starts(q)
      BY <1>1, <3>1 DEF AtStart
    <3> QED BY <2>2, <2>5, <3>1 DEF FindGroup, Ended
  <2>6. ASSUME q = r, NextPart(q) PROVE starts(q)
    BY <2>3, <2>4, <2>6 DEF NextPart, Changing
  <2>7. ASSUME q = r, WriteLinks(q) PROVE starts(q)
    BY <2>2, <2>6, <2>7 DEF WriteLinks, Ended
  <2>8. ASSUME q = r, NEW key \in Tables \X TableKeys, Revoke(q, key) \/ Grant(q, key)
        PROVE  starts(q)
    BY <2>4, <2>8 DEF Revoke, Grant
  <2>9. ASSUME q = r, FindCurrent(q) \/ LoadLinks(q) \/ ChangeConnectionLevel(q)
                        \/ ChangeGroupLevel(q)
        PROVE  starts(q)
    BY <2>3, <2>9 DEF FindCurrent, LoadLinks, ChangeConnectionLevel, ChangeGroupLevel,
                      ChangeLevel, Changing
  <2> HIDE DEF starts
  <2> QED BY <1>3, <2>1, <2>2, <2>5, <2>7, <2>8, <2>9 DEF Step, Fail, Ended
<1>4. ASSUME UNCHANGED requestVars PROVE starts(q)
  BY <1>1, <1>4 DEF requestVars
<1> HIDE DEF starts
<1> QED BY <1>2, <1>3, <1>4 DEF Next, ChangeMembership, vars

\* A request that starts where another is under way makes the group crowded.
LEMMA StartIsQuiet ==
  ASSUME EffectInv, NEW r \in Requests, NEW user \in Users, NEW g \in Groups, NEW w \in Wants,
         Start(r, user, g, w), NEW h \in Groups \ crowded'
  PROVE  Quiet(h)'
<1> DEFINE others == {q \in Requests : Active(q) /\ target[q] = g}
<1>1. /\ UNCHANGED <<permission, permissionGroups, part, mem, current, loaded, todo>>
      /\ pc[r] \in Ended /\ pc'[r] = "findGroup" /\ target'[r] = g
      /\ \A q \in Requests \ {r} : /\ pc'[q] = pc[q] /\ target'[q] = target[q]
                                   /\ want'[q] = want[q] /\ reply'[q] = reply[q]
  BY DEF Start, Goto, EffectInv, IInv, TypeOK, accessVars
<1>2. h \notin crowded /\ Quiet(h) /\ (h = g => others = {})
  BY DEF Start, EffectInv
<1>3. OthersKeep(r) /\ Leaves(h)
  BY <1>1 DEF OthersKeep, Leaves, PermissionsIn
<1>5. Facts(r)'
  BY <1>1 DEF Facts, Changing
<1>6. ASSUME NEW q \in Requests, target'[q] = h
      PROVE  Facts(q)'
  <2>1. CASE q = r
    BY <1>5, <2>1
  <2>2. CASE q # r
    <3>1. target[q] = h /\ Facts(q)
      BY <1>1, <1>2, <1>6, <2>2 DEF Quiet
    <3> QED BY <1>1, <1>3, <2>2, <3>1, FactsStay DEF EffectInv
  <2> QED BY <2>1, <2>2
<1>7. ASSUME NEW p \in Requests, NEW q \in Requests, Active(p)', Active(q)',
             target'[p] = h, target'[q] = h
      PROVE  p = q
  BY <1>1, <1>2, <1>7 DEF Active, Quiet
<1>8. NoneAlikeIn(h)'
  BY <1>1, <1>2 DEF Quiet, NoneAlikeIn, PermissionsIn
<1> QED BY <1>6, <1>7, <1>8 DEF Quiet

LEMMA NextKeepsEffect == EffectInv /\ [Next]_vars => EffectInv'
<1> SUFFICES ASSUME EffectInv, [Next]_vars PROVE EffectInv'
  OBVIOUS
<1>1. IInv' /\ AtStart'
  BY NextIInv, AtStartStays DEF EffectInv
<1>2. SUFFICES ASSUME NEW h \in Groups \ crowded' PROVE Quiet(h)'
  BY <1>1 DEF EffectInv
<1>3. ASSUME NEW r \in Requests, NEW user \in Users, NEW g \in Groups, NEW w \in Wants,
             Start(r, user, g, w)
      PROVE  Quiet(h)'
  BY <1>3, StartIsQuiet
<1>4. ASSUME NEW r \in Requests, Step(r) \/ Fail(r)
      PROVE  Quiet(h)'
  <2>1. Touches(r)
    BY <1>4, StepTouches DEF EffectInv
  <2>2. h \notin crowded /\ Quiet(h) /\ target'[r] = target[r]
    BY <2>1 DEF Touches, EffectInv
  <2>3. CASE h = target[r]
    <3>1. Settles(r)
      BY <1>4, <2>2, <2>3, StepSettles
    <3>2. NoneAlikeIn(h)'
      BY <2>2, <2>3, <3>1 DEF Settles, NoneAlikeIn, PermissionsIn
    <3> QED BY <2>1, <2>2, <2>3, <3>1, <3>2, QuietGoesOn DEF Touches, Settles
  <2>4. CASE h # target[r]
    <3>1. Leaves(h)
      BY <2>1, <2>4, OwnWritesLeaveOthers DEF Touches, EffectInv
    <3> QED BY <2>1, <2>2, <2>4, <3>1, QuietStays DEF Touches, EffectInv
  <2> QED BY <2>3, <2>4
<1>5. ASSUME UNCHANGED <<permission, permissionGroups, requestVars, crowded>>
      PROVE  Quiet(h)'
  <2>1. UNCHANGED <<permission, permissionGroups, pc, part, target, want, mem, current, loaded,
                    todo, reply, crowded>>
    BY <1>5 DEF requestVars
  <2>2. Leaves(h) /\ Quiet(h) /\ IInv
    BY <2>1 DEF Leaves, PermissionsIn, EffectInv
  <2>3. ASSUME NEW q \in Requests, target'[q] = h PROVE Facts(q)'
    BY <2>1, <2>2, <2>3, FactsStay DEF Quiet
  <2>4. NoneAlikeIn(h)'
    BY <2>1, <2>2 DEF Quiet, NoneAlikeIn, PermissionsIn
  <2>5. \A p, q \in Requests :
          Active(p)' /\ Active(q)' /\ target'[p] = h /\ target'[q] = h => p = q
    BY <2>1, <2>2 DEF Quiet, Active
  <2> QED BY <2>3, <2>4, <2>5 DEF Quiet
<1>6. ASSUME NEW g \in Groups, NEW user \in MovingUsers, ChangeMembership(g, user)
      PROVE  Quiet(h)'
  BY <1>5, <1>6 DEF ChangeMembership, counters
<1>7. ASSUME UNCHANGED vars
      PROVE  Quiet(h)'
  BY <1>5, <1>7 DEF vars, accessVars, counters
<1> QED BY <1>3, <1>4, <1>6, <1>7 DEF Next

LEMMA InitEffect == Init => EffectInv
<1> SUFFICES ASSUME Init PROVE EffectInv
  OBVIOUS
<1>1. ASSUME NEW g \in Groups PROVE Quiet(g)
  <2>1. \A r \in Requests : Facts(r) /\ ~Active(r)
    BY DEF Init, Facts, Active, Calls, Changing
  <2>2. g \notin MainGroups => PermissionsIn(g) = {}
    BY DEF Init, PermissionsIn, AdminRows
  <2>3. NoneAlikeIn(g)
    BY <2>2 DEF NoneAlikeIn, NoneAlike
  <2> QED BY <2>1, <2>3 DEF Quiet
<1>2. AtStart
  BY DEF Init, AtStart
<1> QED BY <1>1, <1>2, InitIInv DEF EffectInv

\* The rights of a group, by its rows.
HasRightsOf(g, w) ==
  LET S == PermissionsIn(g)
  IN  /\ Typed(permission, S)
      /\ LevelsIn(permission, S, "Connection") = {w.connection}
      /\ LevelsIn(permission, S, "Group") = {w.group}
      /\ Listed(w, TRUE) \subseteq Rights(permission, S)
      /\ Listed(w, FALSE) \intersect Rights(permission, S) = {}

GrantedIsInEffect == \A g \in Groups, w \in Wants : HasRightsOf(g, w) => InEffect(g, w)

LEMMA RightsAreInEffect == GrantedIsInEffect
<1> SUFFICES ASSUME NEW g \in Groups, NEW w \in Wants, HasRightsOf(g, w) PROVE InEffect(g, w)
  BY DEF GrantedIsInEffect
<1> DEFINE S == PermissionsIn(g)
<1>1. UNION {PermissionsIn(h) : h \in {g}} = S
  OBVIOUS
<1>2. \A type : LevelsOf(type, {g}) = LevelsIn(permission, S, type)
  BY <1>1 DEF LevelsOf, LevelsIn, RowsOf
<1>3. \A t : TableLevelsOf({g}, t) =
        {permission[p].accessLevel :
           p \in {q \in S : permission[q].type = "Table" /\ permission[q].tableName = t}}
  BY <1>1 DEF TableLevelsOf
<1>4. w \in Want
  BY PermissionsAssumption
<1>5. ASSUME NEW t \in DOMAIN w.tables
      PROVE  TableLevelsOf({g}, t) = w.tables[t]
  <2>1. w.tables[t] \subseteq TableKeys /\ t \in Tables
    BY <1>4, <1>5 DEF Want
  <2>2. ASSUME NEW k
        PROVE  k \in TableLevelsOf({g}, t) <=> <<t, k>> \in Rights(permission, S)
    <3> DEFINE ofTable == {p \in S : permission[p].type = "Table" /\ permission[p].tableName = t}
    <3>0. k \in TableLevelsOf({g}, t) <=> \E p \in ofTable : permission[p].accessLevel = k
      <4> HIDE DEF ofTable
      <4>1. TableLevelsOf({g}, t) = {permission[p].accessLevel : p \in ofTable}
        BY <1>3 DEF ofTable
      <4> QED BY <4>1
    <3>1. k \in TableLevelsOf({g}, t) <=>
            \E p \in S : /\ permission[p].type = "Table" /\ permission[p].tableName = t
                         /\ permission[p].accessLevel = k
      <4> HIDE DEF S
      <4> QED BY <3>0
    <3>2. <<t, k>> \in Rights(permission, S) <=>
            \E p \in RowsOf(permission, S, "Table") :
               <<t, k>> = <<permission[p].tableName, permission[p].accessLevel>>
      BY DEF Rights
    <3> QED BY <3>1, <3>2 DEF RowsOf
  <2>3. \A k \in TableKeys : k \in w.tables[t] <=> <<t, k>> \in Rights(permission, S)
    <3>1. \A k \in TableKeys :
            <<t, k>> \in Listed(w, TRUE) \/ <<t, k>> \in Listed(w, FALSE)
      BY <1>5 DEF Listed
    <3>2. \A k \in TableKeys : /\ <<t, k>> \in Listed(w, TRUE) => k \in w.tables[t]
                               /\ <<t, k>> \in Listed(w, FALSE) => k \notin w.tables[t]
      BY DEF Listed
    <3> QED BY <3>1, <3>2 DEF HasRightsOf
  <2>4. \A k : <<t, k>> \in Rights(permission, S) => k \in TableKeys
    <3>1. Rights(permission, S) \subseteq Tables \X TableKeys
      BY RightsAreKeys DEF HasRightsOf
    <3> QED BY <3>1
  <2>5. \A k : k \in TableLevelsOf({g}, t) <=> k \in w.tables[t]
    BY <2>1, <2>2, <2>3, <2>4
  <2> QED BY <2>5
<1> QED BY <1>2, <1>5 DEF InEffect, HasRightsOf

LEMMA RightsAreInEffectThen == GrantedIsInEffect'
BY RightsAreInEffect, PTL

(***************************************************************************)
(* A request on a group that no other request ever overlapped on that      *)
(* group, whatever happened to other groups meanwhile and to earlier       *)
(* requests that failed half way: when it is answered, the group has       *)
(* exactly the rights of the body, and the answer lists those it has on    *)
(* tables (create-or-update-permissions.use.case.ts).                      *)
(***************************************************************************)
THEOREM AnswersTakeEffect == Spec => AnsweredIsInEffect
<1>1. EffectInv /\ [Next]_vars =>
        [\A r \in Requests : Answers(r) /\ target[r] \notin crowded
           => (InEffect(target[r], want[r]) /\ reply[r] = TableGrants(target[r]))']_vars
  <2> SUFFICES ASSUME EffectInv, [Next]_vars, NEW r \in Requests, Answers(r),
                      target[r] \notin crowded
               PROVE  (InEffect(target[r], want[r]) /\ reply[r] = TableGrants(target[r]))'
    OBVIOUS
  <2>1. pc[r] = "write" /\ pc'[r] = "answered"
    BY DEF Answers
  <2>2. WriteLinks(r)
    <3>1. ~Fail(r)
      BY <2>1 DEF Fail, End, Goto, EffectInv, IInv, TypeOK
    <3>2. ASSUME NEW q \in Requests, Step(q) \/ Fail(q) PROVE q = r
      BY <2>1, <3>2, StepTouches DEF Touches, OthersKeep, EffectInv
    <3>3. ASSUME NEW q \in Requests, NEW user \in Users, NEW g \in Groups, NEW w \in Wants,
                 Start(q, user, g, w)
          PROVE  FALSE
      BY <2>1, <3>3 DEF Start, Goto, Ended, EffectInv, IInv, TypeOK
    <3>4. pc' # pc
      BY <2>1
    <3>5. ~UNCHANGED vars /\ ~\E g \in Groups, user \in MovingUsers : ChangeMembership(g, user)
      BY <3>4 DEF vars, requestVars, ChangeMembership
    <3>6. Step(r)
      BY <3>1, <3>2, <3>3, <3>5 DEF Next
    <3> QED BY <2>1, <3>6 DEF Step, FindGroup, FindCurrent, ChangeConnectionLevel,
                  ChangeGroupLevel, ChangeLevel, LoadLinks, Revoke, Grant
  <2>3. /\ Knows(r) /\ UNCHANGED <<permission, target, want, reply>>
        /\ target[r] \in Groups /\ want[r] \in Wants
    BY <2>1, <2>2 DEF EffectInv, IInv, TypeOK, Quiet, Facts, Changing, WriteLinks
  <2>4. PermissionsIn(target[r])' = mem[r] /\ part[r] = "grant"
    <3>1. ~End(r, "idle") /\ (part[r] # "grant" => ~NextPart(r))
      BY <2>1 DEF End, NextPart, Visit, Goto, EffectInv, IInv, TypeOK
    <3> QED BY <2>2, <3>1, SavedAreTheSnapshot
  <2>5. /\ LevelsIn(permission, mem[r], "Connection") = {want[r].connection}
        /\ LevelsIn(permission, mem[r], "Group") = {want[r].group}
        /\ Listed(want[r], TRUE) \subseteq Rights(permission, mem[r])
        /\ Listed(want[r], FALSE) \intersect Rights(permission, mem[r]) = {}
        /\ reply[r] = Rights(permission, mem[r])
    BY <2>1, <2>3, <2>4 DEF Knows
  <2>6. TypeOK' /\ IInv'
    BY NextIInv DEF EffectInv, IInv
  <2>7. PICK g \in Groups, w \in Wants : g = target[r] /\ w = want[r]
    BY <2>3
  <2>8. Typed(permission, PermissionsIn(g))'
    <3>1. Typed(permission, mem[r])
      BY <2>3, ClaimedIsTyped DEF EffectInv
    <3> QED BY <2>3, <2>4, <2>7, <3>1 DEF Typed
  <2>9. InEffect(g, w)'
    <3>1. HasRightsOf(g, w)'
      BY <2>3, <2>4, <2>5, <2>7, <2>8 DEF HasRightsOf
    <3> QED BY <3>1, RightsAreInEffectThen DEF GrantedIsInEffect
  <2>10. reply'[r] = TableGrants(g)'
    BY <2>3, <2>4, <2>5, <2>7 DEF TableGrants, Rights, RowsOf
  <2> QED BY <2>3, <2>7, <2>9, <2>10
<1> QED BY <1>1, InitEffect, NextKeepsEffect, PTL DEF Spec, AnsweredIsInEffect
=============================================================================
