----------------------------- MODULE Membership -----------------------------
(***************************************************************************)
(* Who is in which group: the endpoints that add a user to a group, remove *)
(* one, delete a group, accept an invitation and delete an account         *)
(* (entities/group/use-cases, delete-user-account-use-case.ts).            *)
(*                                                                         *)
(* Every repository call commits on its own.  A group is read with its     *)
(* users once, changed in memory and saved whole: TypeORM SELECTs the      *)
(* group and its links, then inserts the links that are missing and        *)
(* deletes those that are too many - and inserts the group itself when the *)
(* SELECT did not find it.                                                 *)
(***************************************************************************)
EXTENDS UserAccess, Naturals

CONSTANTS Requests,         \* slots for requests in flight
          Emails,           \* addresses; an account keeps the one it was made with
          Codes,            \* verification strings of invitations, never drawn twice
          NoAccount, NoUser, NoCode,
          InitialAccounts,  \* the accounts there are at first: a set of choices
          InitialMembers,   \* who is in which group at first: a set of choices
          initialPermission, initialLinks,  \* the rows of the permission tables
          Ops,              \* the endpoints clients call
          MaxRequests,      \* bound on requests of a run
          MaxFaults,        \* bound on requests cut short by a failing statement
          FaultsMeetOverlaps    \* bound: FALSE keeps faults out of the behaviours
                                \* in which requests overlap

Account == [email : Emails, status : {"active", "inactive"}]

ASSUME MembershipAssumption ==
  /\ NoUser \notin Users /\ NoCode \notin Codes /\ NoAccount \notin Account
  /\ Groups # {} /\ Emails # {}
  /\ InitialAccounts \subseteq [Users -> Account \union {NoAccount}]
  /\ InitialMembers \subseteq SUBSET (Groups \X Users)
  /\ initialPermission \in [PermissionIds -> PermissionRow \union {NoRow}]
  /\ initialLinks \subseteq PermissionIds \X Groups
  /\ MaxRequests \in Nat /\ MaxFaults \in Nat /\ FaultsMeetOverlaps \in BOOLEAN

VARIABLES account,      \* the row created under each user id, deleted or not
          closed,       \* ids whose row was deleted
          liveGroups,   \* the groups that have a row
          invited,      \* user_invitation: {<<user, code>>}
          expired,      \* codes of invitations older than a day
          mailed,       \* codes that left in an invitation mail ...
          addressee,    \* ... and the user each drawn code was drawn for
          pc,           \* the next call of each request
          op, grp, email, who, code,    \* its endpoint, arguments and findings
          row,          \* "found" or "none": the last SELECT of the group
          mem,          \* foundGroup.users
          already,      \* whether the user was in foundGroup.users: "yes", "no",
                        \* or "new" for an account the request made itself
          loaded,       \* links seen by the SELECT of the save under way
          dead,         \* history: groups ever deleted
          overlapped,   \* history: whether two requests were ever in flight at once
          issued, faults

tables   == <<account, closed, liveGroups, invited, expired, mailed, addressee>>
local    == <<who, code, row, mem, already, loaded>>
request  == <<op, grp, email>>
history  == <<dead>>
counters == <<issued, overlapped, faults>>
vars     == <<accessVars, tables, pc, local, request, history, counters>>

Ended == {"idle", "done", "failed"}
Calls == {"findGroup", "findUser", "createAccount", "dropInvitation", "insertInvitation",
          "load", "write", "saveConfirmation", "mail", "removeGroup", "findCode", "readUser", "saveUser",
          "dropCode", "deleteUser"}

AllOps == {"add", "remove", "deleteGroup", "verify", "deleteAccount"}

HasAccount(u) == account[u] # NoAccount /\ u \notin closed

\* What the keys of the tables enforce: links join rows that are there, and a
\* user has one invitation.
KeysHold == /\ \A link \in groupUsers : link[1] \in liveGroups /\ HasAccount(link[2])
            /\ \A i \in invited : HasAccount(i[1])
            /\ \A i, j \in invited : i[1] = j[1] => i = j

TypeOK ==
  /\ AccessTypeOK
  /\ account \in [Users -> Account \union {NoAccount}]
  /\ closed \subseteq Users
  /\ liveGroups \subseteq Groups
  /\ invited \subseteq Users \X Codes
  /\ expired \subseteq Codes /\ mailed \subseteq Codes
  /\ addressee \in [Codes -> Users \union {NoUser}]
  /\ pc \in [Requests -> Ended \union Calls]
  /\ op \in [Requests -> AllOps] /\ grp \in [Requests -> Groups]
  /\ email \in [Requests -> Emails]
  /\ who \in [Requests -> Users \union {NoUser}]
  /\ code \in [Requests -> Codes \union {NoCode}]
  /\ row \in [Requests -> {"found", "none"}]
  /\ mem \in [Requests -> SUBSET Users] /\ loaded \in [Requests -> SUBSET Users]
  /\ already \in [Requests -> {"yes", "no", "new"}]
  /\ dead \subseteq Groups
  /\ issued \in 0..MaxRequests /\ faults \in 0..MaxFaults /\ overlapped \in BOOLEAN
  /\ KeysHold

MembersOf(g) == {u \in Users : <<g, u>> \in groupUsers}

Init ==
  /\ permission = initialPermission /\ removed = {} /\ permissionGroups = initialLinks
  /\ account \in InitialAccounts /\ closed = {}
  /\ groupUsers \in InitialMembers
  /\ \A link \in groupUsers : HasAccount(link[2])
  /\ liveGroups = Groups
  /\ invited = {} /\ expired = {} /\ mailed = {}
  /\ addressee = [c \in Codes |-> NoUser]
  /\ pc = [r \in Requests |-> "idle"]
  /\ op = [r \in Requests |-> "add"]
  /\ grp = [r \in Requests |-> CHOOSE g \in Groups : TRUE]
  /\ email = [r \in Requests |-> CHOOSE e \in Emails : TRUE]
  /\ who = [r \in Requests |-> NoUser] /\ code = [r \in Requests |-> NoCode]
  /\ row = [r \in Requests |-> "none"]
  /\ mem = [r \in Requests |-> {}] /\ loaded = [r \in Requests |-> {}]
  /\ already = [r \in Requests |-> "no"]
  /\ dead = {}
  /\ issued = 0 /\ faults = 0 /\ overlapped = FALSE
-----------------------------------------------------------------------------
Goto(r, call) == pc' = [pc EXCEPT ![r] = call]

At(r, call) == pc[r] = call

\* A request arrives: its slot is free, and nothing of an older one is left.
Begin(r, endpoint, call) ==
  /\ endpoint \in Ops
  /\ pc[r] \in Ended /\ issued < MaxRequests
  /\ issued' = issued + 1
  /\ overlapped' = (overlapped \/ \E q \in Requests : pc[q] \in Calls)
  /\ overlapped' => FaultsMeetOverlaps \/ faults = 0
  /\ op' = [op EXCEPT ![r] = endpoint]
  /\ Goto(r, call)
  /\ row' = [row EXCEPT ![r] = "none"]
  /\ mem' = [mem EXCEPT ![r] = {}] /\ loaded' = [loaded EXCEPT ![r] = {}]
  /\ already' = [already EXCEPT ![r] = "no"]
  /\ UNCHANGED <<accessVars, tables, dead, faults>>

\* The three endpoints behind GroupEditGuard; the guard is asked once, before
\* the use case reads anything.
BeginOnGroup(r, actor, g, endpoint, call) ==
  /\ Begin(r, endpoint, call)
  /\ g \in liveGroups /\ checkUserGroupEdit(actor, g)
  /\ grp' = [grp EXCEPT ![r] = g]
  /\ who' = [who EXCEPT ![r] = NoUser] /\ code' = [code EXCEPT ![r] = NoCode]

StartAdd(r, actor, g, e) ==
  /\ BeginOnGroup(r, actor, g, "add", "findGroup")
  /\ email' = [email EXCEPT ![r] = e]

StartRemove(r, actor, g, e) ==
  /\ BeginOnGroup(r, actor, g, "remove", "findUser")
  /\ email' = [email EXCEPT ![r] = e]

StartDeleteGroup(r, actor, g) ==
  /\ BeginOnGroup(r, actor, g, "deleteGroup", "findGroup")
  /\ UNCHANGED email

\* The public endpoint of the invitation link, and a user deleting the own
\* account.
StartVerify(r, c) ==
  /\ c \in mailed
  /\ Begin(r, "verify", "findCode")
  /\ code' = [code EXCEPT ![r] = c] /\ who' = [who EXCEPT ![r] = NoUser]
  /\ UNCHANGED <<grp, email>>

StartDeleteAccount(r, u) ==
  /\ HasAccount(u) /\ account[u].status = "active"
  /\ Begin(r, "deleteAccount", "deleteUser")
  /\ who' = [who EXCEPT ![r] = u] /\ code' = [code EXCEPT ![r] = NoCode]
  /\ UNCHANGED <<grp, email>>
-----------------------------------------------------------------------------

\* Mutant: the last user of a main group may be removed.
FindGroupUnchecked(r) ==
  /\ At(r, "findGroup")
  /\ row' = [row EXCEPT ![r] = IF grp[r] \in liveGroups THEN "found" ELSE "none"]
  /\ mem' = [mem EXCEPT ![r] = MembersOf(grp[r])]
  /\ \/ op[r] = "add" /\ Goto(r, "findUser")
     \/ op[r] = "remove" /\ Goto(r, IF grp[r] \in liveGroups THEN "load" ELSE "failed")
     \/ op[r] = "deleteGroup" /\ Goto(r, IF grp[r] \in MainGroups \/ grp[r] \notin liveGroups
                                         THEN "failed" ELSE "removeGroup")
  /\ UNCHANGED <<accessVars, tables, who, code, already, loaded, request, history, counters>>

(***************************************************************************)
(* findGroupById, with its users.  A removal from a main group that has no *)
(* second user is refused, so is the deletion of a main group; a group     *)
(* that is gone is dereferenced and the request fails - an add only later. *)
(***************************************************************************)
FindGroup(r) ==
  LET g == grp[r]
      there == g \in liveGroups
      lastOfMain == g \in MainGroups
                      /\ \A u, v \in MembersOf(g) : u = v
  IN  /\ At(r, "findGroup")
      /\ row' = [row EXCEPT ![r] = IF there THEN "found" ELSE "none"]
      /\ mem' = [mem EXCEPT ![r] = MembersOf(g)]
      /\ \/ op[r] = "add" /\ Goto(r, "findUser")
         \/ op[r] = "remove" /\ Goto(r, IF ~there \/ lastOfMain THEN "failed" ELSE "load")
         \/ op[r] = "deleteGroup"
            /\ Goto(r, IF ~there \/ g \in MainGroups THEN "failed" ELSE "removeGroup")
      /\ UNCHANGED <<accessVars, tables, who, code, already, loaded, request, history,
                     counters>>

AccountsOf(e) == {u \in Users : HasAccount(u) /\ account[u].email = e}

\* Where an add goes on for the user it found.
AddFound(r, u) ==
  LET member == u \in mem[r] IN
  /\ already' = [already EXCEPT ![r] = IF member THEN "yes" ELSE "no"]
  /\ IF account[u].status = "inactive" THEN Goto(r, "dropInvitation")
     ELSE Goto(r, IF member \/ row[r] = "none" THEN "failed" ELSE "load")

\* The query by email: any one of the accounts with the address (the column is
\* not unique), or none.
FindUser(r) ==
  /\ At(r, "findUser")
  /\ \/ \E u \in AccountsOf(email[r]) :
          /\ who' = [who EXCEPT ![r] = u]
          /\ \/ op[r] = "add" /\ AddFound(r, u)
             \/ op[r] = "remove" /\ Goto(r, "findGroup") /\ UNCHANGED already
     \/ /\ AccountsOf(email[r]) = {}
        /\ Goto(r, IF op[r] = "add" THEN "createAccount" ELSE "failed")
        /\ UNCHANGED <<who, already>>
  /\ UNCHANGED <<accessVars, tables, code, row, mem, loaded, request, history, counters>>

\* An unknown address: an inactive account is inserted.  (Its customer record
\* and test connections, made next, concern no group here.)
CreateAccount(r) ==
  /\ At(r, "createAccount")
  /\ \E u \in Users :
        /\ account[u] = NoAccount
        /\ account' = [account EXCEPT ![u] = [email |-> email[r], status |-> "inactive"]]
        /\ who' = [who EXCEPT ![r] = u]
  /\ already' = [already EXCEPT ![r] = "new"]
  /\ Goto(r, "dropInvitation")
  /\ UNCHANGED <<accessVars, closed, liveGroups, invited, expired, mailed, addressee, code,
                 row, mem, loaded, request, history, counters>>

\* A user read earlier is saved, by itself or by cascade: the row gets the
\* status of the copy, and is inserted again if it was deleted meanwhile.
SaveUserCopy(u, status) ==
  /\ account' = [account EXCEPT ![u].status = status]
  /\ closed' = closed \ {u}

\* createOrUpdateInvitationEntity: the invitation found is removed ...
DropInvitation(r) ==
  /\ At(r, "dropInvitation")
  /\ invited' = {i \in invited : i[1] # who[r]}
  /\ Goto(r, "insertInvitation")
  /\ UNCHANGED <<accessVars, account, closed, liveGroups, expired, mailed, addressee, local,
                 request, history, counters>>

\* ... and one with a new code saved, with the user by cascade.  A user has at
\* most one: the insertion fails when another request was faster.
InsertInvitation(r) ==
  LET u == who[r] IN
  /\ At(r, "insertInvitation")
  /\ \/ /\ \A i \in invited : i[1] # u
        /\ \E c \in Codes :
              /\ addressee[c] = NoUser
              /\ addressee' = [addressee EXCEPT ![c] = u]
              /\ invited' = invited \union {<<u, c>>}
              /\ code' = [code EXCEPT ![r] = c]
        /\ SaveUserCopy(u, "inactive")
        /\ Goto(r, IF row[r] = "found" THEN "load" ELSE "failed")
     \/ /\ \E i \in invited : i[1] = u
        /\ Goto(r, "failed")
        /\ UNCHANGED <<account, closed, invited, addressee, code>>
  /\ UNCHANGED <<accessVars, liveGroups, expired, mailed, who, row, mem, already, loaded,
                 request, history, counters>>
-----------------------------------------------------------------------------
\* Mutant: the user is not pushed to foundGroup.users before the save.
UsersUnpushed(r) == {mem[r]}

\* The users the group is to have.  A removal splices the index of the user
\* out of the array; the index of a user who is not in it is -1, and
\* splice(-1, 1) takes the last one out, whoever that is.
UsersAfter(r) ==
  IF op[r] = "add" THEN {mem[r] \union {who[r]}}
  ELSE IF who[r] \in mem[r] THEN {mem[r] \ {who[r]}}
  ELSE IF mem[r] = {} THEN {{}} ELSE {mem[r] \ {u} : u \in mem[r]}

\* saveNewOrUpdatedGroup, first half: SELECT the group and its links.
LoadGroup(r) ==
  /\ At(r, "load")
  /\ \E users \in UsersAfter(r) : mem' = [mem EXCEPT ![r] = users]
  /\ row' = [row EXCEPT ![r] = IF grp[r] \in liveGroups THEN "found" ELSE "none"]
  /\ loaded' = [loaded EXCEPT ![r] = MembersOf(grp[r])]
  /\ Goto(r, "write")
  /\ UNCHANGED <<accessVars, tables, who, code, already, request, history, counters>>

\* Mutant: the saved group carries its permissions, as an entity loaded with
\* them would.
WriteGroupWithPermissions(r) ==
  LET g == grp[r] IN
  /\ At(r, "write")
  /\ liveGroups' = liveGroups \union {g}
  /\ groupUsers' = (groupUsers \ ({g} \X Users)) \union ({g} \X mem[r])
  /\ permissionGroups' = permissionGroups \union {link \in initialLinks : link[2] = g}
  /\ Goto(r, "done")
  /\ UNCHANGED <<permission, removed, account, closed, invited, expired, mailed, addressee,
                 local, request, history, counters>>

\* Second half: one transaction, rolled back when a row it refers to is gone or
\* a row it inserts is there.
WriteGroup(r) ==
  LET g == grp[r]
      new == mem[r] \ loaded[r]
      old == loaded[r] \ mem[r]
      rejected == \/ row[r] = "none" /\ g \in liveGroups
                  \/ row[r] = "found" /\ new # {} /\ g \notin liveGroups
                  \/ \E u \in new : ~HasAccount(u) \/ <<g, u>> \in groupUsers
  IN  /\ At(r, "write")
      /\ IF rejected
         THEN Goto(r, "failed") /\ UNCHANGED <<groupUsers, liveGroups>>
         ELSE /\ groupUsers' = (groupUsers \ ({g} \X old)) \union ({g} \X new)
              /\ liveGroups' = IF row[r] = "none" THEN liveGroups \union {g} ELSE liveGroups
              /\ Goto(r, IF code[r] = NoCode THEN "done"
                         ELSE IF already[r] = "new" THEN "mail" ELSE "saveConfirmation")
      /\ UNCHANGED <<permission, removed, permissionGroups, account, closed, invited, expired,
                     mailed, addressee, local, request, history, counters>>

\* createOrUpdateEmailVerification for a user who was found inactive: that row
\* is not modelled here, but saving it saves the user by cascade.
SaveConfirmation(r) ==
  /\ At(r, "saveConfirmation")
  /\ SaveUserCopy(who[r], "inactive")
  /\ Goto(r, "mail")
  /\ UNCHANGED <<accessVars, liveGroups, invited, expired, mailed, addressee, local, request,
                 history, counters>>

\* The mail goes out, also to a user who was in the group already and for whom
\* the request then fails with USER_ALREADY_ADDED_BUT_NOT_ACTIVE.
MailInvitation(r) ==
  /\ At(r, "mail")
  /\ mailed' = mailed \union {code[r]}
  /\ Goto(r, IF already[r] = "yes" THEN "failed" ELSE "done")
  /\ UNCHANGED <<accessVars, account, closed, liveGroups, invited, expired, addressee, local,
                 request, history, counters>>
-----------------------------------------------------------------------------
\* removeGroupEntity; the links of the group go by cascade.
RemoveGroup(r) ==
  /\ At(r, "removeGroup")
  /\ liveGroups' = liveGroups \ {grp[r]} /\ dead' = dead \union {grp[r]}
  /\ groupUsers' = {link \in groupUsers : link[1] # grp[r]}
  /\ permissionGroups' = {link \in permissionGroups : link[2] # grp[r]}
  /\ Goto(r, "done")
  /\ UNCHANGED <<permission, removed, account, closed, invited, expired, mailed, addressee,
                 local, request, counters>>

\* deleteUserEntity; memberships and invitation go by cascade.
DeleteUser(r) ==
  LET u == who[r] IN
  /\ At(r, "deleteUser")
  /\ IF ~HasAccount(u)
     THEN Goto(r, "failed") /\ UNCHANGED <<closed, groupUsers, invited>>
     ELSE /\ closed' = closed \union {u}
          /\ groupUsers' = {link \in groupUsers : link[2] # u}
          /\ invited' = {i \in invited : i[1] # u}
          /\ Goto(r, "done")
  /\ UNCHANGED <<permission, removed, permissionGroups, account, liveGroups, expired, mailed,
                 addressee, local, request, history, counters>>

\* Mutant: any invitation is taken for the one with the code.
FindAnyCode(r) ==
  /\ At(r, "findCode")
  /\ \/ \E i \in invited : who' = [who EXCEPT ![r] = i[1]] /\ Goto(r, "readUser")
     \/ invited = {} /\ Goto(r, "failed") /\ UNCHANGED who
  /\ UNCHANGED <<accessVars, tables, code, row, mem, already, loaded, request, history,
                 counters>>

\* An invitation is accepted: by its code, within a day ...
FindCode(r) ==
  /\ At(r, "findCode")
  /\ \/ \E i \in invited :
          /\ i[2] = code[r] /\ code[r] \notin expired
          /\ who' = [who EXCEPT ![r] = i[1]] /\ Goto(r, "readUser")
     \/ /\ code[r] \in expired \/ \A i \in invited : i[2] # code[r]
        /\ Goto(r, "failed") /\ UNCHANGED who
  /\ UNCHANGED <<accessVars, tables, code, row, mem, already, loaded, request, history,
                 counters>>

\* ... the user is read, made active and saved, while the password is hashed
\* in between ...
ReadUser(r) ==
  /\ At(r, "readUser")
  /\ Goto(r, IF HasAccount(who[r]) THEN "saveUser" ELSE "failed")
  /\ UNCHANGED <<accessVars, tables, local, request, history, counters>>

SaveUser(r) ==
  /\ At(r, "saveUser")
  /\ SaveUserCopy(who[r], "active")
  /\ Goto(r, "dropCode")
  /\ UNCHANGED <<accessVars, liveGroups, invited, expired, mailed, addressee, local, request,
                 history, counters>>

\* ... and the invitation is removed.
DropCode(r) ==
  /\ At(r, "dropCode")
  /\ invited' = {i \in invited : i[2] # code[r]}
  /\ Goto(r, "done")
  /\ UNCHANGED <<accessVars, account, closed, liveGroups, expired, mailed, addressee, local,
                 request, history, counters>>

\* A day passes for an invitation.
Expire(c) ==
  /\ \E i \in invited : i[2] = c
  /\ c \notin expired
  /\ expired' = expired \union {c}
  /\ UNCHANGED <<accessVars, account, closed, liveGroups, invited, mailed, addressee, pc, local,
                 request, history, counters>>

\* A statement or a mail fails, or the process dies.
Fail(r) ==
  /\ pc[r] \in Calls /\ faults < MaxFaults /\ (overlapped => FaultsMeetOverlaps)
  /\ faults' = faults + 1
  /\ Goto(r, "failed")
  /\ UNCHANGED <<accessVars, tables, local, request, history, issued, overlapped>>

Start(r) ==
  \/ \E actor \in Users, g \in Groups :
        \/ \E e \in Emails : StartAdd(r, actor, g, e) \/ StartRemove(r, actor, g, e)
        \/ StartDeleteGroup(r, actor, g)
  \/ \E c \in Codes : StartVerify(r, c)
  \/ \E u \in Users : StartDeleteAccount(r, u)

Step(r) ==
  \/ FindGroup(r) \/ FindUser(r) \/ CreateAccount(r)
  \/ DropInvitation(r) \/ InsertInvitation(r)
  \/ LoadGroup(r) \/ WriteGroup(r) \/ SaveConfirmation(r) \/ MailInvitation(r)
  \/ RemoveGroup(r) \/ DeleteUser(r)
  \/ FindCode(r) \/ ReadUser(r) \/ SaveUser(r) \/ DropCode(r)

Next == \/ \E r \in Requests : Start(r) \/ Step(r) \/ Fail(r)
        \/ \E c \in Codes : Expire(c)

Spec == Init /\ [][Next]_vars
-----------------------------------------------------------------------------

(***************************************************************************)
(* A deleted group grants nothing, not even when a save under way inserts  *)
(* it again with its users (saveNewOrUpdatedGroup of a group that is gone).*)
(***************************************************************************)
DeadGroupsGrantNothing == \A g \in dead : PermissionsIn(g) = {}

(***************************************************************************)
(* An account becomes active only through the link mailed for it           *)
(* (verify-add-user-in-group.use.case.ts:24-55).                           *)
(***************************************************************************)
ActivatedByOwnLink ==
  [][\A u \in Users :
       account[u] # NoAccount /\ account[u].status = "inactive" /\ account'[u].status = "active"
         => \E r \in Requests : /\ op[r] = "verify" /\ code[r] \in mailed
                               /\ addressee[code[r]] = u]_vars

Answers(r, endpoint) == op[r] = endpoint /\ pc[r] # "done" /\ pc'[r] = "done"

(***************************************************************************)
(* A user who was added is a member, and one who still has to accept has   *)
(* an invitation in the table whose code was mailed - also after requests  *)
(* that failed half way, as long as no two requests overlapped.            *)
(***************************************************************************)
AddTakesEffect ==
  [][\A r \in Requests : Answers(r, "add") /\ ~overlapped =>
       /\ <<grp[r], who[r]>> \in groupUsers'
       /\ account'[who[r]].status = "inactive" =>
            \E c \in mailed' : <<who[r], c>> \in invited']_vars

(***************************************************************************)
(* A removal from a main group leaves somebody in it, the check of         *)
(* remove-user-from-group.use.case.ts:35-42, as long as no two requests    *)
(* overlapped.                                                             *)
(***************************************************************************)
RemovalLeavesSomebody ==
  [][\A r \in Requests : Answers(r, "remove") /\ ~overlapped /\ grp[r] \in MainGroups
       => \E u \in Users : <<grp[r], u>> \in groupUsers']_vars
=============================================================================
