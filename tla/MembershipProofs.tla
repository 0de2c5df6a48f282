-------------------------- MODULE MembershipProofs ---------------------------
(***************************************************************************)
(* Safety of groups, invitations and accounts, for any number of users,    *)
(* groups and overlapping requests.                                        *)
(***************************************************************************)
EXTENDS Membership, TLAPS

(***************************************************************************)
(* What a request knows at each of its calls: which endpoint it serves,    *)
(* that the user it found has (or had) an account, and whose code it has.  *)
(***************************************************************************)
PlacesOf(endpoint) ==
  CASE endpoint = "add" -> {"findGroup", "findUser", "createAccount", "dropInvitation",
                            "insertInvitation", "load", "write", "saveConfirmation", "mail"}
    [] endpoint = "remove" -> {"findUser", "findGroup", "load", "write"}
    [] endpoint = "deleteGroup" -> {"findGroup", "removeGroup"}
    [] endpoint = "verify" -> {"findCode", "readUser", "saveUser", "dropCode"}
    [] endpoint = "deleteAccount" -> {"deleteUser"}

FoundUser(r) ==
  \/ pc[r] \in {"dropInvitation", "insertInvitation", "load", "write", "saveConfirmation", "mail",
                "readUser", "saveUser", "deleteUser"}
  \/ pc[r] = "findGroup" /\ op[r] = "remove"

Knows(r) ==
  /\ pc[r] \in Calls => pc[r] \in PlacesOf(op[r])
  /\ FoundUser(r) => who[r] \in Users /\ account[who[r]] # NoAccount
  /\ pc[r] \in {"findGroup", "findUser", "createAccount", "dropInvitation", "insertInvitation"}
       => code[r] = NoCode
  /\ op[r] = "remove" /\ pc[r] \in Calls => code[r] = NoCode
  /\ pc[r] \in {"saveConfirmation", "mail"} => code[r] \in Codes
  /\ op[r] = "verify" /\ pc[r] \in Calls => code[r] \in mailed
  /\ pc[r] \in {"readUser", "saveUser"} => addressee[code[r]] = who[r]

\* An invitation is in the table of the user its code was drawn for.
InvitedAreAddressed == \A i \in invited : addressee[i[2]] = i[1]

Inv == TypeOK /\ InvitedAreAddressed /\ \A r \in Requests : Knows(r)

(***************************************************************************)
(* What a request knows as long as no two were ever in flight at once.     *)
(***************************************************************************)
Several(users) == \E u, v \in users : u # v

AddKnows(r) ==
  /\ pc[r] \in {"load", "write"} =>
       IF code[r] = NoCode THEN account[who[r]].status = "active"
       ELSE <<who[r], code[r]>> \in invited
  /\ pc[r] = "write" => who[r] \in mem[r] /\ loaded[r] = MembersOf(grp[r])
  /\ pc[r] \in {"saveConfirmation", "mail"} =>
       <<who[r], code[r]>> \in invited /\ <<grp[r], who[r]>> \in groupUsers

RemoveKnows(r) ==
  /\ pc[r] = "load" => (grp[r] \in MainGroups => Several(mem[r]))
  /\ pc[r] = "write" => /\ grp[r] \in MainGroups => mem[r] # {}
                        /\ loaded[r] = MembersOf(grp[r])

OneAtATime ==
  ~overlapped => \A r \in Requests : pc[r] \in Calls =>
                   /\ \A q \in Requests : pc[q] \in Calls => q = r
                   /\ op[r] = "add" => AddKnows(r)
                   /\ op[r] = "remove" => RemoveKnows(r)
-----------------------------------------------------------------------------
(***************************************************************************)
(* A request r moves on, and the others stay where they are.               *)
(***************************************************************************)
LocalTypes ==
  /\ pc \in [Requests -> Ended \union Calls]
  /\ op \in [Requests -> AllOps] /\ grp \in [Requests -> Groups]
  /\ email \in [Requests -> Emails]
  /\ who \in [Requests -> Users \union {NoUser}]
  /\ code \in [Requests -> Codes \union {NoCode}]
  /\ row \in [Requests -> {"found", "none"}]
  /\ mem \in [Requests -> SUBSET Users] /\ loaded \in [Requests -> SUBSET Users]
  /\ already \in [Requests -> {"yes", "no", "new"}]

Apart(r) ==
  \A x \in Requests \ {r} :
    /\ pc'[x] = pc[x] /\ op'[x] = op[x] /\ grp'[x] = grp[x] /\ who'[x] = who[x]
    /\ code'[x] = code[x] /\ mem'[x] = mem[x] /\ loaded'[x] = loaded[x]

\* What the tables keep of what a request once saw.
TablesGrow ==
  /\ \A u \in Users : account[u] # NoAccount => account'[u] # NoAccount
  /\ mailed \subseteq mailed'
  /\ \A c \in Codes : addressee[c] # NoUser => addressee'[c] = addressee[c]

(***************************************************************************)
(* What a request knows is not disturbed by the others.                    *)
(***************************************************************************)
LEMMA KnowsStays ==
  ASSUME TypeOK, NEW x \in Requests, Knows(x), TablesGrow,
         pc'[x] = pc[x], op'[x] = op[x], who'[x] = who[x], code'[x] = code[x]
  PROVE  Knows(x)'
<1>1. FoundUser(x)' <=> FoundUser(x)
  BY DEF FoundUser
<1>2. FoundUser(x)' => who'[x] \in Users /\ account'[who'[x]] # NoAccount
  BY <1>1 DEF Knows, TablesGrow
<1>3. op'[x] = "verify" /\ pc'[x] \in Calls => code'[x] \in mailed'
  BY DEF Knows, TablesGrow
<1>4. pc'[x] \in {"readUser", "saveUser"} => addressee'[code'[x]] = who'[x]
  <2>1. SUFFICES ASSUME pc[x] \in {"readUser", "saveUser"}
                 PROVE  addressee'[code[x]] = who[x]
    OBVIOUS
  <2>2. pc[x] \in Calls /\ FoundUser(x)
    BY <2>1 DEF Calls, FoundUser
  <2>3. pc[x] \in PlacesOf(op[x]) /\ op[x] \in AllOps
    BY <2>2 DEF Knows, TypeOK
  <2>4. op[x] = "verify"
    BY <2>1, <2>3 DEF PlacesOf, AllOps
  <2>5. code[x] \in Codes /\ addressee[code[x]] = who[x] /\ who[x] \in Users
    BY <2>1, <2>2, <2>4 DEF Knows, TypeOK
  <2>6. QED
    BY <2>5, MembershipAssumption DEF TablesGrow
<1>5. QED
  BY <1>2, <1>3, <1>4 DEF Knows

(***************************************************************************)
(* A step of request r keeps the invariant when it keeps the types, leaves *)
(* the others alone, and r knows what it has to.                           *)
(***************************************************************************)
LEMMA StepKeepsInv ==
  ASSUME Inv, NEW r \in Requests, TypeOK', InvitedAreAddressed', Apart(r), TablesGrow, Knows(r)'
  PROVE  Inv'
<1>1. \A x \in Requests \ {r} : Knows(x)'
  BY KnowsStays DEF Inv, Apart
<1>2. QED
  BY <1>1 DEF Inv

(***************************************************************************)
(* A user who is saved has an account afterwards, and no other changes.    *)
(***************************************************************************)
LEMMA SavedUserIsThere ==
  ASSUME TypeOK, NEW u \in Users, account[u] # NoAccount,
         NEW status \in {"active", "inactive"}, SaveUserCopy(u, status)
  PROVE  /\ account' \in [Users -> Account \union {NoAccount}] /\ closed' \subseteq Users
         /\ account'[u].status = status
         /\ \A v \in Users \ {u} : account'[v] = account[v]
         /\ closed' \subseteq closed
         /\ \A v \in Users : account[v] # NoAccount => account'[v] # NoAccount
<1>1. account[u] \in Account
  BY DEF TypeOK
<1>2. [account[u] EXCEPT !.status = status] \in Account
  BY <1>1 DEF Account
<1>3. account' = [account EXCEPT ![u] = [account[u] EXCEPT !.status = status]]
  BY DEF SaveUserCopy
<1>4. account \in [Users -> Account \union {NoAccount}]
  BY DEF TypeOK
<1>5. account' \in [Users -> Account \union {NoAccount}] /\ account'[u] = [account[u] EXCEPT !.status = status]
      /\ \A v \in Users \ {u} : account'[v] = account[v]
  BY <1>2, <1>3, <1>4
<1>6. account'[u] # NoAccount /\ account'[u].status = status
  BY <1>1, <1>2, <1>5, MembershipAssumption DEF Account
<1>7. closed' \subseteq Users /\ closed' \subseteq closed
  BY DEF TypeOK, SaveUserCopy
<1>8. QED
  BY <1>5, <1>6, <1>7

TableTypes ==
  /\ AccessTypeOK
  /\ account \in [Users -> Account \union {NoAccount}]
  /\ closed \subseteq Users
  /\ liveGroups \subseteq Groups
  /\ invited \subseteq Users \X Codes
  /\ expired \subseteq Codes /\ mailed \subseteq Codes
  /\ addressee \in [Codes -> Users \union {NoUser}]
  /\ KeysHold /\ InvitedAreAddressed

(***************************************************************************)
(* Init.                                                                   *)
(***************************************************************************)
LEMMA InitInv == Init => Inv
<1> SUFFICES ASSUME Init PROVE Inv
  OBVIOUS
<1>1. (CHOOSE g \in Groups : TRUE) \in Groups /\ (CHOOSE e \in Emails : TRUE) \in Emails
  BY MembershipAssumption
<1>2. AccessTypeOK
  BY MembershipAssumption DEF Init, AccessTypeOK
<1>3. account \in [Users -> Account \union {NoAccount}]
  BY MembershipAssumption DEF Init
<1>4. KeysHold
  <2>1. groupUsers \subseteq Groups \X Users
    BY MembershipAssumption DEF Init
  <2>2. QED
    BY <2>1 DEF Init, KeysHold
<1>5. LocalTypes
  BY <1>1 DEF Init, LocalTypes, Ended, AllOps
<1>6. issued \in 0..MaxRequests /\ faults \in 0..MaxFaults /\ overlapped \in BOOLEAN /\ dead \subseteq Groups
  <2>1. issued = 0 /\ faults = 0 /\ overlapped = FALSE /\ dead = {}
    BY DEF Init
  <2>2. MaxRequests \in Nat /\ MaxFaults \in Nat
    BY MembershipAssumption
  <2>3. issued \in 0..MaxRequests /\ faults \in 0..MaxFaults
    BY <2>1, <2>2
  <2>4. QED
    BY <2>1, <2>3
<1>7. liveGroups \subseteq Groups /\ addressee \in [Codes -> Users \union {NoUser}]
      /\ invited \subseteq Users \X Codes /\ closed \subseteq Users
      /\ expired \subseteq Codes /\ mailed \subseteq Codes
  BY DEF Init
<1>8. TypeOK
  BY <1>2, <1>3, <1>4, <1>5, <1>6, <1>7 DEF TypeOK, LocalTypes
<1>9. InvitedAreAddressed
  BY DEF Init, InvitedAreAddressed
<1>10. \A r \in Requests : Knows(r)
  BY DEF Init, Knows, FoundUser, Calls
<1>11. QED
  BY <1>8, <1>9, <1>10 DEF Inv

(***************************************************************************)
(* The requests that start.                                                *)
(***************************************************************************)
LEMMA BeginKeepsInv ==
  ASSUME Inv, NEW r \in Requests, NEW endpoint \in AllOps, NEW call \in PlacesOf(endpoint),
         Begin(r, endpoint, call),
         NEW g \in Groups, grp' = [grp EXCEPT ![r] = g],
         NEW e \in Emails, email' = [email EXCEPT ![r] = e],
         NEW u \in Users \union {NoUser}, who' = [who EXCEPT ![r] = u],
         NEW c \in Codes \union {NoCode}, code' = [code EXCEPT ![r] = c],
         call = "deleteUser" => u \in Users /\ account[u] # NoAccount,
         call \in {"findGroup", "findUser", "findCode", "deleteUser"},
         call = "findGroup" => endpoint # "remove",
         call # "findCode" => c = NoCode,
         call = "findCode" => c \in mailed
  PROVE  Inv'
<1>1. PlacesOf(endpoint) \subseteq Calls
  BY DEF PlacesOf, AllOps, Calls
<1>2. LocalTypes'
  BY <1>1 DEF Inv, TypeOK, LocalTypes, Begin, Goto
<1>3. issued' \in 0..MaxRequests /\ faults' \in 0..MaxFaults /\ overlapped' \in BOOLEAN
  BY MembershipAssumption DEF Inv, TypeOK, Begin, counters
<1>4. TypeOK'
  BY <1>2, <1>3 DEF Inv, TypeOK, LocalTypes, Begin, tables, accessVars, AccessTypeOK, KeysHold, HasAccount
<1>5. InvitedAreAddressed' /\ TablesGrow
  BY DEF Inv, InvitedAreAddressed, TablesGrow, Begin, tables
<1>6. Apart(r)
  BY DEF Apart, Begin, Goto, Inv, TypeOK
<1>7. /\ pc'[r] = call /\ op'[r] = endpoint /\ who'[r] = u /\ code'[r] = c
      /\ account' = account /\ mailed' = mailed
  BY DEF Inv, TypeOK, Begin, Goto, tables
<1>8. endpoint = "verify" => call = "findCode"
  BY DEF PlacesOf
<1>9. FoundUser(r)' => call = "deleteUser"
  BY <1>7 DEF FoundUser
<1>10. endpoint = "remove" => c = NoCode
  BY DEF PlacesOf
<1>11. Knows(r)'
  BY <1>7, <1>8, <1>9, <1>10 DEF Knows
<1>12. QED
  BY <1>4, <1>5, <1>6, <1>11, StepKeepsInv

LEMMA StartKeepsInv ==
  ASSUME Inv, NEW r \in Requests, Start(r)
  PROVE  Inv'
<1> USE DEF Inv, TypeOK
<1>1. \A x \in {grp[r]} : x \in Groups /\ grp = [grp EXCEPT ![r] = x]
  OBVIOUS
<1>2. \A x \in {email[r]} : x \in Emails /\ email = [email EXCEPT ![r] = x]
  OBVIOUS
<1>3. "findGroup" \in PlacesOf("add") /\ "findUser" \in PlacesOf("remove")
      /\ "findGroup" \in PlacesOf("deleteGroup") /\ "findCode" \in PlacesOf("verify")
      /\ "deleteUser" \in PlacesOf("deleteAccount")
  BY DEF PlacesOf
<1> AllOps = {"add", "remove", "deleteGroup", "verify", "deleteAccount"}
  BY DEF AllOps
<1>4. ASSUME NEW actor \in Users, NEW g \in Groups, NEW e \in Emails, StartAdd(r, actor, g, e)
      PROVE  Inv'
  <2>1. Begin(r, "add", "findGroup") /\ grp' = [grp EXCEPT ![r] = g]
        /\ email' = [email EXCEPT ![r] = e] /\ who' = [who EXCEPT ![r] = NoUser]
        /\ code' = [code EXCEPT ![r] = NoCode]
    BY <1>4 DEF StartAdd, BeginOnGroup
  <2> HIDE DEF Inv, TypeOK
  <2>2. QED
    BY <2>1, <1>3, BeginKeepsInv
<1>5. ASSUME NEW actor \in Users, NEW g \in Groups, NEW e \in Emails, StartRemove(r, actor, g, e)
      PROVE  Inv'
  <2>1. Begin(r, "remove", "findUser") /\ grp' = [grp EXCEPT ![r] = g]
        /\ email' = [email EXCEPT ![r] = e] /\ who' = [who EXCEPT ![r] = NoUser]
        /\ code' = [code EXCEPT ![r] = NoCode]
    BY <1>5 DEF StartRemove, BeginOnGroup
  <2> HIDE DEF Inv, TypeOK
  <2>2. QED
    BY <2>1, <1>3, BeginKeepsInv
<1>6. ASSUME NEW actor \in Users, NEW g \in Groups, StartDeleteGroup(r, actor, g)
      PROVE  Inv'
  <2>1. Begin(r, "deleteGroup", "findGroup") /\ grp' = [grp EXCEPT ![r] = g]
        /\ email[r] \in Emails /\ email' = [email EXCEPT ![r] = email[r]]
        /\ who' = [who EXCEPT ![r] = NoUser] /\ code' = [code EXCEPT ![r] = NoCode]
    BY <1>2, <1>6 DEF StartDeleteGroup, BeginOnGroup
  <2> HIDE DEF Inv, TypeOK
  <2>2. QED
    BY <2>1, <1>3, BeginKeepsInv
<1>7. ASSUME NEW c \in Codes, StartVerify(r, c)
      PROVE  Inv'
  <2>1. Begin(r, "verify", "findCode") /\ c \in mailed
        /\ grp[r] \in Groups /\ grp' = [grp EXCEPT ![r] = grp[r]]
        /\ email[r] \in Emails /\ email' = [email EXCEPT ![r] = email[r]]
        /\ who' = [who EXCEPT ![r] = NoUser] /\ code' = [code EXCEPT ![r] = c]
    BY <1>1, <1>2, <1>7 DEF StartVerify
  <2> HIDE DEF Inv, TypeOK
  <2>2. QED
    BY <2>1, <1>3, BeginKeepsInv
<1>8. ASSUME NEW u \in Users, StartDeleteAccount(r, u)
      PROVE  Inv'
  <2>1. Begin(r, "deleteAccount", "deleteUser") /\ account[u] # NoAccount
        /\ grp[r] \in Groups /\ grp' = [grp EXCEPT ![r] = grp[r]]
        /\ email[r] \in Emails /\ email' = [email EXCEPT ![r] = email[r]]
        /\ who' = [who EXCEPT ![r] = u] /\ code' = [code EXCEPT ![r] = NoCode]
    BY <1>1, <1>2, <1>8 DEF StartDeleteAccount, HasAccount
  <2> HIDE DEF Inv, TypeOK
  <2>2. QED
    BY <2>1, <1>3, BeginKeepsInv
<1>9. QED
  BY <1>4, <1>5, <1>6, <1>7, <1>8 DEF Start

(***************************************************************************)
(* Calls that change the memory of the request only.                       *)
(***************************************************************************)
LEMMA MemoryStepKeepsInv ==
  ASSUME Inv, NEW r \in Requests, UNCHANGED <<accessVars, tables, op, grp, email, history, counters>>,
         NEW call \in Ended \union Calls, Goto(r, call),
         NEW u \in Users \union {NoUser}, who' = [who EXCEPT ![r] = u],
         code' = code, LocalTypes', Apart(r), Knows(r)'
  PROVE  Inv'
<1>1. TypeOK'
  BY DEF Inv, TypeOK, LocalTypes, tables, accessVars, AccessTypeOK, KeysHold, HasAccount, history, counters
<1>2. InvitedAreAddressed' /\ TablesGrow
  BY DEF Inv, InvitedAreAddressed, TablesGrow, tables
<1>3. QED
  BY <1>1, <1>2, StepKeepsInv

LEMMA FindGroupKeepsInv ==
  ASSUME Inv, NEW r \in Requests, FindGroup(r)
  PROVE  Inv'
<1>1. PICK call \in {"failed", "findUser", "load", "removeGroup"} :
           Goto(r, call) /\ (call = "findUser" => op[r] = "add")
                         /\ (call = "load" => op[r] = "remove")
                         /\ (call = "removeGroup" => op[r] = "deleteGroup")
  BY DEF FindGroup
<1>2. pc[r] = "findGroup" /\ UNCHANGED <<accessVars, tables, who, code, already, loaded, request, history, counters>>
  BY DEF FindGroup, At
<1>3. call \in Ended \union Calls
  BY DEF Ended, Calls
<1>4. pc' = [pc EXCEPT ![r] = call]
  BY <1>1 DEF Goto
<1>5. MembersOf(grp[r]) \subseteq Users
  BY DEF MembersOf
<1>6. row' = [row EXCEPT ![r] = IF grp[r] \in liveGroups THEN "found" ELSE "none"]
      /\ mem' = [mem EXCEPT ![r] = MembersOf(grp[r])]
  BY DEF FindGroup
<1>7. LocalTypes'
  BY <1>2, <1>3, <1>4, <1>5, <1>6 DEF Inv, TypeOK, LocalTypes, request
<1>8. Apart(r)
  BY <1>2, <1>4, <1>6 DEF Inv, TypeOK, Apart, request
<1>9. Knows(r) /\ pc'[r] = call /\ UNCHANGED <<op, who, code, account, mailed, addressee>>
  BY <1>2, <1>4 DEF Inv, TypeOK, request, tables
<1>10. Knows(r)'
  <2>1. FoundUser(r)' => FoundUser(r)
    BY <1>1, <1>2, <1>9 DEF FoundUser
  <2>2. pc'[r] \in Calls => pc'[r] \in PlacesOf(op[r])
    BY <1>1, <1>9 DEF PlacesOf, Calls
  <2>3. pc[r] \in Calls
    BY <1>2 DEF Calls
  <2>4. QED
    BY <1>1, <1>2, <1>9, <2>1, <2>2, <2>3 DEF Knows
<1>11. who[r] \in Users \union {NoUser} /\ who' = [who EXCEPT ![r] = who[r]]
  BY <1>9 DEF Inv, TypeOK
<1>12. QED
  BY <1>1, <1>2, <1>3, <1>7, <1>8, <1>10, <1>11, MemoryStepKeepsInv DEF request

LEMMA FindUserKeepsInv ==
  ASSUME Inv, NEW r \in Requests, FindUser(r)
  PROVE  Inv'
<1>1. pc[r] = "findUser" /\ UNCHANGED <<accessVars, tables, code, row, mem, loaded, request, history, counters>>
  BY DEF FindUser, At
<1>2. Knows(r) /\ pc[r] \in Calls /\ op[r] \in {"add", "remove"} /\ code[r] = NoCode
  BY <1>1 DEF Inv, TypeOK, Knows, Calls, PlacesOf, AllOps
<1>3. CASE /\ AccountsOf(email[r]) = {}
           /\ Goto(r, IF op[r] = "add" THEN "createAccount" ELSE "failed")
           /\ UNCHANGED <<who, already>>
  <2>1. PICK call \in {"createAccount", "failed"} : Goto(r, call) /\ (call = "createAccount" => op[r] = "add")
    BY <1>3
  <2>2. call \in Ended \union Calls /\ pc' = [pc EXCEPT ![r] = call]
    BY <2>1 DEF Ended, Calls, Goto
  <2>3. LocalTypes' /\ Apart(r)
    BY <1>1, <1>3, <2>2 DEF Inv, TypeOK, LocalTypes, Apart, request
  <2>4. pc'[r] = call /\ UNCHANGED <<op, who, code, account, mailed, addressee>>
    BY <1>1, <1>3, <2>2 DEF Inv, TypeOK, request, tables
  <2>5. Knows(r)'
    BY <1>1, <1>2, <2>1, <2>4 DEF Knows, FoundUser, PlacesOf, Calls
  <2>6. who[r] \in Users \union {NoUser} /\ who' = [who EXCEPT ![r] = who[r]]
    BY <1>3 DEF Inv, TypeOK
  <2>7. QED
    BY <1>1, <2>1, <2>2, <2>3, <2>5, <2>6, MemoryStepKeepsInv DEF request
<1>4. ASSUME NEW u \in AccountsOf(email[r]), who' = [who EXCEPT ![r] = u],
             \/ op[r] = "add" /\ AddFound(r, u)
             \/ op[r] = "remove" /\ Goto(r, "findGroup") /\ UNCHANGED already
      PROVE  Inv'
  <2>1. u \in Users /\ account[u] # NoAccount
    BY DEF AccountsOf, HasAccount
  <2>2. PICK call \in {"dropInvitation", "failed", "load", "findGroup"} :
             Goto(r, call) /\ (call = "findGroup" => op[r] = "remove")
                           /\ (call \in {"dropInvitation", "load"} => op[r] = "add")
    BY <1>4 DEF AddFound
  <2>3. already' \in [Requests -> {"yes", "no", "new"}]
    BY <1>4 DEF Inv, TypeOK, AddFound
  <2>4. call \in Ended \union Calls /\ pc' = [pc EXCEPT ![r] = call]
    BY <2>2 DEF Ended, Calls, Goto
  <2>5. LocalTypes' /\ Apart(r)
    BY <1>1, <1>4, <2>1, <2>3, <2>4 DEF Inv, TypeOK, LocalTypes, Apart, request
  <2>6. pc'[r] = call /\ who'[r] = u /\ UNCHANGED <<op, code, account, mailed, addressee>>
    BY <1>1, <1>4, <2>4 DEF Inv, TypeOK, request, tables
  <2>7. Knows(r)'
    BY <1>1, <1>2, <2>1, <2>2, <2>6 DEF Knows, FoundUser, PlacesOf, Calls
  <2>8. QED
    BY <1>1, <1>4, <2>1, <2>2, <2>4, <2>5, <2>7, MemoryStepKeepsInv DEF request
<1>5. QED
  BY <1>3, <1>4 DEF FindUser

LEMMA LoadGroupKeepsInv ==
  ASSUME Inv, NEW r \in Requests, LoadGroup(r)
  PROVE  Inv'
<1>1. pc[r] = "load" /\ pc' = [pc EXCEPT ![r] = "write"]
      /\ UNCHANGED <<accessVars, tables, who, code, already, request, history, counters>>
  BY DEF LoadGroup, At, Goto
<1>2. Knows(r) /\ pc[r] \in Calls /\ op[r] \in {"add", "remove"} /\ who[r] \in Users
  BY <1>1 DEF Inv, TypeOK, Knows, FoundUser, Calls, PlacesOf, AllOps
<1>3. PICK users \in UsersAfter(r) : mem' = [mem EXCEPT ![r] = users]
  BY DEF LoadGroup
<1>4. users \subseteq Users /\ MembersOf(grp[r]) \subseteq Users
  BY <1>2 DEF UsersAfter, MembersOf, Inv, TypeOK
<1>5. row' = [row EXCEPT ![r] = IF grp[r] \in liveGroups THEN "found" ELSE "none"]
      /\ loaded' = [loaded EXCEPT ![r] = MembersOf(grp[r])]
  BY DEF LoadGroup
<1>6. "write" \in Ended \union Calls
  BY DEF Ended, Calls
<1>7. LocalTypes' /\ Apart(r)
  BY <1>1, <1>3, <1>4, <1>5, <1>6 DEF Inv, TypeOK, LocalTypes, Apart, request
<1>8. pc'[r] = "write" /\ UNCHANGED <<op, who, code, account, mailed, addressee>>
  BY <1>1 DEF Inv, TypeOK, request, tables
<1>9. Knows(r)'
  BY <1>1, <1>2, <1>8 DEF Knows, FoundUser, PlacesOf, Calls
<1>10. who[r] \in Users \union {NoUser} /\ who' = [who EXCEPT ![r] = who[r]]
  BY <1>8 DEF Inv, TypeOK
<1>11. Goto(r, "write")
  BY <1>1 DEF Goto
<1>12. QED
  BY <1>1, <1>6, <1>7, <1>9, <1>10, <1>11, MemoryStepKeepsInv DEF request

LEMMA FindCodeKeepsInv ==
  ASSUME Inv, NEW r \in Requests, FindCode(r)
  PROVE  Inv'
<1>1. pc[r] = "findCode" /\ UNCHANGED <<accessVars, tables, code, row, mem, already, loaded, request, history, counters>>
  BY DEF FindCode, At
<1>2. Knows(r) /\ pc[r] \in Calls /\ op[r] = "verify" /\ code[r] \in mailed /\ who[r] \in Users \union {NoUser}
  BY <1>1 DEF Inv, TypeOK, Knows, Calls, PlacesOf, AllOps
<1>3. PICK u \in Users \union {NoUser}, call \in {"readUser", "failed"} :
        /\ who' = [who EXCEPT ![r] = u] /\ Goto(r, call)
        /\ call = "readUser" => <<u, code[r]>> \in invited /\ u \in Users
  <2>1. CASE Goto(r, "failed") /\ UNCHANGED who
    <3>1. who' = [who EXCEPT ![r] = who[r]]
      BY <2>1 DEF Inv, TypeOK
    <3>2. QED
      BY <1>2, <2>1, <3>1
  <2>2. CASE \E i \in invited : i[2] = code[r] /\ who' = [who EXCEPT ![r] = i[1]] /\ Goto(r, "readUser")
    <3>1. PICK i \in invited : i[2] = code[r] /\ who' = [who EXCEPT ![r] = i[1]] /\ Goto(r, "readUser")
      BY <2>2
    <3>2. i = <<i[1], i[2]>> /\ i[1] \in Users
      BY DEF Inv, TypeOK
    <3>3. <<i[1], code[r]>> \in invited
      BY <3>1, <3>2
    <3>4. QED
      BY <3>1, <3>2, <3>3
  <2>3. QED
    BY <2>1, <2>2 DEF FindCode
<1>4. call = "readUser" => account[u] # NoAccount /\ addressee[code[r]] = u
  BY <1>3 DEF Inv, TypeOK, KeysHold, HasAccount, InvitedAreAddressed
<1>5. call \in Ended \union Calls /\ pc' = [pc EXCEPT ![r] = call]
  BY <1>3 DEF Ended, Calls, Goto
<1>6. LocalTypes' /\ Apart(r)
  BY <1>1, <1>3, <1>5 DEF Inv, TypeOK, LocalTypes, Apart, request
<1>7. pc'[r] = call /\ who'[r] = u /\ UNCHANGED <<op, code, account, mailed, addressee>>
  BY <1>1, <1>3, <1>5 DEF Inv, TypeOK, request, tables
<1>8. Knows(r)'
  BY <1>2, <1>3, <1>4, <1>7 DEF Knows, FoundUser, PlacesOf, Calls
<1>9. QED
  BY <1>1, <1>3, <1>5, <1>6, <1>8, MemoryStepKeepsInv DEF request

LEMMA ReadUserKeepsInv ==
  ASSUME Inv, NEW r \in Requests, ReadUser(r)
  PROVE  Inv'
<1>1. pc[r] = "readUser" /\ UNCHANGED <<accessVars, tables, local, request, history, counters>>
  BY DEF ReadUser, At
<1>2. PICK call \in {"saveUser", "failed"} : Goto(r, call)
  BY DEF ReadUser
<1>3. Knows(r) /\ pc[r] \in Calls /\ op[r] = "verify" /\ FoundUser(r)
  BY <1>1 DEF Inv, TypeOK, Knows, FoundUser, Calls, PlacesOf, AllOps
<1>4. call \in Ended \union Calls /\ pc' = [pc EXCEPT ![r] = call]
  BY <1>2 DEF Ended, Calls, Goto
<1>5. LocalTypes' /\ Apart(r)
  BY <1>1, <1>4 DEF Inv, TypeOK, LocalTypes, Apart, request, local
<1>6. pc'[r] = call /\ UNCHANGED <<op, who, code, account, mailed, addressee>>
  BY <1>1, <1>4 DEF Inv, TypeOK, request, tables, local
<1>7. Knows(r)'
  BY <1>1, <1>2, <1>3, <1>6 DEF Knows, FoundUser, PlacesOf, Calls
<1>8. who[r] \in Users \union {NoUser} /\ who' = [who EXCEPT ![r] = who[r]] /\ code' = code
  BY <1>6 DEF Inv, TypeOK
<1>9. QED
  BY <1>1, <1>2, <1>4, <1>5, <1>7, <1>8, MemoryStepKeepsInv DEF request

LEMMA FailKeepsInv ==
  ASSUME Inv, NEW r \in Requests, Fail(r)
  PROVE  Inv'
<1>1. pc' = [pc EXCEPT ![r] = "failed"] /\ faults' \in 0..MaxFaults
      /\ UNCHANGED <<accessVars, tables, local, request, history, issued, overlapped>>
  <2>1. faults \in 0..MaxFaults /\ faults < MaxFaults /\ faults' = faults + 1 /\ MaxFaults \in Nat
    BY MembershipAssumption DEF Inv, TypeOK, Fail
  <2>2. faults' \in 0..MaxFaults
    BY <2>1
  <2>3. QED
    BY <2>2 DEF Fail, Goto
<1>2. LocalTypes' /\ Apart(r)
  BY <1>1 DEF Inv, TypeOK, LocalTypes, Apart, request, local, Ended
<1>3. TypeOK'
  BY <1>1, <1>2 DEF Inv, TypeOK, LocalTypes, tables, accessVars, AccessTypeOK, KeysHold, HasAccount, history
<1>4. InvitedAreAddressed' /\ TablesGrow
  BY <1>1 DEF Inv, InvitedAreAddressed, TablesGrow, tables
<1>5. pc'[r] = "failed"
  BY <1>1 DEF Inv, TypeOK
<1>6. Knows(r)'
  BY <1>5 DEF Knows, FoundUser, Calls
<1>7. QED
  BY <1>2, <1>3, <1>4, <1>6, StepKeepsInv

(***************************************************************************)
(* Calls that change the tables.                                           *)
(***************************************************************************)
LEMMA TypesTogether ==
  ASSUME Inv, LocalTypes', TableTypes', dead' \subseteq Groups, UNCHANGED counters
  PROVE  TypeOK' /\ InvitedAreAddressed'
BY DEF Inv, TypeOK, LocalTypes, TableTypes, counters

LEMMA CreateAccountKeepsInv ==
  ASSUME Inv, NEW r \in Requests, CreateAccount(r)
  PROVE  Inv'
<1>1. pc[r] = "createAccount" /\ pc' = [pc EXCEPT ![r] = "dropInvitation"]
      /\ already' = [already EXCEPT ![r] = "new"]
      /\ UNCHANGED <<accessVars, closed, liveGroups, invited, expired, mailed, addressee, code,
                     row, mem, loaded, request, history, counters>>
  BY DEF CreateAccount, At, Goto
<1>2. PICK u \in Users : /\ account[u] = NoAccount
                         /\ account' = [account EXCEPT ![u] = [email |-> email[r], status |-> "inactive"]]
                         /\ who' = [who EXCEPT ![r] = u]
  BY DEF CreateAccount
<1>3. Knows(r) /\ pc[r] \in Calls /\ op[r] = "add"
  BY <1>1 DEF Inv, TypeOK, Knows, Calls, PlacesOf, AllOps
<1>4. [email |-> email[r], status |-> "inactive"] \in Account
  BY DEF Inv, TypeOK, Account
<1>5. account' \in [Users -> Account \union {NoAccount}] /\ account'[u] # NoAccount
      /\ \A v \in Users \ {u} : account'[v] = account[v]
  BY <1>2, <1>4, MembershipAssumption DEF Inv, TypeOK
<1>6. \A v \in Users : account[v] # NoAccount => account'[v] # NoAccount
  BY <1>2, <1>5
<1>7. TableTypes'
  <2>1. KeysHold'
    BY <1>1, <1>6 DEF Inv, TypeOK, KeysHold, HasAccount, AccessTypeOK, accessVars
  <2>2. QED
    BY <1>1, <1>5, <2>1 DEF Inv, TypeOK, TableTypes, AccessTypeOK, accessVars, InvitedAreAddressed
<1>8. LocalTypes' /\ Apart(r)
  BY <1>1, <1>2 DEF Inv, TypeOK, LocalTypes, Apart, request, Calls
<1>9. TypeOK' /\ InvitedAreAddressed'
  BY <1>1, <1>7, <1>8, TypesTogether DEF Inv, TypeOK, history
<1>10. TablesGrow
  BY <1>1, <1>6 DEF TablesGrow
<1>11. pc'[r] = "dropInvitation" /\ who'[r] = u /\ UNCHANGED <<op, code>>
  BY <1>1, <1>2 DEF Inv, TypeOK, request
<1>12. Knows(r)'
  BY <1>1, <1>3, <1>5, <1>11 DEF Knows, FoundUser, PlacesOf, Calls
<1>13. QED
  BY <1>8, <1>9, <1>10, <1>12, StepKeepsInv

(***************************************************************************)
(* Invitations, links and groups that go, and a mail that leaves.          *)
(***************************************************************************)
LEMMA RemovalKeepsInv ==
  ASSUME Inv, NEW r \in Requests, pc[r] \in Calls, NEW call \in Ended \union Calls, Goto(r, call),
         UNCHANGED <<permission, removed, account, expired, addressee, local, request, counters>>,
         permissionGroups' \subseteq permissionGroups,
         groupUsers' \subseteq groupUsers, invited' \subseteq invited,
         liveGroups' \subseteq liveGroups,
         dead' \subseteq Groups,
         closed \subseteq closed', closed' \subseteq Users,
         mailed \subseteq mailed', mailed' \subseteq Codes,
         \A link \in groupUsers' : link[1] \in liveGroups' /\ link[2] \notin closed' \ closed,
         \A i \in invited' : i[1] \notin closed' \ closed,
         Knows(r)'
  PROVE  Inv'
<1>1. KeysHold'
  <2>1. \A u \in Users : HasAccount(u) /\ u \notin closed' \ closed => HasAccount(u)'
    BY DEF HasAccount
  <2>2. QED
    BY <2>1 DEF Inv, TypeOK, KeysHold, AccessTypeOK
<1>2. TableTypes'
  BY <1>1 DEF Inv, TypeOK, TableTypes, AccessTypeOK, InvitedAreAddressed
<1>3. LocalTypes' /\ Apart(r)
  BY DEF Inv, TypeOK, LocalTypes, Apart, request, local, Goto
<1>4. TypeOK' /\ InvitedAreAddressed'
  BY <1>2, <1>3, TypesTogether
<1>5. TablesGrow
  BY DEF TablesGrow
<1>6. QED
  BY <1>3, <1>4, <1>5, StepKeepsInv

LEMMA DropInvitationKeepsInv ==
  ASSUME Inv, NEW r \in Requests, DropInvitation(r)
  PROVE  Inv'
<1>1. pc[r] = "dropInvitation" /\ Goto(r, "insertInvitation")
      /\ UNCHANGED <<accessVars, account, closed, liveGroups, expired, mailed, addressee, local,
                     request, history, counters>>
      /\ invited' \subseteq invited
  BY DEF DropInvitation, At
<1>2. Knows(r) /\ pc[r] \in Calls /\ op[r] = "add"
  BY <1>1 DEF Inv, TypeOK, Knows, Calls, PlacesOf, AllOps
<1>3. pc'[r] = "insertInvitation" /\ UNCHANGED <<op, who, code, account, mailed, addressee>>
  BY <1>1 DEF Inv, TypeOK, request, local, Goto
<1>4. Knows(r)'
  BY <1>1, <1>2, <1>3 DEF Knows, FoundUser, PlacesOf, Calls
<1>5. "insertInvitation" \in Ended \union Calls
  BY DEF Calls
<1>6. QED
  BY <1>1, <1>2, <1>4, <1>5, RemovalKeepsInv DEF Inv, TypeOK, KeysHold, accessVars, history

LEMMA DropCodeKeepsInv ==
  ASSUME Inv, NEW r \in Requests, DropCode(r)
  PROVE  Inv'
<1>1. pc[r] = "dropCode" /\ Goto(r, "done")
      /\ UNCHANGED <<accessVars, account, closed, liveGroups, expired, mailed, addressee, local,
                     request, history, counters>>
      /\ invited' \subseteq invited
  BY DEF DropCode, At
<1>2. pc'[r] = "done" /\ pc[r] \in Calls
  BY <1>1 DEF Inv, TypeOK, Goto, Calls
<1>3. Knows(r)'
  BY <1>2 DEF Knows, FoundUser, Calls
<1>4. "done" \in Ended \union Calls
  BY DEF Ended
<1>5. QED
  BY <1>1, <1>2, <1>3, <1>4, RemovalKeepsInv DEF Inv, TypeOK, KeysHold, accessVars, history

LEMMA RemoveGroupKeepsInv ==
  ASSUME Inv, NEW r \in Requests, RemoveGroup(r)
  PROVE  Inv'
<1>1. pc[r] = "removeGroup" /\ Goto(r, "done")
      /\ liveGroups' = liveGroups \ {grp[r]} /\ dead' = dead \union {grp[r]}
      /\ groupUsers' = {link \in groupUsers : link[1] # grp[r]}
      /\ permissionGroups' \subseteq permissionGroups
      /\ UNCHANGED <<permission, removed, account, closed, invited, expired, mailed, addressee,
                     local, request, counters>>
  BY DEF RemoveGroup, At
<1>2. pc'[r] = "done" /\ pc[r] \in Calls /\ grp[r] \in Groups
  BY <1>1 DEF Inv, TypeOK, Goto, Calls
<1>3. Knows(r)'
  BY <1>2 DEF Knows, FoundUser, Calls
<1>4. "done" \in Ended \union Calls
  BY DEF Ended
<1>5. \A link \in groupUsers' : link[1] \in liveGroups'
  BY <1>1 DEF Inv, TypeOK, KeysHold
<1>6. dead' \subseteq Groups
  BY <1>1, <1>2 DEF Inv, TypeOK
<1>7. closed' = closed /\ closed \subseteq Users /\ mailed' = mailed /\ mailed \subseteq Codes
      /\ invited' = invited
  BY <1>1 DEF Inv, TypeOK
<1>8. QED
  BY <1>1, <1>2, <1>3, <1>4, <1>5, <1>6, <1>7, RemovalKeepsInv

LEMMA DeleteUserKeepsInv ==
  ASSUME Inv, NEW r \in Requests, DeleteUser(r)
  PROVE  Inv'
<1>1. pc[r] = "deleteUser" /\ UNCHANGED <<permission, removed, permissionGroups, account, liveGroups,
        expired, mailed, addressee, local, request, history, counters>>
  BY DEF DeleteUser, At
<1>2. PICK call \in {"done", "failed"} : Goto(r, call)
  BY DEF DeleteUser
<1>3. pc'[r] = call /\ pc[r] \in Calls /\ call \in Ended \union Calls
  BY <1>1, <1>2 DEF Inv, TypeOK, Goto, Calls, Ended
<1>4. Knows(r)'
  BY <1>2, <1>3 DEF Knows, FoundUser, Calls
<1>5. who[r] \in Users
  BY <1>1 DEF Inv, Knows, FoundUser
<1>6. \/ UNCHANGED <<closed, groupUsers, invited>>
      \/ /\ closed' = closed \union {who[r]}
         /\ groupUsers' = {link \in groupUsers : link[2] # who[r]}
         /\ invited' = {i \in invited : i[1] # who[r]}
  BY DEF DeleteUser
<1>7. /\ groupUsers' \subseteq groupUsers /\ invited' \subseteq invited
      /\ closed \subseteq closed' /\ closed' \subseteq Users
      /\ \A link \in groupUsers' : link[2] \notin closed' \ closed
      /\ \A i \in invited' : i[1] \notin closed' \ closed
  BY <1>5, <1>6 DEF Inv, TypeOK
<1>8. \A link \in groupUsers' : link[1] \in liveGroups'
  BY <1>1, <1>7 DEF Inv, TypeOK, KeysHold
<1>9. QED
  BY <1>1, <1>2, <1>3, <1>4, <1>7, <1>8, RemovalKeepsInv DEF Inv, TypeOK, history

LEMMA MailInvitationKeepsInv ==
  ASSUME Inv, NEW r \in Requests, MailInvitation(r)
  PROVE  Inv'
<1>1. pc[r] = "mail" /\ mailed' = mailed \union {code[r]}
      /\ UNCHANGED <<accessVars, account, closed, liveGroups, invited, expired, addressee, local,
                     request, history, counters>>
  BY DEF MailInvitation, At
<1>2. PICK call \in {"done", "failed"} : Goto(r, call)
  BY DEF MailInvitation
<1>3. pc'[r] = call /\ pc[r] \in Calls /\ call \in Ended \union Calls
  BY <1>1, <1>2 DEF Inv, TypeOK, Goto, Calls, Ended
<1>4. Knows(r)'
  BY <1>2, <1>3 DEF Knows, FoundUser, Calls
<1>5. code[r] \in Codes
  BY <1>1 DEF Inv, Knows
<1>6. mailed \subseteq mailed' /\ mailed' \subseteq Codes
  BY <1>1, <1>5 DEF Inv, TypeOK
<1>7. \A link \in groupUsers' : link[1] \in liveGroups'
  BY <1>1 DEF Inv, TypeOK, KeysHold, accessVars
<1>8. QED
  BY <1>1, <1>2, <1>3, <1>4, <1>6, <1>7, RemovalKeepsInv DEF Inv, TypeOK, accessVars, history

(***************************************************************************)
(* Saves of a user, alone or with an invitation.                           *)
(***************************************************************************)
LEMMA UserSaveKeepsInv ==
  ASSUME Inv, NEW r \in Requests, NEW call \in Ended \union Calls, Goto(r, call),
         FoundUser(r), NEW status \in {"active", "inactive"}, SaveUserCopy(who[r], status),
         UNCHANGED <<accessVars, liveGroups, invited, expired, mailed, addressee, local, request,
                     history, counters>>,
         call \in Calls => call \in PlacesOf(op[r]) /\ call \in {"mail", "dropCode"},
         call = "mail" => code[r] \in Codes,
         call = "dropCode" => pc[r] \in Calls
  PROVE  Inv'
<1>1. Knows(r) /\ who[r] \in Users /\ account[who[r]] # NoAccount
  BY DEF Inv, Knows
<1>2. /\ account' \in [Users -> Account \union {NoAccount}] /\ closed' \subseteq Users
      /\ closed' \subseteq closed
      /\ \A v \in Users : account[v] # NoAccount => account'[v] # NoAccount
  BY <1>1, SavedUserIsThere DEF Inv
<1>3. KeysHold'
  BY <1>2 DEF Inv, TypeOK, KeysHold, HasAccount, AccessTypeOK, accessVars
<1>4. TableTypes'
  BY <1>2, <1>3 DEF Inv, TypeOK, TableTypes, AccessTypeOK, accessVars, InvitedAreAddressed
<1>5. LocalTypes' /\ Apart(r)
  BY DEF Inv, TypeOK, LocalTypes, Apart, request, local, Goto
<1>6. TypeOK' /\ InvitedAreAddressed'
  BY <1>4, <1>5, TypesTogether DEF Inv, TypeOK, history
<1>7. TablesGrow
  BY <1>2 DEF TablesGrow
<1>8. pc'[r] = call /\ UNCHANGED <<op, who, code, mailed, addressee>>
  BY DEF Inv, TypeOK, request, local, Goto
<1>9. op[r] # "remove" \/ call \notin Calls
  BY DEF PlacesOf
<1>10. Knows(r)'
  BY <1>1, <1>2, <1>8, <1>9 DEF Knows, FoundUser, PlacesOf, Calls
<1>11. QED
  BY <1>5, <1>6, <1>7, <1>10, StepKeepsInv

LEMMA SaveConfirmationKeepsInv ==
  ASSUME Inv, NEW r \in Requests, SaveConfirmation(r)
  PROVE  Inv'
<1>1. pc[r] = "saveConfirmation" /\ Goto(r, "mail") /\ SaveUserCopy(who[r], "inactive")
      /\ UNCHANGED <<accessVars, liveGroups, invited, expired, mailed, addressee, local, request,
                     history, counters>>
  BY DEF SaveConfirmation, At
<1>2. Knows(r) /\ op[r] = "add" /\ FoundUser(r) /\ code[r] \in Codes
  BY <1>1 DEF Inv, TypeOK, Knows, FoundUser, Calls, PlacesOf, AllOps
<1>3. "mail" \in Ended \union Calls /\ "mail" \in PlacesOf(op[r])
  BY <1>2 DEF Calls, PlacesOf
<1>4. QED
  BY <1>1, <1>2, <1>3, UserSaveKeepsInv

LEMMA SaveUserKeepsInv ==
  ASSUME Inv, NEW r \in Requests, SaveUser(r)
  PROVE  Inv'
<1>1. pc[r] = "saveUser" /\ Goto(r, "dropCode") /\ SaveUserCopy(who[r], "active")
      /\ UNCHANGED <<accessVars, liveGroups, invited, expired, mailed, addressee, local, request,
                     history, counters>>
  BY DEF SaveUser, At
<1>2. Knows(r) /\ op[r] = "verify" /\ FoundUser(r) /\ pc[r] \in Calls
  BY <1>1 DEF Inv, TypeOK, Knows, FoundUser, Calls, PlacesOf, AllOps
<1>3. "dropCode" \in Ended \union Calls /\ "dropCode" \in PlacesOf(op[r])
  BY <1>2 DEF Calls, PlacesOf
<1>4. QED
  BY <1>1, <1>2, <1>3, UserSaveKeepsInv

LEMMA InsertInvitationKeepsInv ==
  ASSUME Inv, NEW r \in Requests, InsertInvitation(r)
  PROVE  Inv'
<1>1. pc[r] = "insertInvitation"
      /\ UNCHANGED <<accessVars, liveGroups, expired, mailed, who, row, mem, already, loaded,
                     request, history, counters>>
  BY DEF InsertInvitation, At
<1>2. Knows(r) /\ op[r] = "add" /\ who[r] \in Users /\ account[who[r]] # NoAccount
  BY <1>1 DEF Inv, TypeOK, Knows, FoundUser, Calls, PlacesOf, AllOps
<1>3. CASE Goto(r, "failed") /\ UNCHANGED <<account, closed, invited, addressee, code>>
  <2>1. LocalTypes' /\ Apart(r)
    BY <1>1, <1>3 DEF Inv, TypeOK, LocalTypes, Apart, request, Goto, Ended
  <2>2. TableTypes'
    BY <1>1, <1>3 DEF Inv, TypeOK, TableTypes, AccessTypeOK, KeysHold, HasAccount, accessVars, InvitedAreAddressed
  <2>3. TypeOK' /\ InvitedAreAddressed'
    BY <1>1, <2>1, <2>2, TypesTogether DEF Inv, TypeOK, history
  <2>4. TablesGrow
    BY <1>1, <1>3 DEF TablesGrow
  <2>5. pc'[r] = "failed"
    BY <1>3 DEF Inv, TypeOK, Goto
  <2>6. Knows(r)'
    BY <2>5 DEF Knows, FoundUser, Calls
  <2>7. QED
    BY <2>1, <2>3, <2>4, <2>6, StepKeepsInv
<1>4. CASE /\ \A i \in invited : i[1] # who[r]
           /\ \E c \in Codes :
                 /\ addressee[c] = NoUser
                 /\ addressee' = [addressee EXCEPT ![c] = who[r]]
                 /\ invited' = invited \union {<<who[r], c>>}
                 /\ code' = [code EXCEPT ![r] = c]
           /\ SaveUserCopy(who[r], "inactive")
           /\ Goto(r, IF row[r] = "found" THEN "load" ELSE "failed")
  <2>1. PICK c \in Codes : /\ addressee[c] = NoUser
                           /\ addressee' = [addressee EXCEPT ![c] = who[r]]
                           /\ invited' = invited \union {<<who[r], c>>}
                           /\ code' = [code EXCEPT ![r] = c]
    BY <1>4
  <2>2. PICK call \in {"load", "failed"} : Goto(r, call)
    BY <1>4
  <2>3. call \in Ended \union Calls /\ pc' = [pc EXCEPT ![r] = call]
    BY <2>2 DEF Ended, Calls, Goto
  <2>4. /\ account' \in [Users -> Account \union {NoAccount}] /\ closed' \subseteq Users
        /\ closed' = closed \ {who[r]}
        /\ \A v \in Users : account[v] # NoAccount => account'[v] # NoAccount
    BY <1>2, <1>4, SavedUserIsThere DEF Inv, SaveUserCopy
  <2>5. LocalTypes' /\ Apart(r)
    BY <1>1, <2>1, <2>3 DEF Inv, TypeOK, LocalTypes, Apart, request
  <2>6. KeysHold'
    <3>1. \A link \in groupUsers' : link[1] \in liveGroups' /\ HasAccount(link[2])'
      BY <1>1, <2>4 DEF Inv, TypeOK, KeysHold, HasAccount, AccessTypeOK, accessVars
    <3>2. \A i \in invited : HasAccount(i[1])'
      BY <2>4 DEF Inv, TypeOK, KeysHold, HasAccount
    <3>3. HasAccount(who[r])'
      BY <1>1, <1>2, <2>4 DEF HasAccount
    <3>4. \A i \in invited' : HasAccount(i[1])'
      BY <1>1, <2>1, <3>2, <3>3 DEF HasAccount
    <3>5. \A i, j \in invited' : i[1] = j[1] => i = j
      BY <1>4, <2>1 DEF Inv, TypeOK, KeysHold
    <3>6. QED
      BY <3>1, <3>4, <3>5 DEF KeysHold
  <2>7. addressee' \in [Codes -> Users \union {NoUser}]
        /\ \A d \in Codes : addressee[d] # NoUser => addressee'[d] = addressee[d]
    BY <1>2, <2>1 DEF Inv, TypeOK
  <2>8. InvitedAreAddressed'
    <3>1. \A i \in invited : i[2] \in Codes /\ addressee[i[2]] = i[1] /\ i[1] \in Users
      BY DEF Inv, TypeOK, InvitedAreAddressed
    <3>2. \A i \in invited : addressee'[i[2]] = i[1]
      BY <2>7, <3>1, MembershipAssumption
    <3>3. addressee'[c] = who[r]
      BY <2>1 DEF Inv, TypeOK
    <3>4. QED
      BY <2>1, <3>2, <3>3 DEF InvitedAreAddressed
  <2>9. TableTypes'
    BY <1>1, <1>2, <2>1, <2>4, <2>6, <2>7, <2>8 DEF Inv, TypeOK, TableTypes, AccessTypeOK, accessVars
  <2>10. TypeOK' /\ InvitedAreAddressed'
    BY <1>1, <2>5, <2>9, TypesTogether DEF Inv, TypeOK, history
  <2>11. TablesGrow
    BY <1>1, <2>4, <2>7 DEF TablesGrow
  <2>12. pc'[r] = call /\ code'[r] \in Codes /\ UNCHANGED <<op, who, mailed>>
    BY <1>1, <2>1, <2>3 DEF Inv, TypeOK, request
  <2>13. Knows(r)'
    BY <1>2, <2>2, <2>4, <2>12 DEF Knows, FoundUser, PlacesOf, Calls
  <2>14. QED
    BY <2>5, <2>10, <2>11, <2>13, StepKeepsInv
<1>5. QED
  BY <1>3, <1>4 DEF InsertInvitation

(***************************************************************************)
(* The save of a group.                                                    *)
(***************************************************************************)
Rejected(r) ==
  \/ row[r] = "none" /\ grp[r] \in liveGroups
  \/ row[r] = "found" /\ mem[r] \ loaded[r] # {} /\ grp[r] \notin liveGroups
  \/ \E u \in mem[r] \ loaded[r] : ~HasAccount(u) \/ <<grp[r], u>> \in groupUsers

LEMMA WriteGroupOutcomes ==
  ASSUME NEW r \in Requests, WriteGroup(r)
  PROVE  /\ pc[r] = "write"
         /\ UNCHANGED <<permission, removed, permissionGroups, account, closed, invited, expired,
                        mailed, addressee, local, request, history, counters>>
         /\ Rejected(r) => Goto(r, "failed") /\ UNCHANGED <<groupUsers, liveGroups>>
         /\ ~Rejected(r) =>
              /\ groupUsers' = (groupUsers \ ({grp[r]} \X (loaded[r] \ mem[r])))
                                  \union ({grp[r]} \X (mem[r] \ loaded[r]))
              /\ liveGroups' = IF row[r] = "none" THEN liveGroups \union {grp[r]} ELSE liveGroups
              /\ Goto(r, IF code[r] = NoCode THEN "done"
                         ELSE IF already[r] = "new" THEN "mail" ELSE "saveConfirmation")
BY DEF WriteGroup, Rejected, At

LEMMA WriteGroupKeepsInv ==
  ASSUME Inv, NEW r \in Requests, WriteGroup(r)
  PROVE  Inv'
<1>1. pc[r] = "write"
      /\ UNCHANGED <<permission, removed, permissionGroups, account, closed, invited, expired,
                     mailed, addressee, local, request, history, counters>>
  BY WriteGroupOutcomes
<1>2. Knows(r) /\ op[r] \in {"add", "remove"} /\ pc[r] \in Calls
      /\ who[r] \in Users /\ account[who[r]] # NoAccount /\ code[r] \in Codes \union {NoCode}
  BY <1>1 DEF Inv, TypeOK, Knows, FoundUser, Calls, PlacesOf, AllOps
<1>3. PICK call \in {"failed", "done", "mail", "saveConfirmation"} :
           Goto(r, call) /\ (call \in {"mail", "saveConfirmation"} => code[r] # NoCode)
  BY WriteGroupOutcomes
<1>4. call \in Ended \union Calls /\ pc' = [pc EXCEPT ![r] = call]
  BY <1>3 DEF Ended, Calls, Goto
<1>5. LocalTypes' /\ Apart(r)
  BY <1>1, <1>4 DEF Inv, TypeOK, LocalTypes, Apart, request, local
<1>6. /\ liveGroups' \subseteq Groups /\ groupUsers' \subseteq Groups \X Users
      /\ \A link \in groupUsers' : link[1] \in liveGroups' /\ HasAccount(link[2])
  <2>1. /\ liveGroups \subseteq Groups /\ groupUsers \subseteq Groups \X Users
        /\ \A link \in groupUsers : link[1] \in liveGroups /\ HasAccount(link[2])
        /\ grp[r] \in Groups /\ mem[r] \subseteq Users /\ row[r] \in {"found", "none"}
    BY DEF Inv, TypeOK, KeysHold, AccessTypeOK
  <2>2. CASE Rejected(r)
    BY <2>1, <2>2, WriteGroupOutcomes
  <2>3. CASE ~Rejected(r)
    <3>1. mem[r] \ loaded[r] # {} => grp[r] \in liveGroups'
      BY <2>1, <2>3, WriteGroupOutcomes DEF Rejected
    <3>2. \A u \in mem[r] \ loaded[r] : HasAccount(u)
      BY <2>3 DEF Rejected
    <3>3. liveGroups \subseteq liveGroups' /\ liveGroups' \subseteq Groups
      BY <2>1, <2>3, WriteGroupOutcomes
    <3>4. \A link \in groupUsers' : \/ link \in groupUsers
                                     \/ link \in {grp[r]} \X (mem[r] \ loaded[r])
      BY <2>3, WriteGroupOutcomes
    <3>5. QED
      BY <2>1, <3>1, <3>2, <3>3, <3>4
  <2>4. QED
    BY <2>2, <2>3
<1>7. KeysHold'
  BY <1>1, <1>6 DEF Inv, TypeOK, KeysHold, HasAccount
<1>8. TableTypes'
  BY <1>1, <1>6, <1>7 DEF Inv, TypeOK, TableTypes, AccessTypeOK, InvitedAreAddressed
<1>9. TypeOK' /\ InvitedAreAddressed'
  BY <1>1, <1>5, <1>8, TypesTogether DEF Inv, TypeOK, history
<1>10. TablesGrow
  BY <1>1 DEF TablesGrow
<1>11. pc'[r] = call /\ UNCHANGED <<op, who, code, account, mailed, addressee>>
  BY <1>1, <1>4 DEF Inv, TypeOK, request, local
<1>12. op[r] = "remove" => call \notin {"mail", "saveConfirmation"}
  BY <1>2, <1>3 DEF Knows
<1>13. Knows(r)'
  BY <1>2, <1>3, <1>11, <1>12 DEF Knows, FoundUser, PlacesOf, Calls
<1>14. QED
  BY <1>5, <1>9, <1>10, <1>13, StepKeepsInv

LEMMA ExpireKeepsInv ==
  ASSUME Inv, NEW c \in Codes, Expire(c)
  PROVE  Inv'
<1>1. expired' = expired \union {c}
      /\ UNCHANGED <<accessVars, account, closed, liveGroups, invited, mailed, addressee, pc, local,
                     request, history, counters>>
  BY DEF Expire
<1>2. TypeOK'
  BY <1>1 DEF Inv, TypeOK, accessVars, AccessTypeOK, KeysHold, HasAccount, local, request, history, counters
<1>3. InvitedAreAddressed' /\ TablesGrow
  BY <1>1 DEF Inv, InvitedAreAddressed, TablesGrow
<1>4. \A x \in Requests : Knows(x)'
  BY <1>1, <1>3, KnowsStays DEF Inv, local, request
<1>5. QED
  BY <1>2, <1>3, <1>4 DEF Inv

LEMMA StutterKeepsInv == Inv /\ UNCHANGED vars => Inv'
<1> SUFFICES ASSUME Inv, UNCHANGED vars PROVE Inv'
  OBVIOUS
<1>1. TypeOK'
  BY DEF Inv, vars, TypeOK, accessVars, tables, local, request, history, counters, AccessTypeOK,
         KeysHold, HasAccount
<1>2. InvitedAreAddressed' /\ TablesGrow
  BY DEF Inv, vars, tables, InvitedAreAddressed, TablesGrow
<1>3. \A x \in Requests : Knows(x)'
  BY <1>2, KnowsStays DEF Inv, vars, local, request
<1>4. QED
  BY <1>1, <1>2, <1>3 DEF Inv

LEMMA NextKeepsInv == Inv /\ [Next]_vars => Inv'
<1> SUFFICES ASSUME Inv, [Next]_vars PROVE Inv'
  OBVIOUS
<1>1. ASSUME NEW r \in Requests, Start(r) PROVE Inv'
  BY <1>1, StartKeepsInv
<1>2. ASSUME NEW r \in Requests, Step(r) PROVE Inv'
  BY <1>2, FindGroupKeepsInv, FindUserKeepsInv, CreateAccountKeepsInv, DropInvitationKeepsInv,
     InsertInvitationKeepsInv, LoadGroupKeepsInv, WriteGroupKeepsInv, SaveConfirmationKeepsInv,
     MailInvitationKeepsInv, RemoveGroupKeepsInv, DeleteUserKeepsInv, FindCodeKeepsInv,
     ReadUserKeepsInv, SaveUserKeepsInv, DropCodeKeepsInv DEF Step
<1>3. ASSUME NEW r \in Requests, Fail(r) PROVE Inv'
  BY <1>3, FailKeepsInv
<1>4. ASSUME NEW c \in Codes, Expire(c) PROVE Inv'
  BY <1>4, ExpireKeepsInv
<1>5. CASE UNCHANGED vars
  BY <1>5, StutterKeepsInv
<1>6. QED
  BY <1>1, <1>2, <1>3, <1>4, <1>5 DEF Next

LEMMA InvHolds == Spec => []Inv
<1>1. QED
  BY InitInv, NextKeepsInv, PTL DEF Spec

(***************************************************************************)
(* The tables and memories keep their types, and the foreign keys and the  *)
(* unique key of the invitations hold - for any number of overlapping      *)
(* requests, deletions and failures.                                       *)
(***************************************************************************)
THEOREM MembershipTypeCorrect == Spec => []TypeOK
<1>1. Inv => TypeOK
  BY DEF Inv
<1>2. QED
  BY <1>1, InvHolds, PTL

(***************************************************************************)
(* A deleted group grants nothing, whatever copies of it are saved later.  *)
(***************************************************************************)
THEOREM DeadGroupsNeverGrant == Spec => []DeadGroupsGrantNothing
<1>1. Init => DeadGroupsGrantNothing
  BY DEF Init, DeadGroupsGrantNothing
<1>2. ASSUME DeadGroupsGrantNothing, [Next]_vars
      PROVE  DeadGroupsGrantNothing'
  <2>1. ASSUME UNCHANGED <<permissionGroups, dead>>
        PROVE  DeadGroupsGrantNothing'
    BY <1>2, <2>1 DEF DeadGroupsGrantNothing, PermissionsIn
  <2>2. ASSUME NEW r \in Requests, RemoveGroup(r)
        PROVE  DeadGroupsGrantNothing'
    BY <1>2, <2>2 DEF RemoveGroup, DeadGroupsGrantNothing, PermissionsIn
  <2>3. ASSUME NEW r \in Requests, Start(r)
        PROVE  UNCHANGED <<permissionGroups, dead>>
    BY <2>3 DEF Start, StartAdd, StartRemove, StartDeleteGroup, StartVerify, StartDeleteAccount,
                BeginOnGroup, Begin, accessVars
  <2>4. ASSUME NEW r \in Requests, Step(r), ~RemoveGroup(r)
        PROVE  UNCHANGED <<permissionGroups, dead>>
    BY <2>4 DEF Step, FindGroup, FindUser, CreateAccount, DropInvitation, InsertInvitation, LoadGroup,
                WriteGroup, SaveConfirmation, MailInvitation, DeleteUser, FindCode, ReadUser,
                SaveUser, DropCode, accessVars, history
  <2>5. ASSUME NEW r \in Requests, Fail(r)
        PROVE  UNCHANGED <<permissionGroups, dead>>
    BY <2>5 DEF Fail, accessVars, history
  <2>6. ASSUME NEW c \in Codes, Expire(c)
        PROVE  UNCHANGED <<permissionGroups, dead>>
    BY <2>6 DEF Expire, accessVars, history
  <2>7. CASE UNCHANGED vars
    BY <2>1, <2>7 DEF vars, accessVars, history
  <2>8. QED
    BY <1>2, <2>1, <2>2, <2>3, <2>4, <2>5, <2>6, <2>7 DEF Next
<1>3. QED
  BY <1>1, <1>2, PTL DEF Spec

(***************************************************************************)
(* An account becomes active by the link that was mailed for it, and by    *)
(* nothing else.                                                           *)
(***************************************************************************)
OwnLink(u) == \E r \in Requests : op[r] = "verify" /\ code[r] \in mailed /\ addressee[code[r]] = u

LEMMA SaveUserByOwnLink ==
  ASSUME Inv, NEW r \in Requests, SaveUser(r), NEW u \in Users,
         account[u] # NoAccount /\ account[u].status = "inactive" /\ account'[u].status = "active"
  PROVE  OwnLink(u)
<1>1. pc[r] = "saveUser" /\ SaveUserCopy(who[r], "active")
  BY DEF SaveUser, At
<1>2. Knows(r) /\ FoundUser(r) /\ op[r] = "verify" /\ pc[r] \in Calls
  BY <1>1 DEF Inv, TypeOK, Knows, FoundUser, Calls, PlacesOf, AllOps
<1>3. who[r] \in Users /\ code[r] \in mailed /\ addressee[code[r]] = who[r]
  BY <1>1, <1>2 DEF Knows
<1>4. u = who[r]
  BY <1>1, <1>3 DEF SaveUserCopy, Inv, TypeOK
<1>5. QED
  BY <1>2, <1>3, <1>4 DEF OwnLink

LEMMA NobodyElseActivates ==
  ASSUME Inv, [Next]_vars, \A r \in Requests : ~SaveUser(r), NEW u \in Users, account[u] # NoAccount
  PROVE  account'[u] = account[u] \/ account'[u].status = "inactive"
<1>1. ASSUME NEW r \in Requests, Start(r)
      PROVE  account' = account
  BY <1>1 DEF Start, StartAdd, StartRemove, StartDeleteGroup, StartVerify, StartDeleteAccount,
              BeginOnGroup, Begin, tables
<1>2. ASSUME NEW r \in Requests, CreateAccount(r)
      PROVE  account'[u] = account[u]
  BY <1>2 DEF CreateAccount, Inv, TypeOK
<1>3. ASSUME NEW r \in Requests, FoundUser(r), SaveUserCopy(who[r], "inactive")
      PROVE  account'[u] = account[u] \/ account'[u].status = "inactive"
  <2>1. who[r] \in Users /\ account[who[r]] # NoAccount
    BY <1>3 DEF Inv, Knows
  <2>2. QED
    BY <1>3, <2>1, SavedUserIsThere DEF Inv
<1>4. ASSUME NEW r \in Requests, InsertInvitation(r) \/ SaveConfirmation(r)
      PROVE  account'[u] = account[u] \/ account'[u].status = "inactive"
  <2>1. FoundUser(r)
    BY <1>4 DEF InsertInvitation, SaveConfirmation, At, FoundUser
  <2>2. SaveUserCopy(who[r], "inactive") \/ account' = account
    BY <1>4 DEF InsertInvitation, SaveConfirmation
  <2>3. QED
    BY <1>3, <2>1, <2>2
<1>5. ASSUME NEW r \in Requests, Step(r), ~CreateAccount(r), ~InsertInvitation(r), ~SaveConfirmation(r)
      PROVE  account' = account
  BY <1>5 DEF Step, FindGroup, FindUser, DropInvitation, LoadGroup, WriteGroup, MailInvitation,
              RemoveGroup, DeleteUser, FindCode, ReadUser, DropCode, tables
<1>6. ASSUME NEW r \in Requests, Fail(r)
      PROVE  account' = account
  BY <1>6 DEF Fail, tables
<1>7. ASSUME NEW c \in Codes, Expire(c)
      PROVE  account' = account
  BY <1>7 DEF Expire
<1>8. CASE UNCHANGED vars
  BY <1>8 DEF vars, tables
<1>9. QED
  BY <1>1, <1>2, <1>4, <1>5, <1>6, <1>7, <1>8 DEF Next

THEOREM AccountsActivatedByOwnLink == Spec => ActivatedByOwnLink
<1>1. ASSUME Inv, [Next]_vars
      PROVE  [\A u \in Users :
                account[u] # NoAccount /\ account[u].status = "inactive" /\ account'[u].status = "active"
                  => \E r \in Requests : /\ op[r] = "verify" /\ code[r] \in mailed
                                        /\ addressee[code[r]] = u]_vars
  <2>1. SUFFICES ASSUME NEW u \in Users, account[u] # NoAccount,
                        account[u].status = "inactive", account'[u].status = "active"
                 PROVE  OwnLink(u)
    BY DEF OwnLink
  <2>2. "inactive" # "active"
    OBVIOUS
  <2>3. PICK r \in Requests : SaveUser(r)
    BY <1>1, <2>1, <2>2, NobodyElseActivates
  <2>4. QED
    BY <1>1, <2>1, <2>3, SaveUserByOwnLink
<1>2. QED
  BY <1>1, InvHolds, PTL DEF Spec, ActivatedByOwnLink
-----------------------------------------------------------------------------
(***************************************************************************)
(* While no two requests were ever in flight at once, a request knows what *)
(* the tables say of its user and its group.                               *)
(***************************************************************************)
Critical == {"load", "write", "saveConfirmation", "mail"}

LEMMA StepKeepsOneAtATime ==
  ASSUME Inv, OneAtATime, NEW r \in Requests, pc[r] \in Calls, NEW call, Goto(r, call),
         UNCHANGED <<op, overlapped>>,
         ~overlapped /\ op[r] = "add" /\ call \in Critical => AddKnows(r)',
         ~overlapped /\ op[r] = "remove" /\ call \in Critical => RemoveKnows(r)'
  PROVE  OneAtATime'
<1> SUFFICES ASSUME ~overlapped PROVE OneAtATime'
  BY DEF OneAtATime
<1>1. \A x \in Requests \ {r} : pc[x] \notin Calls
  BY DEF OneAtATime
<1>2. pc'[r] = call /\ \A x \in Requests \ {r} : pc'[x] \notin Calls
  BY <1>1 DEF Goto, Inv, TypeOK
<1>3. op[r] = "add" => AddKnows(r)'
  BY <1>2 DEF AddKnows, Critical
<1>4. op[r] = "remove" => RemoveKnows(r)'
  BY <1>2 DEF RemoveKnows, Critical
<1>5. QED
  BY <1>2, <1>3, <1>4 DEF OneAtATime

LEMMA StartKeepsOneAtATime ==
  ASSUME Inv, OneAtATime, NEW r \in Requests, Start(r)
  PROVE  OneAtATime'
<1>1. PICK endpoint \in Ops, call \in {"findGroup", "findUser", "findCode", "deleteUser"} :
           Begin(r, endpoint, call)
  BY DEF Start, StartAdd, StartRemove, StartDeleteGroup, StartVerify, StartDeleteAccount,
         BeginOnGroup, Begin
<1> SUFFICES ASSUME ~overlapped' PROVE OneAtATime'
  BY DEF OneAtATime
<1>2. \A q \in Requests : pc[q] \notin Calls
  BY <1>1 DEF Begin
<1>3. pc'[r] = call /\ \A q \in Requests \ {r} : pc'[q] \notin Calls
  BY <1>1, <1>2 DEF Begin, Goto, Inv, TypeOK
<1>4. AddKnows(r)' /\ RemoveKnows(r)'
  BY <1>1, <1>3 DEF AddKnows, RemoveKnows
<1>5. QED
  BY <1>3, <1>4 DEF OneAtATime

LEMMA FindGroupKeepsOneAtATime ==
  ASSUME Inv, OneAtATime, NEW r \in Requests, FindGroup(r)
  PROVE  OneAtATime'
<1>1. pc[r] \in Calls /\ UNCHANGED <<op, grp, overlapped>>
  BY DEF FindGroup, At, Calls, request, counters
<1>2. PICK call \in {"findUser", "failed", "load", "removeGroup"} :
           /\ Goto(r, call)
           /\ call = "load" =>
                /\ op[r] = "remove"
                /\ ~(grp[r] \in MainGroups /\ \A u, v \in MembersOf(grp[r]) : u = v)
  BY DEF FindGroup
<1>3. mem'[r] = MembersOf(grp[r]) /\ pc'[r] = call
  BY <1>2 DEF FindGroup, Goto, Inv, TypeOK
<1>4. call = "load" => op[r] = "remove" /\ RemoveKnows(r)'
  BY <1>1, <1>2, <1>3 DEF RemoveKnows, Several
<1>5. call \in Critical => call = "load"
  BY <1>2 DEF Critical
<1>6. QED
  BY <1>1, <1>2, <1>4, <1>5, StepKeepsOneAtATime

LEMMA FindUserKeepsOneAtATime ==
  ASSUME Inv, OneAtATime, NEW r \in Requests, FindUser(r)
  PROVE  OneAtATime'
<1>1. pc[r] \in Calls /\ pc[r] = "findUser" /\ UNCHANGED <<op, overlapped, account, code>>
  BY DEF FindUser, At, Calls, request, counters, tables
<1>2. Knows(r) /\ code[r] = NoCode
  BY <1>1 DEF Inv, Knows
<1>3. CASE Goto(r, IF op[r] = "add" THEN "createAccount" ELSE "failed")
  <2>1. PICK call \in {"createAccount", "failed"} : Goto(r, call)
    BY <1>3
  <2>2. call \notin Critical
    BY <2>1 DEF Critical
  <2>3. QED
    BY <1>1, <2>1, <2>2, StepKeepsOneAtATime
<1>4. ASSUME NEW u \in AccountsOf(email[r]), who' = [who EXCEPT ![r] = u],
             \/ op[r] = "add" /\ AddFound(r, u)
             \/ op[r] = "remove" /\ Goto(r, "findGroup") /\ UNCHANGED already
      PROVE  OneAtATime'
  <2>1. PICK call \in {"dropInvitation", "failed", "load", "findGroup"} :
             /\ Goto(r, call)
             /\ call = "load" => op[r] = "add" /\ account[u].status # "inactive"
    BY <1>4 DEF AddFound
  <2>2. account[u] \in Account /\ account[u].status \in {"active", "inactive"}
    BY DEF AccountsOf, HasAccount, Inv, TypeOK, Account
  <2>3. pc'[r] = call /\ who'[r] = u /\ code'[r] = NoCode /\ account' = account
    BY <1>1, <1>2, <1>4, <2>1 DEF Goto, Inv, TypeOK
  <2>4. call = "load" => AddKnows(r)' /\ op[r] = "add"
    BY <2>1, <2>2, <2>3 DEF AddKnows
  <2>5. call \in Critical => call = "load"
    BY <2>1 DEF Critical
  <2>6. QED
    BY <1>1, <2>1, <2>4, <2>5, StepKeepsOneAtATime
<1>5. QED
  BY <1>3, <1>4 DEF FindUser

LEMMA InsertInvitationKeepsOneAtATime ==
  ASSUME Inv, OneAtATime, NEW r \in Requests, InsertInvitation(r)
  PROVE  OneAtATime'
<1>1. pc[r] \in Calls /\ pc[r] = "insertInvitation" /\ UNCHANGED <<op, overlapped, who>>
  BY DEF InsertInvitation, At, Calls, request, counters
<1>2. op[r] = "add"
  BY <1>1 DEF Inv, TypeOK, Knows, PlacesOf, AllOps
<1>3. PICK call \in {"load", "failed"} :
           /\ Goto(r, call)
           /\ call = "load" => \E c \in Codes : /\ invited' = invited \union {<<who[r], c>>}
                                              /\ code' = [code EXCEPT ![r] = c]
  BY DEF InsertInvitation
<1>4. pc'[r] = call
  BY <1>3 DEF Goto, Inv, TypeOK
<1>5. call = "load" => code'[r] # NoCode /\ <<who'[r], code'[r]>> \in invited'
  BY <1>1, <1>3, MembershipAssumption DEF Inv, TypeOK
<1>6. call = "load" => AddKnows(r)'
  BY <1>4, <1>5 DEF AddKnows
<1>7. call \in Critical => call = "load"
  BY <1>3 DEF Critical
<1>8. QED
  BY <1>1, <1>2, <1>3, <1>6, <1>7, StepKeepsOneAtATime

LEMMA LoadGroupKeepsOneAtATime ==
  ASSUME Inv, OneAtATime, NEW r \in Requests, LoadGroup(r)
  PROVE  OneAtATime'
<1>1. pc[r] \in Calls /\ pc[r] = "load" /\ Goto(r, "write")
      /\ UNCHANGED <<op, grp, overlapped, who, code, account, invited, groupUsers>>
  BY DEF LoadGroup, At, Calls, request, counters, tables, accessVars
<1>2. op[r] \in {"add", "remove"}
  BY <1>1 DEF Inv, TypeOK, Knows, PlacesOf, AllOps
<1>3. PICK users \in UsersAfter(r) : mem' = [mem EXCEPT ![r] = users]
  BY DEF LoadGroup
<1>4. pc'[r] = "write" /\ mem'[r] = users /\ loaded'[r] = MembersOf(grp[r])
  BY <1>1, <1>3 DEF LoadGroup, Goto, Inv, TypeOK
<1>5. MembersOf(grp[r])' = MembersOf(grp[r])
  BY <1>1 DEF MembersOf
<1>6. ASSUME ~overlapped, op[r] = "add"
      PROVE  AddKnows(r)'
  <2>1. AddKnows(r)
    BY <1>1, <1>6 DEF OneAtATime
  <2>2. who[r] \in users
    BY <1>3, <1>6 DEF UsersAfter
  <2>3. QED
    BY <1>1, <1>4, <1>5, <2>1, <2>2 DEF AddKnows
<1>7. ASSUME ~overlapped, op[r] = "remove"
      PROVE  RemoveKnows(r)'
  <2>1. RemoveKnows(r)
    BY <1>1, <1>7 DEF OneAtATime
  <2>2. Several(mem[r]) => users # {}
    BY <1>3, <1>7 DEF UsersAfter, Several
  <2>3. QED
    BY <1>1, <1>4, <1>5, <2>1, <2>2 DEF RemoveKnows
<1>8. QED
  BY <1>1, <1>6, <1>7, StepKeepsOneAtATime

(***************************************************************************)
(* With links read when nobody else was at work, the save leaves the group *)
(* with the users of the copy.                                             *)
(***************************************************************************)
LEMMA SavedGroupHasItsUsers ==
  ASSUME Inv, NEW r \in Requests, WriteGroup(r), ~Rejected(r), loaded[r] = MembersOf(grp[r])
  PROVE  \A u \in mem[r] : <<grp[r], u>> \in groupUsers'
<1>1. SUFFICES ASSUME NEW u \in mem[r]
               PROVE  <<grp[r], u>> \in groupUsers'
  OBVIOUS
<1>2. groupUsers' = (groupUsers \ ({grp[r]} \X (loaded[r] \ mem[r])))
                      \union ({grp[r]} \X (mem[r] \ loaded[r]))
  BY WriteGroupOutcomes
<1>3. CASE u \in loaded[r]
  BY <1>1, <1>2, <1>3 DEF MembersOf
<1>4. CASE u \notin loaded[r]
  BY <1>1, <1>2, <1>4
<1>5. QED
  BY <1>3, <1>4

LEMMA WriteGroupKeepsOneAtATime ==
  ASSUME Inv, OneAtATime, NEW r \in Requests, WriteGroup(r)
  PROVE  OneAtATime'
<1>1. pc[r] \in Calls /\ pc[r] = "write" /\ UNCHANGED <<op, grp, overlapped, who, code, invited>>
  BY WriteGroupOutcomes DEF Calls, request, counters, local
<1>2. op[r] \in {"add", "remove"} /\ (op[r] = "remove" => code[r] = NoCode)
  BY <1>1 DEF Inv, TypeOK, Knows, PlacesOf, AllOps
<1>3. PICK call \in {"failed", "done", "mail", "saveConfirmation"} :
           /\ Goto(r, call)
           /\ call \in {"mail", "saveConfirmation"} => code[r] # NoCode /\ ~Rejected(r)
  BY WriteGroupOutcomes
<1>4. pc'[r] = call
  BY <1>3 DEF Goto, Inv, TypeOK
<1>5. ASSUME ~overlapped, call \in Critical, op[r] = "add"
      PROVE  AddKnows(r)'
  <2>1. AddKnows(r) /\ code[r] # NoCode /\ ~Rejected(r)
    BY <1>1, <1>3, <1>5 DEF OneAtATime, Critical
  <2>2. <<grp[r], who[r]>> \in groupUsers' /\ <<who[r], code[r]>> \in invited
    BY <1>1, <2>1, SavedGroupHasItsUsers DEF AddKnows
  <2>3. QED
    BY <1>1, <1>3, <1>4, <2>2 DEF AddKnows
<1>6. call \in Critical => op[r] = "add"
  BY <1>2, <1>3 DEF Critical
<1>7. QED
  BY <1>1, <1>3, <1>5, <1>6, StepKeepsOneAtATime

LEMMA SaveConfirmationKeepsOneAtATime ==
  ASSUME Inv, OneAtATime, NEW r \in Requests, SaveConfirmation(r)
  PROVE  OneAtATime'
<1>1. pc[r] \in Calls /\ pc[r] = "saveConfirmation" /\ Goto(r, "mail")
      /\ UNCHANGED <<op, grp, overlapped, who, code, invited, groupUsers>>
  BY DEF SaveConfirmation, At, Calls, request, counters, local, accessVars
<1>2. op[r] = "add"
  BY <1>1 DEF Inv, TypeOK, Knows, PlacesOf, AllOps
<1>3. pc'[r] = "mail"
  BY <1>1 DEF Goto, Inv, TypeOK
<1>4. ~overlapped => AddKnows(r)'
  BY <1>1, <1>2, <1>3 DEF OneAtATime, AddKnows
<1>5. QED
  BY <1>1, <1>2, <1>4, StepKeepsOneAtATime

\* The other calls lead to none that needs to know.
LEMMA OtherStepsKeepOneAtATime ==
  ASSUME Inv, OneAtATime, NEW r \in Requests,
         \/ CreateAccount(r) \/ DropInvitation(r) \/ MailInvitation(r) \/ RemoveGroup(r)
         \/ DeleteUser(r) \/ FindCode(r) \/ ReadUser(r) \/ SaveUser(r) \/ DropCode(r) \/ Fail(r)
  PROVE  OneAtATime'
<1>1. pc[r] \in Calls /\ UNCHANGED <<op, overlapped>>
  BY DEF CreateAccount, DropInvitation, MailInvitation, RemoveGroup, DeleteUser, FindCode, ReadUser,
         SaveUser, DropCode, Fail, At, Calls, request, counters
<1>2. PICK call \in {"dropInvitation", "insertInvitation", "done", "failed", "readUser", "saveUser",
                     "dropCode"} : Goto(r, call)
  BY DEF CreateAccount, DropInvitation, MailInvitation, RemoveGroup, DeleteUser, FindCode, ReadUser,
         SaveUser, DropCode, Fail
<1>3. call \notin Critical
  BY <1>2 DEF Critical
<1>4. QED
  BY <1>1, <1>2, <1>3, StepKeepsOneAtATime

LEMMA NextKeepsOneAtATime == Inv /\ OneAtATime /\ [Next]_vars => OneAtATime'
<1> SUFFICES ASSUME Inv, OneAtATime, [Next]_vars PROVE OneAtATime'
  OBVIOUS
<1>1. ASSUME NEW r \in Requests, Start(r) PROVE OneAtATime'
  BY <1>1, StartKeepsOneAtATime
<1>2. ASSUME NEW r \in Requests, Step(r) \/ Fail(r) PROVE OneAtATime'
  BY <1>2, FindGroupKeepsOneAtATime, FindUserKeepsOneAtATime, InsertInvitationKeepsOneAtATime,
     LoadGroupKeepsOneAtATime, WriteGroupKeepsOneAtATime, SaveConfirmationKeepsOneAtATime,
     OtherStepsKeepOneAtATime DEF Step
<1>3. ASSUME UNCHANGED <<pc, op, grp, who, code, mem, loaded, invited, groupUsers, account, overlapped>>
      PROVE  OneAtATime'
  BY <1>3 DEF OneAtATime, AddKnows, RemoveKnows, MembersOf
<1>4. ASSUME NEW c \in Codes, Expire(c) PROVE OneAtATime'
  BY <1>3, <1>4 DEF Expire, local, request, counters, accessVars
<1>5. CASE UNCHANGED vars
  BY <1>3, <1>5 DEF vars, local, request, counters, accessVars, tables
<1>6. QED
  BY <1>1, <1>2, <1>4, <1>5 DEF Next

LEMMA OneAtATimeHolds == Spec => [](Inv /\ OneAtATime)
<1>1. Init => OneAtATime
  BY DEF Init, OneAtATime, Calls
<1>2. QED
  BY <1>1, InitInv, NextKeepsInv, NextKeepsOneAtATime, PTL DEF Spec

(***************************************************************************)
(* The calls after which a request is answered.                            *)
(***************************************************************************)
LEMMA AnsweringCalls ==
  ASSUME Inv, [Next]_vars, NEW r \in Requests, pc[r] # "done", pc'[r] = "done"
  PROVE  \/ WriteGroup(r) \/ MailInvitation(r) \/ RemoveGroup(r) \/ DeleteUser(r) \/ DropCode(r)
<1>1. ASSUME NEW q \in Requests, Start(q) \/ Step(q) \/ Fail(q)
      PROVE  \E call : Goto(q, call)
  BY <1>1 DEF Start, StartAdd, StartRemove, StartDeleteGroup, StartVerify, StartDeleteAccount,
              BeginOnGroup, Begin, Step, FindGroup, FindUser, AddFound, CreateAccount, DropInvitation,
              InsertInvitation, LoadGroup, WriteGroup, SaveConfirmation, MailInvitation,
              RemoveGroup, DeleteUser, FindCode, ReadUser, SaveUser, DropCode, Fail
<1>2. ASSUME NEW q \in Requests, Start(q) \/ Step(q) \/ Fail(q)
      PROVE  q = r
  BY <1>1, <1>2 DEF Goto, Inv, TypeOK
<1>3. ASSUME NEW call, Goto(r, call)
      PROVE  call = "done"
  BY <1>3 DEF Goto, Inv, TypeOK
<1>4. ~Start(r)
  BY <1>3 DEF Start, StartAdd, StartRemove, StartDeleteGroup, StartVerify, StartDeleteAccount,
              BeginOnGroup, Begin
<1>5. ~Fail(r)
  BY <1>3 DEF Fail
<1>6. Step(r) => \/ WriteGroup(r) \/ MailInvitation(r) \/ RemoveGroup(r) \/ DeleteUser(r)
                \/ DropCode(r)
  BY <1>3 DEF Step, FindGroup, FindUser, AddFound, CreateAccount, DropInvitation, InsertInvitation,
              LoadGroup, SaveConfirmation, FindCode, ReadUser, SaveUser
<1>7. pc' # pc
  OBVIOUS
<1>8. \A c \in Codes : ~Expire(c)
  BY <1>7 DEF Expire
<1>9. QED
  BY <1>2, <1>4, <1>5, <1>6, <1>7, <1>8 DEF Next, vars

(***************************************************************************)
(* An addition that nothing overlapped and that is answered took effect,   *)
(* whatever failed before it.                                              *)
(***************************************************************************)
THEOREM AddAlwaysTakesEffect == Spec => AddTakesEffect
<1>1. ASSUME Inv, OneAtATime, [Next]_vars
      PROVE  [\A r \in Requests : Answers(r, "add") /\ ~overlapped =>
                /\ <<grp[r], who[r]>> \in groupUsers'
                /\ account'[who[r]].status = "inactive" =>
                     \E c \in mailed' : <<who[r], c>> \in invited']_vars
  <2>1. SUFFICES ASSUME NEW r \in Requests, Answers(r, "add"), ~overlapped
                 PROVE  /\ <<grp[r], who[r]>> \in groupUsers'
                        /\ account'[who[r]].status = "inactive" =>
                             \E c \in mailed' : <<who[r], c>> \in invited'
    OBVIOUS
  <2>2. op[r] = "add" /\ pc[r] # "done" /\ pc'[r] = "done"
    BY <2>1 DEF Answers
  <2>3. WriteGroup(r) \/ MailInvitation(r) \/ RemoveGroup(r) \/ DeleteUser(r) \/ DropCode(r)
    BY <1>1, <2>2, AnsweringCalls
  <2>4. pc[r] \notin {"removeGroup", "deleteUser", "dropCode"}
    BY <1>1, <2>2 DEF Inv, Knows, Calls, PlacesOf
  <2>5. CASE MailInvitation(r)
    <3>1. pc[r] = "mail" /\ pc[r] \in Calls /\ mailed' = mailed \union {code[r]}
          /\ UNCHANGED <<groupUsers, invited>>
      BY <2>5 DEF MailInvitation, At, Calls, accessVars
    <3>2. AddKnows(r)
      BY <1>1, <2>1, <2>2, <3>1 DEF OneAtATime
    <3>3. QED
      BY <3>1, <3>2 DEF AddKnows
  <2>6. CASE WriteGroup(r)
    <3>1. pc[r] = "write" /\ pc[r] \in Calls /\ account' = account
      BY <2>6, WriteGroupOutcomes DEF Calls
    <3>2. ~Rejected(r) /\ code[r] = NoCode
      <4>1. ASSUME NEW call, Goto(r, call) PROVE call = "done"
        BY <1>1, <2>2, <4>1 DEF Goto, Inv, TypeOK
      <4>2. QED
        BY <2>6, <4>1, WriteGroupOutcomes
    <3>3. AddKnows(r)
      BY <1>1, <2>1, <2>2, <3>1 DEF OneAtATime
    <3>4. <<grp[r], who[r]>> \in groupUsers'
      BY <1>1, <2>6, <3>1, <3>2, <3>3, SavedGroupHasItsUsers DEF AddKnows
    <3>5. account'[who[r]].status = "active"
      BY <3>1, <3>2, <3>3 DEF AddKnows
    <3>6. "active" # "inactive"
      OBVIOUS
    <3>7. QED
      BY <3>4, <3>5, <3>6
  <2>7. QED
    BY <2>3, <2>4, <2>5, <2>6 DEF RemoveGroup, DeleteUser, DropCode, At
<1>2. QED
  BY <1>1, OneAtATimeHolds, PTL DEF Spec, AddTakesEffect

(***************************************************************************)
(* A removal from a main group that nothing overlapped leaves somebody in  *)
(* it.                                                                     *)
(***************************************************************************)
THEOREM RemovalsLeaveSomebody == Spec => RemovalLeavesSomebody
<1>1. ASSUME Inv, OneAtATime, [Next]_vars
      PROVE  [\A r \in Requests : Answers(r, "remove") /\ ~overlapped /\ grp[r] \in MainGroups
                => \E u \in Users : <<grp[r], u>> \in groupUsers']_vars
  <2>1. SUFFICES ASSUME NEW r \in Requests, Answers(r, "remove"), ~overlapped, grp[r] \in MainGroups
                 PROVE  \E u \in Users : <<grp[r], u>> \in groupUsers'
    OBVIOUS
  <2>2. op[r] = "remove" /\ pc[r] # "done" /\ pc'[r] = "done"
    BY <2>1 DEF Answers
  <2>3. WriteGroup(r) \/ MailInvitation(r) \/ RemoveGroup(r) \/ DeleteUser(r) \/ DropCode(r)
    BY <1>1, <2>2, AnsweringCalls
  <2>4. pc[r] \notin {"removeGroup", "deleteUser", "dropCode", "mail"}
    BY <1>1, <2>2 DEF Inv, Knows, Calls, PlacesOf
  <2>5. WriteGroup(r) /\ pc[r] = "write" /\ pc[r] \in Calls
    BY <2>3, <2>4 DEF RemoveGroup, DeleteUser, DropCode, MailInvitation, WriteGroup, At, Calls
  <2>6. ~Rejected(r)
    <3>1. ASSUME NEW call, Goto(r, call) PROVE call = "done"
      BY <1>1, <2>2, <3>1 DEF Goto, Inv, TypeOK
    <3>2. QED
      BY <2>5, <3>1, WriteGroupOutcomes
  <2>7. RemoveKnows(r)
    BY <1>1, <2>1, <2>2, <2>5 DEF OneAtATime
  <2>8. PICK u \in mem[r] : TRUE
    BY <2>1, <2>5, <2>7 DEF RemoveKnows
  <2>9. u \in Users /\ <<grp[r], u>> \in groupUsers'
    BY <1>1, <2>5, <2>6, <2>7, <2>8, SavedGroupHasItsUsers DEF RemoveKnows, Inv, TypeOK
  <2>10. QED
    BY <2>9
<1>2. QED
  BY <1>1, OneAtATimeHolds, PTL DEF Spec, RemovalLeavesSomebody
=============================================================================
