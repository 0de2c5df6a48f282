------------------------- MODULE CredentialsProofs -------------------------
(***************************************************************************)
(* Proofs about Credentials: the types; that the master layer of the       *)
(* secrets survives any number of overlapping requests of clients that     *)
(* protect the connection, whichever passwords they use; that a            *)
(* restoration nothing overlapped can be read; and that one careful client *)
(* always can read all, and finds stored what it was answered for.         *)
(***************************************************************************)
EXTENDS Credentials, TLAPS

LEMMA PlainIsField ==
  ASSUME NEW secret \in Secrets
  PROVE  Plain(secret) \in Field
BY DEF Plain, Field

LEMMA LostIsField == Plain(Lost) \in Field
BY DEF Plain, Field

LEMMA SealIsField ==
  ASSUME NEW field \in Field, NEW password \in Passwords
  PROVE  Seal(field, password) \in Field
BY DEF Seal, Field

LEMMA OpenIsField ==
  ASSUME NEW field \in Field, NEW password
  PROVE  Open(field, password) \in Field
<1>1. CASE IsSealedWith(field, password)
  <2>1. field.seals \in Seq(Passwords) /\ field.seals # <<>>
    BY <1>1 DEF Field, IsSealedWith
  <2>2. Tail(field.seals) \in Seq(Passwords)
    BY <2>1
  <2> QED BY <1>1, <2>2 DEF Open, Field
<1>2. CASE ~IsSealedWith(field, password)
  BY <1>2, LostIsField DEF Open
<1> QED BY <1>1, <1>2

\* What sealing and opening leave of a connection.
LEMMA EncryptedIsConnection ==
  ASSUME NEW c \in Connection, NEW password \in Passwords
  PROVE  encryptConnectionCredentials(c, password) \in Connection
<1>1. [x \in Fields |-> Seal(c.fields[x], password)] \in [Fields -> Field]
  BY SealIsField DEF Connection
<1> QED BY <1>1 DEF encryptConnectionCredentials, Connection

LEMMA DecryptedIsConnection ==
  ASSUME NEW c \in Connection, NEW password
  PROVE  decryptConnectionCredentials(c, password) \in Connection
<1>1. [x \in Fields |-> Open(c.fields[x], password)] \in [Fields -> Field]
  BY OpenIsField DEF Connection
<1> QED BY <1>1 DEF decryptConnectionCredentials, Connection

LEMMA CreatedIsConnection ==
  ASSUME NEW p \in InitialPasswords, NEW s \in Secrets, NEW k \in SigningKeys
  PROVE  Created(p, s, k) \in Connection
<1> DEFINE plain == [masterEncryption |-> p # NoPassword,
                     fields |-> [x \in Fields |-> Plain(s)],
                     saved_table_info |-> 0, signing_key |-> k]
<1>1. plain \in Connection
  BY PlainIsField, CredentialsAssumption DEF Connection
<1>2. CASE p = NoPassword
  BY <1>1, <1>2 DEF Created
<1>3. CASE p # NoPassword
  <2>1. p \in Passwords
    BY <1>3, CredentialsAssumption
  <2>2. encryptConnectionCredentials(plain, p) \in Connection
    BY <1>1, <2>1, EncryptedIsConnection
  <2> QED BY <1>3, <2>2 DEF Created
<1> QED BY <1>2, <1>3

LEMMA UpdatedIsConnection ==
  ASSUME NEW m \in Connection, NEW s \in Connection, row \in Connection
  PROVE  Updated(m, s) \in Connection
BY DEF Updated, Differing, Connection

LEMMA WantFields ==
  ASSUME NEW w \in Wants
  PROVE  /\ w.op \in Ops /\ w.header \in Passwords \union {NoPassword}
         /\ w.newPassword \in Passwords /\ w.flag \in {"true", "false", "absent"}
         /\ w.gives \subseteq Fields /\ w.secret \in Secrets
BY CredentialsAssumption DEF Want
-----------------------------------------------------------------------------
\* A request that is past its find holds a connection.
HoldsConnection ==
  \A r \in Requests : pc[r] \in {"change", "load", "write"} => mem[r] \in Connection

TypeInv == TypeOK /\ HoldsConnection

LEMMA InitTypes == Init => TypeInv
<1> SUFFICES ASSUME Init PROVE TypeInv
  OBVIOUS
<1>1. row \in Connection
  BY CreatedIsConnection DEF Init
<1>2. (CHOOSE w \in Wants : TRUE) \in Wants
  BY CredentialsAssumption
<1>3. want \in [Requests -> Wants]
  BY <1>2 DEF Init
<1>4. issued \in 0..MaxRequests /\ faults \in 0..MaxFaults
  BY CredentialsAssumption DEF Init
<1>5. TypeOK
  BY <1>1, <1>3, <1>4 DEF Init, TypeOK, Ended
<1>6. HoldsConnection
  BY DEF Init, HoldsConnection
<1> QED BY <1>5, <1>6 DEF TypeInv

\* A request that ends, and one that changes its entity.
LEMMA EndKeepsTypes ==
  ASSUME TypeInv, NEW r \in Requests, NEW how \in Ended, End(r, how)
  PROVE  /\ pc' \in [Requests -> Ended \union Calls]
         /\ mem' \in [Requests -> Connection \union {Gone}]
         /\ snap' \in [Requests -> Connection \union {Gone}]
         /\ HoldsConnection'
<1>1. pc' \in [Requests -> Ended \union Calls]
  BY DEF TypeInv, TypeOK, End, Goto
<1>2. mem' \in [Requests -> Connection \union {Gone}]
  BY DEF TypeInv, TypeOK, End
<1>3. snap' \in [Requests -> Connection \union {Gone}]
  BY DEF TypeInv, TypeOK, End
<1>4. ASSUME NEW q \in Requests, pc'[q] \in {"change", "load", "write"}
      PROVE  mem'[q] \in Connection
  <2>1. q # r
    BY <1>4 DEF TypeInv, TypeOK, End, Goto, Ended
  <2>2. pc'[q] = pc[q] /\ mem'[q] = mem[q]
    BY <2>1 DEF TypeInv, TypeOK, End, Goto
  <2> QED BY <1>4, <2>2 DEF TypeInv, HoldsConnection
<1>5. HoldsConnection'
  BY <1>4 DEF HoldsConnection
<1> QED BY <1>1, <1>2, <1>3, <1>5

LEMMA ChangeKeepsTypes ==
  ASSUME TypeInv, NEW r \in Requests, NEW op, NEW entity \in Connection, Change(r, op, entity)
  PROVE  TypeInv'
<1>1. pc' \in [Requests -> Ended \union Calls]
  BY DEF TypeInv, TypeOK, Change, Goto, Calls
<1>2. mem' \in [Requests -> Connection \union {Gone}]
  BY DEF TypeInv, TypeOK, Change
<1>3. TypeOK'
  BY <1>1, <1>2 DEF TypeInv, TypeOK, Change
<1>4. ASSUME NEW q \in Requests, pc'[q] \in {"change", "load", "write"}
      PROVE  mem'[q] \in Connection
  <2>1. CASE q = r
    BY <2>1 DEF TypeInv, TypeOK, Change
  <2>2. CASE q # r
    <3>1. pc'[q] = pc[q] /\ mem'[q] = mem[q]
      BY <2>2 DEF TypeInv, TypeOK, Change, Goto
    <3> QED BY <1>4, <3>1 DEF TypeInv, HoldsConnection
  <2> QED BY <2>1, <2>2
<1>5. HoldsConnection'
  BY <1>4 DEF HoldsConnection
<1> QED BY <1>3, <1>5 DEF TypeInv

\* What the requests make of the entity is a connection again.
LEMMA ChangedIsConnection ==
  ASSUME NEW c \in Connection, NEW w \in Wants
  PROVE  /\ [c EXCEPT !.masterEncryption = FlagAfter(w.flag, @),
                      !.fields = [x \in Fields |-> IF x \in w.gives THEN Plain(w.secret)
                                                   ELSE @[x]]] \in Connection
         /\ [c EXCEPT !.masterEncryption = FlagAfter(w.flag, @),
                      !.fields = [x \in Fields |->
                        IF w.flag = "true" /\ w.header # NoPassword /\ x # "cert"
                        THEN Seal(Plain(w.secret), w.header) ELSE Plain(w.secret)]]
              \in Connection
<1>1. /\ w.secret \in Secrets /\ Plain(w.secret) \in Field
      /\ w.header \in Passwords \union {NoPassword}
  BY WantFields, PlainIsField
<1>2. FlagAfter(w.flag, c.masterEncryption) \in BOOLEAN
  BY DEF FlagAfter, Connection
<1>3. [x \in Fields |-> IF x \in w.gives THEN Plain(w.secret) ELSE c.fields[x]]
        \in [Fields -> Field]
  BY <1>1 DEF Connection
<1>4. ASSUME w.header # NoPassword
      PROVE  Seal(Plain(w.secret), w.header) \in Field
  BY <1>1, <1>4, SealIsField
<1>5. [x \in Fields |-> IF w.flag = "true" /\ w.header # NoPassword /\ x # "cert"
                         THEN Seal(Plain(w.secret), w.header) ELSE Plain(w.secret)]
        \in [Fields -> Field]
  BY <1>1, <1>4
<1>6. [c EXCEPT !.masterEncryption = FlagAfter(w.flag, @),
                !.fields = [x \in Fields |-> IF x \in w.gives THEN Plain(w.secret)
                                             ELSE @[x]]] \in Connection
  BY <1>2, <1>3 DEF Connection
<1>7. [c EXCEPT !.masterEncryption = FlagAfter(w.flag, @),
                !.fields = [x \in Fields |->
                  IF w.flag = "true" /\ w.header # NoPassword /\ x # "cert"
                  THEN Seal(Plain(w.secret), w.header) ELSE Plain(w.secret)]] \in Connection
  BY <1>2, <1>5 DEF Connection
<1> QED BY <1>6, <1>7
-----------------------------------------------------------------------------
LEMMA StartKeepsTypes ==
  ASSUME TypeInv, NEW r \in Requests, NEW w \in Wants, Start(r, w)
  PROVE  TypeInv'
<1>1. pc' \in [Requests -> Ended \union Calls] /\ want' \in [Requests -> Wants]
  BY DEF TypeInv, TypeOK, Start, Goto, Calls
<1>2. issued' \in 0..MaxRequests
  BY CredentialsAssumption DEF TypeInv, TypeOK, Start
<1>3. disturbed' \subseteq Requests
  BY DEF TypeInv, TypeOK, Start
<1>4. TypeOK'
  BY <1>1, <1>2, <1>3 DEF TypeInv, TypeOK, Start
<1>5. ASSUME NEW q \in Requests, pc'[q] \in {"change", "load", "write"}
      PROVE  mem'[q] \in Connection
  <2>1. pc'[q] = pc[q] /\ mem'[q] = mem[q]
    BY <1>5 DEF TypeInv, TypeOK, Start, Goto
  <2> QED BY <1>5, <2>1 DEF TypeInv, HoldsConnection
<1>6. HoldsConnection'
  BY <1>5 DEF HoldsConnection
<1> QED BY <1>4, <1>6 DEF TypeInv

LEMMA FindKeepsTypes ==
  ASSUME TypeInv, NEW r \in Requests, Find(r)
  PROVE  TypeInv'
<1>1. CASE End(r, "failed")
  BY <1>1, EndKeepsTypes DEF TypeInv, TypeOK, Find, Ended
<1> DEFINE found == IF want[r].op # "restore" /\ row.masterEncryption
                       /\ want[r].header # NoPassword
                    THEN decryptConnectionCredentials(row, want[r].header) ELSE row
<1>2. ASSUME row # Gone, mem' = [mem EXCEPT ![r] = found], Goto(r, "change"), UNCHANGED snap
      PROVE  TypeInv'
  <2>1. row \in Connection
    BY <1>2 DEF TypeInv, TypeOK
  <2>2. found \in Connection
    BY <2>1, DecryptedIsConnection
  <2> HIDE DEF found
  <2>3. mem' \in [Requests -> Connection \union {Gone}]
    BY <1>2, <2>2 DEF TypeInv, TypeOK
  <2>4. pc' \in [Requests -> Ended \union Calls]
    BY <1>2 DEF TypeInv, TypeOK, Goto, Calls
  <2>5. TypeOK'
    BY <1>2, <2>3, <2>4 DEF TypeInv, TypeOK, Find
  <2>6. ASSUME NEW q \in Requests, pc'[q] \in {"change", "load", "write"}
        PROVE  mem'[q] \in Connection
    <3>1. CASE q = r
      BY <1>2, <2>2, <3>1 DEF TypeInv, TypeOK
    <3>2. CASE q # r
      <4>1. pc'[q] = pc[q] /\ mem'[q] = mem[q]
        BY <1>2, <3>2 DEF TypeInv, TypeOK, Goto
      <4> QED BY <2>6, <4>1 DEF TypeInv, HoldsConnection
    <3> QED BY <3>1, <3>2
  <2>7. HoldsConnection'
    BY <2>6 DEF HoldsConnection
  <2> QED BY <2>5, <2>7 DEF TypeInv
<1> QED BY <1>1, <1>2 DEF Find

\* The changes of the entity, one by one.
LEMMA ChangesKeepTypes ==
  ASSUME TypeInv, NEW r \in Requests,
         \/ UpdateConnection(r) \/ UpdateMasterPassword(r) \/ RestoreConnection(r)
         \/ CreateProperties(r) \/ SaveTableInfo(r) \/ CreateTableAction(r)
  PROVE  TypeInv'
<1> DEFINE w == want[r]
<1>1. pc[r] = "change"
  BY DEF UpdateConnection, UpdateMasterPassword, RestoreConnection, CreateProperties,
         SaveTableInfo, CreateTableAction, Change, Changing, At
<1>2. mem[r] \in Connection
  BY <1>1 DEF TypeInv, HoldsConnection
<1>3. w \in Wants
  BY DEF TypeInv, TypeOK
<1>4. w.header \in Passwords \union {NoPassword} /\ w.newPassword \in Passwords
  BY <1>3, WantFields
<1>5. CASE UpdateConnection(r)
  <2> DEFINE updated == [mem[r] EXCEPT
                           !.masterEncryption = FlagAfter(w.flag, @),
                           !.fields = [x \in Fields |-> IF x \in w.gives THEN Plain(w.secret)
                                                        ELSE @[x]]]
             sealed == IF updated.masterEncryption /\ w.header # NoPassword
                       THEN encryptConnectionCredentials(updated, w.header) ELSE updated
  <2>1. updated \in Connection
    BY <1>2, <1>3, ChangedIsConnection
  <2>2. Change(r, "update", sealed)
    BY <1>5 DEF UpdateConnection
  <2> HIDE DEF updated
  <2>3. sealed \in Connection
    BY <1>4, <2>1, EncryptedIsConnection
  <2> HIDE DEF sealed
  <2> QED BY <2>2, <2>3, ChangeKeepsTypes
<1>6. CASE UpdateMasterPassword(r)
  BY <1>2, <1>4, <1>6, EncryptedIsConnection, ChangeKeepsTypes DEF UpdateMasterPassword
<1>7. CASE RestoreConnection(r)
  <2> DEFINE restored == [mem[r] EXCEPT
                 !.masterEncryption = FlagAfter(w.flag, @),
                 !.fields = [x \in Fields |->
                   IF w.flag = "true" /\ w.header # NoPassword /\ x # "cert"
                   THEN Seal(Plain(w.secret), w.header) ELSE Plain(w.secret)]]
  <2>1. restored \in Connection
    BY <1>2, <1>3, ChangedIsConnection
  <2>2. Change(r, "restore", restored)
    BY <1>7 DEF RestoreConnection
  <2> HIDE DEF restored
  <2> QED BY <2>1, <2>2, ChangeKeepsTypes
<1>8. CASE CreateProperties(r)
  <2> DEFINE sealed == IF mem[r].masterEncryption /\ w.header # NoPassword
                       THEN encryptConnectionCredentials(mem[r], w.header) ELSE mem[r]
  <2>1. sealed \in Connection
    BY <1>2, <1>4, EncryptedIsConnection
  <2>2. Change(r, "createProperties", sealed)
    BY <1>8 DEF CreateProperties
  <2> HIDE DEF sealed
  <2> QED BY <2>1, <2>2, ChangeKeepsTypes
<1>9. CASE SaveTableInfo(r)
  <2> DEFINE counted == [mem[r] EXCEPT !.saved_table_info = @ + 1]
  <2>1. counted \in Connection
    BY <1>2, <1>9 DEF SaveTableInfo, Connection
  <2>2. Change(r, "findTables", counted)
    BY <1>9 DEF SaveTableInfo
  <2> HIDE DEF counted
  <2> QED BY <2>1, <2>2, ChangeKeepsTypes
<1>10. CASE CreateTableAction(r)
  <2> DEFINE keyed == [mem[r] EXCEPT !.signing_key = TRUE]
  <2>1. keyed \in Connection
    BY <1>2 DEF Connection
  <2>2. Change(r, "createAction", keyed)
    BY <1>10 DEF CreateTableAction
  <2> HIDE DEF keyed
  <2> QED BY <2>1, <2>2, ChangeKeepsTypes
<1> QED BY <1>5, <1>6, <1>7, <1>8, <1>9, <1>10
LEMMA EndingsKeepTypes ==
  ASSUME TypeInv, NEW r \in Requests, EndUnsaved(r) \/ DeleteConnection(r) \/ Fail(r)
  PROVE  TypeInv'
<1>1. PICK how \in Ended : End(r, how)
  BY DEF EndUnsaved, DeleteConnection, Fail, Ended
<1>2. /\ pc' \in [Requests -> Ended \union Calls]
      /\ mem' \in [Requests -> Connection \union {Gone}]
      /\ snap' \in [Requests -> Connection \union {Gone}]
      /\ HoldsConnection'
  BY <1>1, EndKeepsTypes
<1>3. row' \in Connection \union {Gone}
  BY DEF EndUnsaved, DeleteConnection, Fail, TypeInv, TypeOK
<1>4. want' = want /\ disturbed' = disturbed /\ issued' = issued
  BY DEF EndUnsaved, DeleteConnection, Fail
<1>5. faults' \in 0..MaxFaults
  BY CredentialsAssumption DEF EndUnsaved, DeleteConnection, Fail, TypeInv, TypeOK
<1> QED BY <1>2, <1>3, <1>4, <1>5 DEF TypeInv, TypeOK

LEMMA LoadKeepsTypes ==
  ASSUME TypeInv, NEW r \in Requests, LoadRow(r)
  PROVE  TypeInv'
<1>1. pc' \in [Requests -> Ended \union Calls]
  BY DEF TypeInv, TypeOK, LoadRow, Goto, Calls
<1>2. snap' \in [Requests -> Connection \union {Gone}]
  BY DEF TypeInv, TypeOK, LoadRow
<1>3. TypeOK'
  BY <1>1, <1>2 DEF TypeInv, TypeOK, LoadRow
<1>4. ASSUME NEW q \in Requests, pc'[q] \in {"change", "load", "write"}
      PROVE  mem'[q] \in Connection
  <2>1. pc[q] \in {"change", "load", "write"}
    BY <1>4 DEF TypeInv, TypeOK, LoadRow, Goto, At
  <2> QED BY <2>1 DEF LoadRow, TypeInv, HoldsConnection
<1>5. HoldsConnection'
  BY <1>4 DEF HoldsConnection
<1> QED BY <1>3, <1>5 DEF TypeInv

LEMMA WriteKeepsTypes ==
  ASSUME TypeInv, NEW r \in Requests, WriteRow(r)
  PROVE  TypeInv'
<1>1. mem[r] \in Connection
  BY DEF TypeInv, HoldsConnection, WriteRow, At
<1>2. row \in Connection \union {Gone} /\ snap[r] \in Connection \union {Gone}
  BY DEF TypeInv, TypeOK
<1>3. [mem[r] EXCEPT !.signing_key = TRUE] \in Connection
  BY <1>1 DEF Connection
<1>4. ASSUME snap[r] # Gone, row # Gone
      PROVE  Updated(mem[r], snap[r]) \in Connection
  BY <1>1, <1>2, <1>4, UpdatedIsConnection
<1>5. row' \in Connection \union {Gone}
  BY <1>2, <1>3, <1>4 DEF WriteRow
<1>6. PICK how \in Ended : End(r, how)
  BY DEF WriteRow, Ended
<1>7. /\ pc' \in [Requests -> Ended \union Calls]
      /\ mem' \in [Requests -> Connection \union {Gone}]
      /\ snap' \in [Requests -> Connection \union {Gone}]
      /\ HoldsConnection'
  BY <1>6, EndKeepsTypes
<1> QED BY <1>5, <1>7 DEF WriteRow, TypeInv, TypeOK

LEMMA StepKeepsTypes ==
  ASSUME TypeInv, NEW r \in Requests, Step(r)
  PROVE  TypeInv'
BY FindKeepsTypes, ChangesKeepTypes, EndingsKeepTypes, LoadKeepsTypes, WriteKeepsTypes DEF Step

LEMMA NextKeepsTypes == TypeInv /\ [Next]_vars => TypeInv'
<1> SUFFICES ASSUME TypeInv, [Next]_vars PROVE TypeInv'
  OBVIOUS
<1>1. CASE UNCHANGED vars
  BY <1>1 DEF vars, TypeInv, TypeOK, HoldsConnection
<1>2. CASE Next
  BY <1>2, StartKeepsTypes, StepKeepsTypes, EndingsKeepTypes DEF Next
<1> QED BY <1>1, <1>2

(***************************************************************************)
(* The state keeps its types, for any number of requests and any clients:  *)
(* in particular saved_table_info is counted once                          *)
(* (find-tables-in-connection.use.case.ts:79-86, 254).                     *)
(***************************************************************************)
THEOREM TypeCorrect == Spec => []TypeOK
<1>1. TypeInv => TypeOK
  BY DEF TypeInv
<1> QED BY <1>1, InitTypes, NextKeepsTypes, PTL DEF Spec
-----------------------------------------------------------------------------
\* A connection whose secrets are all sealed (or lost).
Protected(c) == c.masterEncryption = TRUE /\ \A x \in Fields : ~IsBare(c.fields[x])

\* The row is protected, a request has read a protected row, and what it is
\* about to save is protected again.
RowProtected == row # Gone => Protected(row)
ReadProtected == \A r \in Requests : pc[r] = "change" => mem[r].masterEncryption = TRUE
SaveProtected == \A r \in Requests : pc[r] \in {"load", "write"} => Protected(mem[r])

ProtectInv == TypeInv /\ RowProtected /\ ReadProtected /\ SaveProtected

LEMMA SealedIsNotBare ==
  ASSUME NEW field \in Field, NEW password \in Passwords
  PROVE  ~IsBare(Seal(field, password))
<1>1. CASE field.value = Lost
  BY <1>1 DEF Seal, IsBare
<1>2. CASE field.value # Lost
  <2>1. field.seals \in Seq(Passwords)
    BY DEF Field
  <2>2. <<password>> \o field.seals # <<>>
    BY <2>1
  <2>3. Seal(field, password).seals = <<password>> \o field.seals
    BY <1>2 DEF Seal, Field
  <2> QED BY <2>2, <2>3 DEF IsBare
<1> QED BY <1>1, <1>2

LEMMA EncryptedIsProtected ==
  ASSUME NEW c \in Connection, c.masterEncryption = TRUE, NEW password \in Passwords
  PROVE  Protected(encryptConnectionCredentials(c, password))
<1> DEFINE e == encryptConnectionCredentials(c, password)
<1>1. e.masterEncryption = TRUE
  BY DEF encryptConnectionCredentials, Connection
<1>2. ASSUME NEW x \in Fields PROVE ~IsBare(e.fields[x])
  <2>1. e.fields[x] = Seal(c.fields[x], password)
    BY DEF encryptConnectionCredentials, Connection
  <2>2. c.fields[x] \in Field
    BY DEF Connection
  <2> QED BY <2>1, <2>2, SealedIsNotBare
<1> QED BY <1>1, <1>2 DEF Protected

LEMMA UpdatedIsProtected ==
  ASSUME NEW m \in Connection, NEW s, Protected(m), Protected(row)
  PROVE  Protected(Updated(m, s))
<1>1. Updated(m, s).fields = m.fields /\ Updated(m, s).masterEncryption = TRUE
  BY DEF Updated, Differing, Protected
<1> QED BY <1>1 DEF Protected
LEMMA ProtectingWant ==
  ASSUME ClientsProtect, NEW w \in Wants
  PROVE  /\ w.header \in Passwords /\ w.header # NoPassword
         /\ w.newPassword \in Passwords
         /\ FlagAfter(w.flag, TRUE) = TRUE
         /\ w.op = "restore" => w.flag = "true" /\ "cert" \notin Fields
         /\ w.op # "findTables" /\ w.op # "createAction"
<1>1. /\ w.header # NoPassword /\ w.flag # "false"
      /\ w.op = "restore" => w.flag = "true" /\ "cert" \notin Fields
      /\ w.op \notin {"findTables", "createAction"}
  BY DEF ClientsProtect
<1>2. /\ w.header \in Passwords \union {NoPassword} /\ w.newPassword \in Passwords
      /\ w.flag \in {"true", "false", "absent"}
  BY WantFields
<1>3. FlagAfter(w.flag, TRUE) = TRUE
  BY <1>1, <1>2 DEF FlagAfter
<1> QED BY <1>1, <1>2, <1>3

LEMMA InitProtected == ClientsProtect /\ Init => ProtectInv
<1> SUFFICES ASSUME ClientsProtect, Init PROVE ProtectInv
  OBVIOUS
<1>1. PICK p \in InitialPasswords, s \in Secrets, k \in SigningKeys : row = Created(p, s, k)
  BY DEF Init
<1> DEFINE plain == [masterEncryption |-> p # NoPassword,
                     fields |-> [x \in Fields |-> Plain(s)],
                     saved_table_info |-> 0, signing_key |-> k]
<1>2. p # NoPassword /\ p \in Passwords
  BY CredentialsAssumption DEF ClientsProtect
<1>3. plain \in Connection /\ plain.masterEncryption = TRUE
  <2>1. plain \in Connection
    BY PlainIsField, CredentialsAssumption DEF Connection
  <2>2. (p # NoPassword) = TRUE
    BY <1>2, Zenon
  <2>3. plain.masterEncryption = (p # NoPassword)
    OBVIOUS
  <2> QED BY <2>1, <2>2, <2>3, Zenon
<1>4. row = encryptConnectionCredentials(plain, p)
  BY <1>1, <1>2 DEF Created
<1> HIDE DEF plain
<1>5. RowProtected
  BY <1>2, <1>3, <1>4, EncryptedIsProtected DEF RowProtected
<1>6. ReadProtected /\ SaveProtected
  BY DEF Init, ReadProtected, SaveProtected
<1> QED BY <1>5, <1>6, InitTypes DEF ProtectInv

\* Steps that end a request, or leave its memory and all counters alone.
LEMMA EndKeepsProtection ==
  ASSUME ProtectInv, NEW r \in Requests, NEW how \in Ended, End(r, how)
  PROVE  ReadProtected' /\ SaveProtected'
<1>1. ASSUME NEW q \in Requests, pc'[q] \in {"change", "load", "write"}
      PROVE  pc'[q] = pc[q] /\ mem'[q] = mem[q]
  <2>1. q # r
    BY <1>1 DEF ProtectInv, TypeInv, TypeOK, End, Goto, Ended
  <2> QED BY <2>1 DEF ProtectInv, TypeInv, TypeOK, End, Goto
<1>2. ReadProtected'
  BY <1>1 DEF ProtectInv, ReadProtected
<1>3. SaveProtected'
  BY <1>1 DEF ProtectInv, SaveProtected
<1> QED BY <1>2, <1>3

LEMMA ChangeKeepsProtection ==
  ASSUME ProtectInv, NEW r \in Requests, NEW op, NEW entity, Protected(entity),
         Change(r, op, entity)
  PROVE  RowProtected' /\ ReadProtected' /\ SaveProtected'
<1>1. RowProtected'
  BY DEF ProtectInv, RowProtected, Change
<1>2. ASSUME NEW q \in Requests, q # r
      PROVE  pc'[q] = pc[q] /\ mem'[q] = mem[q]
  BY <1>2 DEF ProtectInv, TypeInv, TypeOK, Change, Goto
<1>3. pc'[r] = "load" /\ mem'[r] = entity
  BY DEF ProtectInv, TypeInv, TypeOK, Change, Goto
<1>4. ReadProtected'
  BY <1>2, <1>3 DEF ProtectInv, ReadProtected
<1>5. SaveProtected'
  BY <1>2, <1>3 DEF ProtectInv, SaveProtected
<1> QED BY <1>1, <1>4, <1>5

\* What a protecting request makes of a connection that was protected.
LEMMA ChangesProtect ==
  ASSUME ClientsProtect, ProtectInv, NEW r \in Requests,
         \/ UpdateConnection(r) \/ UpdateMasterPassword(r) \/ RestoreConnection(r)
         \/ CreateProperties(r) \/ SaveTableInfo(r) \/ CreateTableAction(r)
  PROVE  RowProtected' /\ ReadProtected' /\ SaveProtected'
<1> DEFINE w == want[r]
<1>1. pc[r] = "change"
  BY DEF UpdateConnection, UpdateMasterPassword, RestoreConnection, CreateProperties,
         SaveTableInfo, CreateTableAction, Change, Changing, At
<1>2. mem[r] \in Connection /\ mem[r].masterEncryption = TRUE
  BY <1>1 DEF ProtectInv, TypeInv, HoldsConnection, ReadProtected
<1>3. w \in Wants
  BY DEF ProtectInv, TypeInv, TypeOK
<1>4. /\ w.header \in Passwords /\ w.header # NoPassword /\ w.newPassword \in Passwords
      /\ FlagAfter(w.flag, TRUE) = TRUE
      /\ w.op = "restore" => w.flag = "true" /\ "cert" \notin Fields
      /\ w.op # "findTables" /\ w.op # "createAction"
  BY <1>3, ProtectingWant
<1>5. CASE UpdateConnection(r)
  <2> DEFINE updated == [mem[r] EXCEPT
                           !.masterEncryption = FlagAfter(w.flag, @),
                           !.fields = [x \in Fields |-> IF x \in w.gives THEN Plain(w.secret)
                                                        ELSE @[x]]]
             sealed == encryptConnectionCredentials(updated, w.header)
  <2>1. updated \in Connection
    BY <1>2, <1>3, ChangedIsConnection
  <2>2. updated.masterEncryption = TRUE
    BY <1>2, <1>4 DEF Connection
  <2>3. Change(r, "update", IF updated.masterEncryption /\ w.header # NoPassword
                            THEN encryptConnectionCredentials(updated, w.header) ELSE updated)
    BY <1>5 DEF UpdateConnection
  <2> HIDE DEF updated
  <2>4. Protected(sealed)
    BY <1>4, <2>1, <2>2, EncryptedIsProtected
  <2>5. Change(r, "update", sealed)
    BY <1>4, <2>2, <2>3
  <2> HIDE DEF sealed
  <2> QED BY <2>4, <2>5, ChangeKeepsProtection
<1>6. CASE UpdateMasterPassword(r)
  BY <1>2, <1>4, <1>6, EncryptedIsProtected, ChangeKeepsProtection DEF UpdateMasterPassword
<1>7. CASE RestoreConnection(r)
  <2> DEFINE restored == [mem[r] EXCEPT
                 !.masterEncryption = FlagAfter(w.flag, @),
                 !.fields = [x \in Fields |->
                   IF w.flag = "true" /\ w.header # NoPassword /\ x # "cert"
                   THEN Seal(Plain(w.secret), w.header) ELSE Plain(w.secret)]]
  <2>1. Change(r, "restore", restored) /\ w.flag = "true" /\ "cert" \notin Fields
    BY <1>4, <1>7 DEF RestoreConnection, Change, Changing
  <2>2. restored.masterEncryption = TRUE
    BY <1>2, <1>4 DEF Connection
  <2>3. ASSUME NEW x \in Fields PROVE ~IsBare(restored.fields[x])
    <3>1. restored.fields[x] = Seal(Plain(w.secret), w.header)
      BY <1>2, <1>4, <2>1 DEF Connection
    <3>2. Plain(w.secret) \in Field
      BY <1>3, WantFields, PlainIsField
    <3> QED BY <1>4, <3>1, <3>2, SealedIsNotBare
  <2>4. Protected(restored)
    BY <2>2, <2>3 DEF Protected
  <2> HIDE DEF restored
  <2> QED BY <2>1, <2>4, ChangeKeepsProtection
<1>8. CASE CreateProperties(r)
  <2>1. Change(r, "createProperties", encryptConnectionCredentials(mem[r], w.header))
    BY <1>2, <1>4, <1>8 DEF CreateProperties
  <2>2. Protected(encryptConnectionCredentials(mem[r], w.header))
    BY <1>2, <1>4, EncryptedIsProtected
  <2> QED BY <2>1, <2>2, ChangeKeepsProtection
<1>9. CASE SaveTableInfo(r)
  BY <1>4, <1>9 DEF SaveTableInfo, Changing
<1>10. CASE CreateTableAction(r)
  BY <1>4, <1>10 DEF CreateTableAction, Changing
<1> QED BY <1>5, <1>6, <1>7, <1>8, <1>9, <1>10
LEMMA StartKeepsProtection ==
  ASSUME ProtectInv, NEW r \in Requests, NEW w \in Wants, Start(r, w)
  PROVE  RowProtected' /\ ReadProtected' /\ SaveProtected'
<1>1. row' = row /\ mem' = mem
  BY DEF Start
<1>2. ASSUME NEW q \in Requests, pc'[q] \in {"change", "load", "write"}
      PROVE  pc'[q] = pc[q]
  BY <1>2 DEF ProtectInv, TypeInv, TypeOK, Start, Goto
<1>3. RowProtected'
  BY <1>1 DEF ProtectInv, RowProtected
<1>4. ReadProtected'
  BY <1>1, <1>2 DEF ProtectInv, ReadProtected
<1>5. SaveProtected'
  BY <1>1, <1>2 DEF ProtectInv, SaveProtected
<1> QED BY <1>3, <1>4, <1>5

LEMMA FindKeepsProtection ==
  ASSUME ProtectInv, NEW r \in Requests, Find(r)
  PROVE  RowProtected' /\ ReadProtected' /\ SaveProtected'
<1>1. RowProtected'
  BY DEF Find, ProtectInv, RowProtected
<1>2. CASE End(r, "failed")
  BY <1>1, <1>2, EndKeepsProtection DEF Ended
<1> DEFINE found == IF want[r].op # "restore" /\ row.masterEncryption
                       /\ want[r].header # NoPassword
                    THEN decryptConnectionCredentials(row, want[r].header) ELSE row
<1>3. ASSUME row # Gone, mem' = [mem EXCEPT ![r] = found], Goto(r, "change")
      PROVE  ReadProtected' /\ SaveProtected'
  <2>1. row \in Connection /\ row.masterEncryption = TRUE
    BY <1>3 DEF ProtectInv, TypeInv, TypeOK, RowProtected, Protected
  <2>2. decryptConnectionCredentials(row, want[r].header).masterEncryption = TRUE
    BY <2>1 DEF decryptConnectionCredentials, Connection
  <2>3. found.masterEncryption = TRUE
    BY <2>1, <2>2
  <2> HIDE DEF found
  <2>4. pc'[r] = "change" /\ mem'[r] = found
    BY <1>3 DEF ProtectInv, TypeInv, TypeOK, Goto
  <2>5. ASSUME NEW q \in Requests, q # r
        PROVE  pc'[q] = pc[q] /\ mem'[q] = mem[q]
    BY <1>3, <2>5 DEF ProtectInv, TypeInv, TypeOK, Goto
  <2>6. ReadProtected'
    BY <2>3, <2>4, <2>5 DEF ProtectInv, ReadProtected
  <2>7. SaveProtected'
    BY <2>4, <2>5 DEF ProtectInv, SaveProtected
  <2> QED BY <2>6, <2>7
<1> QED BY <1>1, <1>2, <1>3 DEF Find

LEMMA LoadKeepsProtection ==
  ASSUME ProtectInv, NEW r \in Requests, LoadRow(r)
  PROVE  RowProtected' /\ ReadProtected' /\ SaveProtected'
<1>1. row' = row /\ mem' = mem /\ pc[r] = "load"
  BY DEF LoadRow, At
<1>2. ASSUME NEW q \in Requests
      PROVE  IF q = r THEN pc'[q] = "write" ELSE pc'[q] = pc[q]
  BY DEF ProtectInv, TypeInv, TypeOK, LoadRow, Goto
<1>3. RowProtected'
  BY <1>1 DEF ProtectInv, RowProtected
<1>4. ReadProtected'
  BY <1>1, <1>2 DEF ProtectInv, ReadProtected
<1>5. SaveProtected'
  BY <1>1, <1>2 DEF ProtectInv, SaveProtected
<1> QED BY <1>3, <1>4, <1>5

LEMMA WriteKeepsProtection ==
  ASSUME ProtectInv, NEW r \in Requests, WriteRow(r)
  PROVE  RowProtected' /\ ReadProtected' /\ SaveProtected'
<1>1. mem[r] \in Connection /\ Protected(mem[r])
  BY DEF ProtectInv, TypeInv, HoldsConnection, SaveProtected, WriteRow, At
<1>2. Protected([mem[r] EXCEPT !.signing_key = TRUE])
  BY <1>1 DEF Protected, Connection
<1>3. ASSUME row # Gone
      PROVE  Protected(Updated(mem[r], snap[r]))
  BY <1>1, <1>3, UpdatedIsProtected DEF ProtectInv, RowProtected
<1>4. RowProtected'
  BY <1>2, <1>3 DEF WriteRow, ProtectInv, RowProtected
<1>5. PICK how \in Ended : End(r, how)
  BY DEF WriteRow, Ended
<1> QED BY <1>4, <1>5, EndKeepsProtection

LEMMA EndingsKeepProtection ==
  ASSUME ProtectInv, NEW r \in Requests, EndUnsaved(r) \/ DeleteConnection(r) \/ Fail(r)
  PROVE  RowProtected' /\ ReadProtected' /\ SaveProtected'
<1>1. PICK how \in Ended : End(r, how)
  BY DEF EndUnsaved, DeleteConnection, Fail, Ended
<1>2. RowProtected'
  BY DEF EndUnsaved, DeleteConnection, Fail, ProtectInv, RowProtected
<1> QED BY <1>1, <1>2, EndKeepsProtection

LEMMA NextKeepsProtection == ClientsProtect /\ ProtectInv /\ [Next]_vars => ProtectInv'
<1> SUFFICES ASSUME ClientsProtect, ProtectInv, [Next]_vars PROVE ProtectInv'
  OBVIOUS
<1>1. TypeInv'
  BY NextKeepsTypes DEF ProtectInv
<1>2. ASSUME UNCHANGED vars
      PROVE  RowProtected' /\ ReadProtected' /\ SaveProtected'
  BY <1>2 DEF vars, ProtectInv, RowProtected, ReadProtected, SaveProtected
<1>3. ASSUME NEW r \in Requests, NEW w \in Wants, Start(r, w)
      PROVE  RowProtected' /\ ReadProtected' /\ SaveProtected'
  BY <1>3, StartKeepsProtection
<1>4. ASSUME NEW r \in Requests, Step(r)
      PROVE  RowProtected' /\ ReadProtected' /\ SaveProtected'
  BY <1>4, FindKeepsProtection, ChangesProtect, LoadKeepsProtection, WriteKeepsProtection,
     EndingsKeepProtection DEF Step
<1>5. ASSUME NEW r \in Requests, Fail(r)
      PROVE  RowProtected' /\ ReadProtected' /\ SaveProtected'
  BY <1>5, EndingsKeepProtection
<1> QED BY <1>1, <1>2, <1>3, <1>4, <1>5 DEF Next, ProtectInv

(***************************************************************************)
(* A connection created with a master password stays stored with that      *)
(* encryption, as long as clients name a password, do not turn the         *)
(* protection off, and do not send the two requests that strip it          *)
(* (find-tables-in-connection.use.case.ts:255,                             *)
(* create-table-action.use.case.ts:34): however many of the other requests *)
(* overlap, with right and wrong passwords, and wherever they fail.        *)
(***************************************************************************)
THEOREM ProtectedStaysEncrypted == ClientsProtect => (Spec => []StaysEncrypted)
<1> SUFFICES ASSUME ClientsProtect PROVE Spec => []StaysEncrypted
  OBVIOUS
<1>1. Init => ProtectInv
  BY InitProtected
<1>2. ProtectInv /\ [Next]_vars => ProtectInv'
  BY NextKeepsProtection
<1>3. ProtectInv => StaysEncrypted
  BY DEF ProtectInv, RowProtected, Protected, StaysEncrypted
<1> QED BY <1>1, <1>2, <1>3, PTL DEF Spec
-----------------------------------------------------------------------------
(***************************************************************************)
(* A request that no other overlapped.  It is the only one under way, and  *)
(* what it found is what there is.                                         *)
(***************************************************************************)
Restored(m, w) == w.op = "restore" /\ w.flag # "absent" => ReadableWith(m, w.header)
Lone(r) ==
  /\ \A q \in Requests \ {r} : pc[q] \notin Calls
  /\ row # Gone /\ Accepted(want[r])
  /\ pc[r] = "write" => snap[r] = row
  /\ pc[r] \in {"load", "write"} => Restored(mem[r], want[r])
LoneInv == TypeInv /\ \A r \in Requests : pc[r] \in Calls /\ r \notin disturbed => Lone(r)

\* The save of a connection whose row is as it was found stores what is in it.
LEMMA WriteStores ==
  ASSUME TypeInv, NEW r \in Requests, WriteRow(r), snap[r] = row, row # Gone
  PROVE  /\ row' \in Connection /\ row'.fields = mem[r].fields
         /\ row'.masterEncryption = mem[r].masterEncryption
<1>1. mem[r] \in Connection /\ row \in Connection
  BY DEF TypeInv, TypeOK, HoldsConnection, WriteRow, At
<1>2. row' = IF SealedAnew(r) \/ mem[r] # row THEN Updated(mem[r], row) ELSE row
  BY DEF WriteRow
<1>3. /\ Updated(mem[r], row).fields = mem[r].fields
      /\ Updated(mem[r], row).masterEncryption = mem[r].masterEncryption
  BY DEF Updated, Differing
<1>4. Updated(mem[r], row) \in Connection
  BY <1>1, UpdatedIsConnection
<1>5. QED
  BY <1>1, <1>2, <1>3, <1>4

LEMMA ReadableAlike ==
  ASSUME NEW c, NEW d, c.fields = d.fields, c.masterEncryption = d.masterEncryption,
         NEW p, ReadableWith(c, p)
  PROVE  ReadableWith(d, p)
BY DEF ReadableWith

(***************************************************************************)
(* What each step leaves of the others: those that are under way stay so,  *)
(* and a request that starts disturbs those it meets.                      *)
(***************************************************************************)
OneMoves(r) ==
  /\ disturbed' = disturbed
  /\ pc[r] \in Calls
  /\ \A q \in Requests \ {r} : /\ pc'[q] = pc[q] /\ want'[q] = want[q]
                               /\ mem'[q] = mem[q] /\ snap'[q] = snap[q]
  /\ want'[r] = want[r]

LEMMA StepMovesOne ==
  ASSUME TypeInv, NEW r \in Requests, Step(r) \/ Fail(r)
  PROVE  OneMoves(r)
<1>1. /\ pc \in [Requests -> Ended \union Calls] /\ mem \in [Requests -> Connection \union {Gone}]
      /\ snap \in [Requests -> Connection \union {Gone}]
  BY DEF TypeInv, TypeOK
<1>2. pc[r] \in Calls /\ UNCHANGED <<want, disturbed>>
  BY DEF Step, Fail, Find, UpdateConnection, UpdateMasterPassword, RestoreConnection, CreateProperties,
         SaveTableInfo, CreateTableAction, Change, Changing, EndUnsaved, DeleteConnection, LoadRow,
         WriteRow, At, Calls
<1>3. ASSUME NEW how, End(r, how)
      PROVE  \A q \in Requests \ {r} : pc'[q] = pc[q] /\ mem'[q] = mem[q] /\ snap'[q] = snap[q]
  BY <1>1, <1>3 DEF End, Goto
<1>4. ASSUME NEW op, NEW c, Change(r, op, c)
      PROVE  \A q \in Requests \ {r} : pc'[q] = pc[q] /\ mem'[q] = mem[q] /\ snap'[q] = snap[q]
  BY <1>1, <1>4 DEF Change, Goto
<1>5. ASSUME Find(r)
      PROVE  \A q \in Requests \ {r} : pc'[q] = pc[q] /\ mem'[q] = mem[q] /\ snap'[q] = snap[q]
  <2>1. CASE End(r, "failed")
    BY <1>3, <2>1
  <2>2. ASSUME NEW found, mem' = [mem EXCEPT ![r] = found], Goto(r, "change"), UNCHANGED snap
        PROVE  \A q \in Requests \ {r} : pc'[q] = pc[q] /\ mem'[q] = mem[q] /\ snap'[q] = snap[q]
    BY <1>1, <2>2 DEF Goto
  <2> QED BY <1>5, <2>1, <2>2 DEF Find
<1>6. ASSUME UpdateConnection(r) \/ UpdateMasterPassword(r) \/ RestoreConnection(r)
             \/ CreateProperties(r) \/ SaveTableInfo(r) \/ CreateTableAction(r)
      PROVE  \A q \in Requests \ {r} : pc'[q] = pc[q] /\ mem'[q] = mem[q] /\ snap'[q] = snap[q]
  BY <1>4, <1>6 DEF UpdateConnection, UpdateMasterPassword, RestoreConnection, CreateProperties,
                    SaveTableInfo, CreateTableAction
<1>7. ASSUME EndUnsaved(r) \/ DeleteConnection(r) \/ WriteRow(r) \/ Fail(r)
      PROVE  \A q \in Requests \ {r} : pc'[q] = pc[q] /\ mem'[q] = mem[q] /\ snap'[q] = snap[q]
  BY <1>3, <1>7 DEF EndUnsaved, DeleteConnection, WriteRow, Fail
<1>8. ASSUME LoadRow(r)
      PROVE  \A q \in Requests \ {r} : pc'[q] = pc[q] /\ mem'[q] = mem[q] /\ snap'[q] = snap[q]
  BY <1>1, <1>8 DEF LoadRow, Goto
<1>9. \A q \in Requests \ {r} : pc'[q] = pc[q] /\ mem'[q] = mem[q] /\ snap'[q] = snap[q]
  BY <1>5, <1>6, <1>7, <1>8 DEF Step
<1>10. QED
  BY <1>2, <1>9 DEF OneMoves

\* A request that goes on alone is still alone when its own facts hold again.
LEMMA LoneStaysLone ==
  ASSUME LoneInv, NEW r \in Requests, OneMoves(r), TypeInv',
         pc'[r] \in Calls /\ r \notin disturbed /\ Lone(r) =>
           /\ row' # Gone
           /\ pc'[r] = "write" => snap'[r] = row'
           /\ pc'[r] \in {"load", "write"} => Restored(mem'[r], want[r])
  PROVE  LoneInv'
<1>1. ASSUME NEW q \in Requests, pc'[q] \in Calls, q \notin disturbed'
      PROVE  Lone(q)'
  <2>1. q = r
    <3>1. SUFFICES ASSUME q # r PROVE FALSE
      OBVIOUS
    <3>2. pc[q] \in Calls /\ q \notin disturbed
      BY <1>1, <3>1 DEF OneMoves
    <3>3. Lone(q)
      BY <3>2 DEF LoneInv
    <3>4. QED
      BY <3>1, <3>3 DEF Lone, OneMoves
  <2>2. Lone(r) /\ r \notin disturbed
    BY <1>1, <2>1 DEF LoneInv, OneMoves
  <2>3. \A x \in Requests \ {r} : pc'[x] \notin Calls
    BY <2>2 DEF Lone, OneMoves
  <2>4. Accepted(want'[r])
    BY <2>2 DEF Lone, OneMoves
  <2>5. want'[r] = want[r]
    BY DEF OneMoves
  <2>6. QED
    BY <1>1, <2>1, <2>2, <2>3, <2>4, <2>5 DEF Lone
<1>2. QED
  BY <1>1 DEF LoneInv

\* A restoration seals every field once, or leaves all of them plain.
LEMMA RestoringIsReadable ==
  ASSUME "cert" \notin Fields, TypeInv, NEW r \in Requests, RestoreConnection(r),
         Accepted(want[r])
  PROVE  Restored(mem'[r], want[r])
<1> DEFINE w == want[r]
           restored == [mem[r] EXCEPT
                 !.masterEncryption = FlagAfter(w.flag, @),
                 !.fields = [x \in Fields |->
                   IF w.flag = "true" /\ w.header # NoPassword /\ x # "cert"
                   THEN Seal(Plain(w.secret), w.header) ELSE Plain(w.secret)]]
<1>1. Change(r, "restore", restored) /\ pc[r] = "change" /\ w.op = "restore"
  BY DEF RestoreConnection, Change, Changing, At
<1>2. mem[r] \in Connection /\ w \in Wants
  BY <1>1 DEF TypeInv, TypeOK, HoldsConnection
<1>3. /\ w.flag \in {"true", "false", "absent"} /\ w.secret \in Secrets
      /\ w.header \in Passwords \union {NoPassword} /\ w.secret # Lost
  BY <1>2, WantFields, CredentialsAssumption
<1>4. /\ Plain(w.secret).value = w.secret /\ Plain(w.secret).seals = <<>>
      /\ Seal(Plain(w.secret), w.header).value = w.secret
      /\ Seal(Plain(w.secret), w.header).seals = <<w.header>>
  BY <1>3 DEF Plain, Seal
<1>5. SUFFICES ASSUME w.flag # "absent" PROVE ReadableWith(restored, w.header)
  <2>1. mem'[r] = restored
    BY <1>1 DEF TypeInv, TypeOK, Change
  <2> HIDE DEF restored
  <2> QED BY <2>1 DEF Restored
<1>6. /\ restored.masterEncryption = (w.flag = "true")
      /\ \A x \in Fields : restored.fields[x] =
           IF w.flag = "true" /\ w.header # NoPassword /\ x # "cert"
           THEN Seal(Plain(w.secret), w.header) ELSE Plain(w.secret)
  BY <1>2, <1>5 DEF Connection, FlagAfter
<1> HIDE DEF restored
<1>7. CASE w.flag = "true"
  <2>1. w.header # NoPassword
    BY <1>1, <1>7 DEF Accepted
  <2>2. \A x \in Fields : restored.fields[x] = Seal(Plain(w.secret), w.header)
    BY <1>6, <1>7, <2>1
  <2> QED BY <1>3, <1>4, <1>6, <1>7, <2>2 DEF ReadableWith
<1>8. CASE w.flag # "true"
  BY <1>3, <1>4, <1>6, <1>8 DEF ReadableWith
<1> QED BY <1>7, <1>8

\* Every other change, by what it is called.
LEMMA ChangesRestore ==
  ASSUME "cert" \notin Fields, TypeInv, NEW r \in Requests, Accepted(want[r]),
         \/ UpdateConnection(r) \/ UpdateMasterPassword(r) \/ RestoreConnection(r)
         \/ CreateProperties(r) \/ SaveTableInfo(r) \/ CreateTableAction(r)
  PROVE  row' = row /\ pc'[r] = "load" /\ Restored(mem'[r], want[r])
<1>1. row' = row /\ pc'[r] = "load"
  BY DEF TypeInv, TypeOK, UpdateConnection, UpdateMasterPassword, RestoreConnection,
         CreateProperties, SaveTableInfo, CreateTableAction, Change, Goto
<1>2. SUFFICES Restored(mem'[r], want[r])
  BY <1>1
<1>3. CASE RestoreConnection(r)
  BY <1>3, RestoringIsReadable
<1>4. CASE ~RestoreConnection(r)
  <2>1. want[r].op # "restore"
    BY <1>4 DEF UpdateConnection, UpdateMasterPassword, CreateProperties, SaveTableInfo,
                CreateTableAction, Change, Changing
  <2> QED BY <2>1 DEF Restored
<1> QED BY <1>3, <1>4

LEMMA StartKeepsLone ==
  ASSUME LoneInv, NEW r \in Requests, NEW w \in Wants, Start(r, w)
  PROVE  LoneInv'
<1>1. TypeInv'
  BY StartKeepsTypes DEF LoneInv
<1>2. /\ pc'[r] = "find" /\ want'[r] = w
      /\ \A q \in Requests \ {r} : pc'[q] = pc[q]
  BY DEF LoneInv, TypeInv, TypeOK, Start, Goto
<1>3. ASSUME NEW q \in Requests, pc'[q] \in Calls, q \notin disturbed'
      PROVE  Lone(q)'
  <2> DEFINE others == {p \in Requests : pc[p] \in Calls}
  <2>1. disturbed' = IF others = {} THEN disturbed \ {r} ELSE disturbed \union others \union {r}
    BY DEF Start
  <2>2. q = r
    BY <1>2, <1>3, <2>1
  <2>3. others = {}
    BY <1>3, <2>1, <2>2
  <2>4. \A p \in Requests \ {r} : pc'[p] \notin Calls
    BY <1>2, <2>3
  <2>5. row' # Gone /\ Accepted(want'[r])
    BY <1>2 DEF Start
  <2> QED BY <1>2, <2>2, <2>4, <2>5 DEF Lone
<1> QED BY <1>1, <1>3 DEF LoneInv

LEMMA NextKeepsLone == "cert" \notin Fields /\ LoneInv /\ [Next]_vars => LoneInv'
<1> SUFFICES ASSUME "cert" \notin Fields, LoneInv, [Next]_vars PROVE LoneInv'
  OBVIOUS
<1>1. TypeInv'
  BY NextKeepsTypes DEF LoneInv
<1>2. CASE UNCHANGED vars
  BY <1>1, <1>2 DEF vars, LoneInv, Lone
<1>3. ASSUME NEW r \in Requests, NEW w \in Wants, Start(r, w)
      PROVE  LoneInv'
  BY <1>3, StartKeepsLone
<1>4. ASSUME NEW r \in Requests, Step(r) \/ Fail(r)
      PROVE  LoneInv'
  <2>1. OneMoves(r)
    BY <1>4, StepMovesOne DEF LoneInv
  <2>2. ASSUME pc'[r] \in Calls, r \notin disturbed, Lone(r)
        PROVE  /\ row' # Gone
               /\ pc'[r] = "write" => snap'[r] = row'
               /\ pc'[r] \in {"load", "write"} => Restored(mem'[r], want[r])
    <3>1. row # Gone /\ Accepted(want[r]) /\ pc[r] \in Calls
      BY <2>1, <2>2 DEF Lone, OneMoves
    <3>2. /\ pc \in [Requests -> Ended \union Calls]
          /\ snap \in [Requests -> Connection \union {Gone}]
      BY DEF LoneInv, TypeInv, TypeOK
    <3>3. CASE Find(r)
      <4>1. row' = row
        BY <3>3 DEF Find
      <4>2. pc'[r] \in {"change", "failed"}
        BY <3>2, <3>3 DEF Find, End, Goto
      <4> QED BY <3>1, <4>1, <4>2
    <3>4. CASE \/ UpdateConnection(r) \/ UpdateMasterPassword(r) \/ RestoreConnection(r)
               \/ CreateProperties(r) \/ SaveTableInfo(r) \/ CreateTableAction(r)
      BY <3>1, <3>4, ChangesRestore DEF LoneInv
    <3>5. CASE LoadRow(r)
      <4>1. row' = row /\ mem' = mem /\ pc[r] = "load" /\ snap'[r] = row
        BY <3>2, <3>5 DEF LoadRow, At
      <4> QED BY <2>2, <3>1, <4>1 DEF Lone
    <3>6. CASE EndUnsaved(r) \/ DeleteConnection(r) \/ WriteRow(r) \/ Fail(r)
      <4>1. PICK how \in Ended : End(r, how)
        BY <3>6 DEF EndUnsaved, DeleteConnection, WriteRow, Fail, Ended
      <4>2. pc'[r] \notin Calls
        BY <3>2, <4>1 DEF End, Goto, Ended, Calls
      <4> QED BY <2>2, <4>2
    <3> QED BY <1>4, <3>3, <3>4, <3>5, <3>6 DEF Step
  <2>3. QED
    BY <1>1, <2>1, <2>2, LoneStaysLone
<1> QED BY <1>2, <1>3, <1>4 DEF Next

\* Only the second half of a save answers a request that was at it.
LEMMA AnsweredByWrite ==
  ASSUME TypeInv, [Next]_vars, NEW r \in Requests, pc[r] = "write", pc'[r] = "done"
  PROVE  WriteRow(r)
<1>1. pc \in [Requests -> Ended \union Calls]
  BY DEF TypeInv, TypeOK
<1>2. CASE UNCHANGED vars
  BY <1>2 DEF vars
<1>3. ASSUME NEW q \in Requests, NEW w \in Wants, Start(q, w)
      PROVE  FALSE
  BY <1>1, <1>3 DEF Start, Goto, Ended
<1>4. ASSUME NEW q \in Requests, Step(q) \/ Fail(q)
      PROVE  WriteRow(r)
  <2>1. q = r
    BY <1>4, StepMovesOne DEF OneMoves
  <2>2. ~Fail(r)
    BY <1>1 DEF Fail, End, Goto
  <2> QED BY <1>4, <2>1, <2>2 DEF Step, Find, UpdateConnection, UpdateMasterPassword,
        RestoreConnection, CreateProperties, SaveTableInfo, CreateTableAction, Change, Changing,
        EndUnsaved, DeleteConnection, LoadRow, At
<1> QED BY <1>2, <1>3, <1>4 DEF Next

(***************************************************************************)
(* A connection whose master password was lost can be renewed              *)
(* (connection.controller.ts:598-604): whatever any number of clients did  *)
(* before, with whatever passwords and at once, and wherever they failed,  *)
(* when a restoration that nothing overlapped is answered the connection   *)
(* can be read with the password it named.  Connections over SSL are the   *)
(* exception: their certificate is stored unsealed.                        *)
(***************************************************************************)
THEOREM RestoredAlwaysReadable == "cert" \notin Fields => (Spec => RestoredIsReadable)
<1> SUFFICES ASSUME "cert" \notin Fields PROVE Spec => RestoredIsReadable
  OBVIOUS
<1>1. Init => LoneInv
  <2> SUFFICES ASSUME Init PROVE LoneInv
    OBVIOUS
  <2>1. \A r \in Requests : pc[r] \notin Calls
    BY DEF Init, Calls
  <2> QED BY <2>1, InitTypes DEF LoneInv
<1>2. LoneInv /\ [Next]_vars => LoneInv'
  BY NextKeepsLone
<1>3. LoneInv /\ [Next]_vars =>
        [\A r \in Requests :
           Answers(r, "restore") /\ r \notin disturbed /\ want[r].flag # "absent"
             => ReadableWith(row', want[r].header)]_vars
  <2> SUFFICES ASSUME LoneInv, [Next]_vars, NEW r \in Requests, Answers(r, "restore"),
                      r \notin disturbed, want[r].flag # "absent"
               PROVE  ReadableWith(row', want[r].header)
    OBVIOUS
  <2>1. pc[r] = "write" /\ WriteRow(r)
    BY AnsweredByWrite DEF Answers, LoneInv
  <2>2. Lone(r)
    BY <2>1 DEF LoneInv, Calls
  <2>3. ReadableWith(mem[r], want[r].header)
    BY <2>1, <2>2 DEF Lone, Restored, Answers
  <2>4. row'.fields = mem[r].fields /\ row'.masterEncryption = mem[r].masterEncryption
    BY <2>1, <2>2, WriteStores DEF Lone, LoneInv
  <2> QED BY <2>3, <2>4, ReadableAlike
<1> QED BY <1>1, <1>2, <1>3, PTL DEF Spec, RestoredIsReadable

-----------------------------------------------------------------------------
(***************************************************************************)
(* One careful client.  What it opened is what is stored, in plain; what   *)
(* it saves is what it was asked for; and some password reads what there   *)
(* is.                                                                     *)
(***************************************************************************)
Named(w) == IF w.op = "updateMasterPassword" THEN w.newPassword ELSE w.header

Opened(w, before, m) ==
  IF w.op = "restore" THEN m = before /\ w.flag # "absent"
  ELSE /\ m.masterEncryption = before.masterEncryption
       /\ \A x \in Fields : m.fields[x] = Plain(before.fields[x].value)
       /\ before.masterEncryption => w.header \in Passwords
       /\ w.op = "updateMasterPassword" => before.masterEncryption
       /\ w.op \in {"findTables", "createAction"} => ~before.masterEncryption

Values(w, before, after) ==
  \A x \in Fields : after.fields[x].value =
     IF x \in (IF w.op \in {"update", "restore"} THEN w.gives ELSE {})
     THEN w.secret ELSE before.fields[x].value

Flagged(w, before, after) ==
  after.masterEncryption = IF w.op \in {"update", "restore"}
                           THEN FlagAfter(w.flag, before.masterEncryption)
                           ELSE before.masterEncryption

Ready(w, before, m) == /\ Values(w, before, m) /\ Flagged(w, before, m)
                       /\ ReadableWith(m, Named(w))
                       /\ m.masterEncryption => Named(w) \in Passwords

UnderWay(r) == /\ row # Gone /\ Accepted(want[r])
               /\ pc[r] = "find" => Careful(want[r])
               /\ pc[r] = "change" => Opened(want[r], row, mem[r])
               /\ pc[r] \in {"load", "write"} => Ready(want[r], row, mem[r])
               /\ pc[r] = "write" => snap[r] = row

CarefulInv == /\ TypeInv /\ SomePasswordReadsAll
              /\ \A r \in Requests : pc[r] \in Calls => UnderWay(r)

\* Sealing what is plain.
LEMMA SealedIsReadable ==
  ASSUME NEW c \in Connection, NEW p \in Passwords, c.masterEncryption,
         \A x \in Fields : c.fields[x].value # Lost /\ c.fields[x].seals = <<>>
  PROVE  /\ encryptConnectionCredentials(c, p).masterEncryption = c.masterEncryption
         /\ \A x \in Fields :
              encryptConnectionCredentials(c, p).fields[x].value = c.fields[x].value
         /\ ReadableWith(encryptConnectionCredentials(c, p), p)
<1> DEFINE e == encryptConnectionCredentials(c, p)
<1>1. e.masterEncryption = c.masterEncryption
  BY DEF encryptConnectionCredentials, Connection
<1>2. \A x \in Fields : e.fields[x] = Seal(c.fields[x], p)
  BY DEF encryptConnectionCredentials, Connection
<1> HIDE DEF e
<1>3. ASSUME NEW x \in Fields
      PROVE  e.fields[x].value = c.fields[x].value /\ e.fields[x].seals = <<p>>
  <2>1. c.fields[x] \in Field /\ c.fields[x].value # Lost /\ c.fields[x].seals = <<>>
    BY DEF Connection
  <2>2. Seal(c.fields[x], p) = [c.fields[x] EXCEPT !.seals = <<p>> \o @]
    BY <2>1 DEF Seal
  <2>3. <<p>> \o <<>> = <<p>>
    OBVIOUS
  <2> QED BY <1>2, <2>1, <2>2, <2>3 DEF Field
<1>4. ReadableWith(e, p)
  BY <1>1, <1>3 DEF ReadableWith
<1> QED BY <1>1, <1>3, <1>4 DEF e

\* A careful request opens all of it.
LEMMA FindOpens ==
  ASSUME TypeInv, SomePasswordReadsAll, row # Gone, NEW w \in Wants, Careful(w)
  PROVE  Opened(w, row, IF w.op # "restore" /\ row.masterEncryption /\ w.header # NoPassword
                        THEN decryptConnectionCredentials(row, w.header) ELSE row)
<1>1. row \in Connection
  BY DEF TypeInv, TypeOK
<1>2. PICK p \in Passwords : ReadableWith(row, p)
  BY DEF SomePasswordReadsAll
<1>3. \A x \in Fields : row.fields[x] \in Field
  BY <1>1 DEF Connection
<1>4. CASE w.op = "restore"
  BY <1>4 DEF Opened, Careful
<1>5. CASE w.op # "restore" /\ row.masterEncryption
  <2>1. \A x \in Fields : /\ row.fields[x].seals = <<p>> /\ row.fields[x].value # Lost
                          /\ IsSealedWith(row.fields[x], w.header)
    BY <1>2, <1>5 DEF ReadableWith, Careful
  <2>2. w.header = p
    <3>1. "login" \in Fields
      BY CredentialsAssumption
    <3>2. row.fields["login"].seals = <<p>> /\ Head(row.fields["login"].seals) = w.header
      BY <2>1, <3>1 DEF IsSealedWith
    <3> QED BY <3>2
  <2>3. w.header # NoPassword
    BY <2>2, CredentialsAssumption
  <2> DEFINE m == decryptConnectionCredentials(row, w.header)
  <2>4. m.masterEncryption = row.masterEncryption
    BY <1>1 DEF decryptConnectionCredentials, Connection
  <2>5. \A x \in Fields : m.fields[x] = Open(row.fields[x], w.header)
    BY <1>1 DEF decryptConnectionCredentials, Connection
  <2> HIDE DEF m
  <2>6. ASSUME NEW x \in Fields PROVE m.fields[x] = Plain(row.fields[x].value)
    <3>1. Open(row.fields[x], w.header) = [row.fields[x] EXCEPT !.seals = Tail(@)]
      BY <2>1 DEF Open
    <3>2. Tail(row.fields[x].seals) = <<>>
      <4>1. Tail(<<p>>) = <<>>
        OBVIOUS
      <4> QED BY <2>1, <4>1
    <3> QED BY <1>3, <2>5, <3>1, <3>2 DEF Plain, Field
  <2>7. Opened(w, row, m)
    BY <1>5, <2>2, <2>4, <2>6 DEF Opened, Careful
  <2> QED BY <1>5, <2>3, <2>7 DEF m
<1>6. CASE w.op # "restore" /\ ~row.masterEncryption
  <2>1. ASSUME NEW x \in Fields PROVE row.fields[x] = Plain(row.fields[x].value)
    <3>1. row.fields[x].seals = <<>>
      BY <1>2, <1>6 DEF ReadableWith
    <3> QED BY <1>3, <3>1 DEF Plain, Field
  <2> QED BY <1>6, <2>1 DEF Opened, Careful
<1> QED BY <1>4, <1>5, <1>6

LEMMA PlainHas == \A secret : Plain(secret).value = secret /\ Plain(secret).seals = <<>>
BY DEF Plain

\* What its changes make of the entity is what is to be stored.
LEMMA UpdateReadies ==
  ASSUME TypeInv, SomePasswordReadsAll, NEW r \in Requests, UpdateConnection(r), UnderWay(r)
  PROVE  Ready(want[r], row, mem'[r])
<1> DEFINE w == want[r]
           updated == [mem[r] EXCEPT
                        !.masterEncryption = FlagAfter(w.flag, @),
                        !.fields = [x \in Fields |-> IF x \in w.gives THEN Plain(w.secret)
                                                     ELSE @[x]]]
           sealed == encryptConnectionCredentials(updated, w.header)
<1>1. pc[r] = "change" /\ w.op = "update"
  BY DEF UpdateConnection, Change, Changing, At
<1>2. mem[r] \in Connection /\ w \in Wants /\ row \in Connection
  BY <1>1 DEF TypeInv, TypeOK, HoldsConnection, UnderWay
<1>3. /\ w.flag \in {"true", "false", "absent"} /\ w.secret \in Secrets /\ w.secret # Lost
      /\ w.header \in Passwords \union {NoPassword}
  BY <1>2, WantFields, CredentialsAssumption
<1>4. /\ mem[r].masterEncryption = row.masterEncryption
      /\ \A x \in Fields : mem[r].fields[x] = Plain(row.fields[x].value)
      /\ row.masterEncryption => w.header \in Passwords
      /\ w.flag = "true" => w.header # NoPassword
  BY <1>1 DEF UnderWay, Opened, Accepted
<1>5. \A x \in Fields : row.fields[x].value # Lost
  BY DEF UnderWay, SomePasswordReadsAll, ReadableWith
<1>6. mem'[r] = IF updated.masterEncryption /\ w.header # NoPassword THEN sealed ELSE updated
  <2>1. Change(r, "update", IF updated.masterEncryption /\ w.header # NoPassword
                            THEN sealed ELSE updated)
    BY DEF UpdateConnection
  <2> HIDE DEF updated, sealed
  <2> QED BY <2>1 DEF Change, TypeInv, TypeOK
<1>7. updated \in Connection
  BY <1>2, ChangedIsConnection
<1>8. /\ updated.masterEncryption = FlagAfter(w.flag, row.masterEncryption)
      /\ \A x \in Fields : updated.fields[x] =
           IF x \in w.gives THEN Plain(w.secret) ELSE Plain(row.fields[x].value)
  BY <1>2, <1>4 DEF Connection
<1> HIDE DEF updated, sealed
<1>9. \A x \in Fields :
        /\ updated.fields[x].value = IF x \in w.gives THEN w.secret ELSE row.fields[x].value
        /\ updated.fields[x].value # Lost /\ updated.fields[x].seals = <<>>
  <2> SUFFICES ASSUME NEW x \in Fields
               PROVE  /\ updated.fields[x].value =
                           IF x \in w.gives THEN w.secret ELSE row.fields[x].value
                      /\ updated.fields[x].value # Lost /\ updated.fields[x].seals = <<>>
    OBVIOUS
  <2>1. CASE x \in w.gives
    <3>1. updated.fields[x] = Plain(w.secret)
      BY <1>8, <2>1
    <3> QED BY <1>3, <2>1, <3>1, PlainHas
  <2>2. CASE x \notin w.gives
    <3>1. updated.fields[x] = Plain(row.fields[x].value)
      BY <1>8, <2>2
    <3> QED BY <1>5, <2>2, <3>1, PlainHas
  <2> QED BY <2>1, <2>2
<1>10. updated.masterEncryption => w.header \in Passwords /\ w.header # NoPassword
  BY <1>3, <1>4, <1>8, CredentialsAssumption DEF FlagAfter
<1>11. CASE updated.masterEncryption
  <2>1. mem'[r] = sealed /\ w.header \in Passwords
    BY <1>6, <1>10, <1>11
  <2>2. /\ sealed.masterEncryption = updated.masterEncryption
        /\ \A x \in Fields : sealed.fields[x].value = updated.fields[x].value
        /\ ReadableWith(sealed, w.header)
    BY <1>7, <1>9, <1>10, <1>11, SealedIsReadable DEF sealed
  <2> QED BY <1>1, <1>8, <1>9, <2>1, <2>2 DEF Ready, Values, Flagged, Named
<1>12. CASE ~updated.masterEncryption
  <2>1. mem'[r] = updated /\ ReadableWith(updated, w.header)
    BY <1>6, <1>9, <1>12 DEF ReadableWith
  <2> QED BY <1>1, <1>8, <1>9, <1>12, <2>1 DEF Ready, Values, Flagged, Named
<1> QED BY <1>11, <1>12

LEMMA RestoreReadies ==
  ASSUME "cert" \notin Fields, TypeInv, NEW r \in Requests, RestoreConnection(r), UnderWay(r)
  PROVE  Ready(want[r], row, mem'[r])
<1> DEFINE w == want[r]
           restored == [mem[r] EXCEPT
                 !.masterEncryption = FlagAfter(w.flag, @),
                 !.fields = [x \in Fields |->
                   IF w.flag = "true" /\ w.header # NoPassword /\ x # "cert"
                   THEN Seal(Plain(w.secret), w.header) ELSE Plain(w.secret)]]
<1>1. pc[r] = "change" /\ w.op = "restore" /\ Change(r, "restore", restored)
  BY DEF RestoreConnection, Change, Changing, At
<1>2. mem[r] \in Connection /\ w \in Wants
  BY <1>1 DEF TypeInv, TypeOK, HoldsConnection
<1>3. /\ w.flag \in {"true", "false", "absent"} /\ w.secret \in Secrets /\ w.secret # Lost
      /\ w.header \in Passwords \union {NoPassword}
  BY <1>2, WantFields, CredentialsAssumption
<1>4. /\ mem[r] = row /\ w.flag # "absent" /\ w.gives = Fields
      /\ w.flag = "true" => w.header # NoPassword
  BY <1>1 DEF UnderWay, Opened, Accepted
<1>5. ReadableWith(mem'[r], w.header)
  BY <1>1, <1>4, RestoringIsReadable DEF Restored, UnderWay
<1>6. mem'[r] = restored
  <2> HIDE DEF restored
  <2> QED BY <1>1 DEF Change, TypeInv, TypeOK
<1>7. /\ restored.masterEncryption = FlagAfter(w.flag, row.masterEncryption)
      /\ \A x \in Fields : restored.fields[x] =
           IF w.flag = "true" /\ w.header # NoPassword /\ x # "cert"
           THEN Seal(Plain(w.secret), w.header) ELSE Plain(w.secret)
  BY <1>2, <1>4 DEF Connection
<1> HIDE DEF restored
<1>8. \A x \in Fields : restored.fields[x].value = w.secret
  BY <1>3, <1>7 DEF Plain, Seal
<1>9. restored.masterEncryption => w.header \in Passwords
  BY <1>3, <1>4, <1>7 DEF FlagAfter
<1> QED BY <1>1, <1>4, <1>5, <1>6, <1>7, <1>8, <1>9 DEF Ready, Values, Flagged, Named

\* Requests that save what they opened, sealed again with a password or not.
LEMMA SavedIsReady ==
  ASSUME TypeInv, SomePasswordReadsAll, NEW r \in Requests, pc[r] = "change", UnderWay(r),
         want[r].op \in Ops \ {"update", "restore"}
  PROVE  /\ \A c \in Connection :
              /\ c.fields = mem[r].fields /\ c.masterEncryption = mem[r].masterEncryption
              /\ ~c.masterEncryption
              => Ready(want[r], row, c)
         /\ mem[r].masterEncryption /\ Named(want[r]) \in Passwords
              => Ready(want[r], row, encryptConnectionCredentials(mem[r], Named(want[r])))
<1> DEFINE w == want[r]
<1>1. mem[r] \in Connection
  BY DEF TypeInv, TypeOK, HoldsConnection
<1>2. /\ mem[r].masterEncryption = row.masterEncryption
      /\ \A x \in Fields : mem[r].fields[x] = Plain(row.fields[x].value)
  BY DEF UnderWay, Opened
<1>3. \A x \in Fields : row.fields[x].value # Lost
  BY DEF UnderWay, SomePasswordReadsAll, ReadableWith
<1>4. \A x \in Fields : /\ mem[r].fields[x].value = row.fields[x].value
                        /\ mem[r].fields[x].value # Lost /\ mem[r].fields[x].seals = <<>>
  BY <1>2, <1>3, PlainHas
<1>5. ASSUME NEW c \in Connection, c.fields = mem[r].fields, ~c.masterEncryption,
             c.masterEncryption = mem[r].masterEncryption
      PROVE  Ready(w, row, c)
  <2>1. ReadableWith(c, Named(w))
    BY <1>4, <1>5 DEF ReadableWith
  <2> QED BY <1>2, <1>4, <1>5, <2>1 DEF Ready, Values, Flagged
<1>6. ASSUME mem[r].masterEncryption, Named(w) \in Passwords
      PROVE  Ready(w, row, encryptConnectionCredentials(mem[r], Named(w)))
  <2> DEFINE e == encryptConnectionCredentials(mem[r], Named(w))
  <2>1. /\ e.masterEncryption = mem[r].masterEncryption
        /\ \A x \in Fields : e.fields[x].value = mem[r].fields[x].value
        /\ ReadableWith(e, Named(w))
    BY <1>1, <1>4, <1>6, SealedIsReadable
  <2> HIDE DEF e
  <2> QED BY <1>2, <1>4, <1>6, <2>1 DEF Ready, Values, Flagged, e
<1> QED BY <1>5, <1>6

LEMMA ChangesReady ==
  ASSUME "cert" \notin Fields, TypeInv, SomePasswordReadsAll, NEW r \in Requests, UnderWay(r),
         \/ UpdateConnection(r) \/ UpdateMasterPassword(r) \/ RestoreConnection(r)
         \/ CreateProperties(r) \/ SaveTableInfo(r) \/ CreateTableAction(r)
  PROVE  Ready(want[r], row, mem'[r])
<1> DEFINE w == want[r]
<1>1. pc[r] = "change"
  BY DEF UpdateConnection, UpdateMasterPassword, RestoreConnection, CreateProperties,
         SaveTableInfo, CreateTableAction, Change, Changing, At
<1>2. mem[r] \in Connection /\ w \in Wants
  BY <1>1 DEF TypeInv, TypeOK, HoldsConnection
<1>3. w.op # "restore" =>
        /\ mem[r].masterEncryption = row.masterEncryption
        /\ row.masterEncryption => w.header \in Passwords
        /\ w.op = "updateMasterPassword" => row.masterEncryption
        /\ w.op \in {"findTables", "createAction"} => ~row.masterEncryption
  BY <1>1 DEF UnderWay, Opened
<1>4. ASSUME NEW op, NEW c, Change(r, op, c)
      PROVE  mem'[r] = c /\ w.op = op
  BY <1>4 DEF Change, Changing, TypeInv, TypeOK
<1>5. CASE UpdateConnection(r)
  BY <1>5, UpdateReadies
<1>6. CASE RestoreConnection(r)
  BY <1>6, RestoreReadies
<1>7. CASE UpdateMasterPassword(r)
  <2>1. mem'[r] = encryptConnectionCredentials(mem[r], w.newPassword)
        /\ w.op = "updateMasterPassword"
    BY <1>4, <1>7 DEF UpdateMasterPassword
  <2>2. Named(w) = w.newPassword /\ w.newPassword \in Passwords
    BY <1>2, <2>1, WantFields DEF Named
  <2> QED BY <1>1, <1>3, <2>1, <2>2, SavedIsReady DEF Ops
<1>8. CASE CreateProperties(r)
  <2>1. /\ mem'[r] = IF mem[r].masterEncryption /\ w.header # NoPassword
                     THEN encryptConnectionCredentials(mem[r], w.header) ELSE mem[r]
        /\ w.op = "createProperties"
    BY <1>4, <1>8 DEF CreateProperties
  <2>2. Named(w) = w.header
    BY <2>1 DEF Named
  <2>3. mem[r].masterEncryption => w.header \in Passwords /\ w.header # NoPassword
    BY <1>3, <2>1, CredentialsAssumption
  <2> QED BY <1>1, <1>2, <2>1, <2>2, <2>3, SavedIsReady DEF Ops
<1>9. CASE SaveTableInfo(r)
  <2>1. /\ mem'[r] = [mem[r] EXCEPT !.saved_table_info = @ + 1]
        /\ w.op = "findTables" /\ mem[r].saved_table_info = 0
    BY <1>4, <1>9 DEF SaveTableInfo
  <2>2. /\ mem'[r] \in Connection /\ mem'[r].fields = mem[r].fields
        /\ mem'[r].masterEncryption = mem[r].masterEncryption
    BY <1>2, <2>1 DEF Connection
  <2> QED BY <1>1, <1>3, <2>1, <2>2, SavedIsReady DEF Ops
<1>10. CASE CreateTableAction(r)
  <2>1. mem'[r] = [mem[r] EXCEPT !.signing_key = TRUE] /\ w.op = "createAction"
    BY <1>4, <1>10 DEF CreateTableAction
  <2>2. /\ mem'[r] \in Connection /\ mem'[r].fields = mem[r].fields
        /\ mem'[r].masterEncryption = mem[r].masterEncryption
    BY <1>2, <2>1 DEF Connection
  <2> QED BY <1>1, <1>3, <2>1, <2>2, SavedIsReady DEF Ops
<1> QED BY <1>5, <1>6, <1>7, <1>8, <1>9, <1>10

LEMMA FindReadies ==
  ASSUME OneCarefulClient, CarefulInv, NEW r \in Requests, Find(r)
  PROVE  UnderWay(r)' \/ pc'[r] \notin Calls
<1> DEFINE w == want[r]
           found == IF w.op # "restore" /\ row.masterEncryption /\ w.header # NoPassword
                    THEN decryptConnectionCredentials(row, w.header) ELSE row
<1>1. pc[r] = "find" /\ UnderWay(r) /\ row # Gone /\ Careful(w) /\ w \in Wants
  BY DEF CarefulInv, TypeInv, TypeOK, UnderWay, Find, At, Calls
<1>2. CASE End(r, "failed")
  BY <1>2 DEF CarefulInv, TypeInv, TypeOK, End, Goto, Calls
<1>3. ASSUME mem' = [mem EXCEPT ![r] = found], Goto(r, "change")
      PROVE  UnderWay(r)'
  <2>1. Opened(w, row, found)
    BY <1>1, FindOpens DEF CarefulInv
  <2> HIDE DEF found
  <2>2. mem'[r] = found /\ pc'[r] = "change" /\ row' = row /\ want'[r] = w
    BY <1>3 DEF CarefulInv, TypeInv, TypeOK, Goto, Find
  <2> HIDE DEF w
  <2>3. Opened(want'[r], row', mem'[r])
    BY <2>1, <2>2
  <2>4. row' # Gone /\ Accepted(want'[r])
    BY <1>1, <2>2 DEF UnderWay, w
  <2> QED BY <2>2, <2>3, <2>4 DEF UnderWay
<1> QED BY <1>2, <1>3 DEF Find

\* What the save of a careful request stores.
LEMMA WriteStoresAnswer ==
  ASSUME CarefulInv, NEW r \in Requests, WriteRow(r)
  PROVE  row' # Gone /\ Ready(want[r], row, row') /\ SomePasswordReadsAll'
<1>1. pc[r] = "write" /\ UnderWay(r) /\ want[r] \in Wants
  BY DEF CarefulInv, WriteRow, At, Calls, TypeInv, TypeOK
<1>2. Ready(want[r], row, mem[r]) /\ snap[r] = row /\ row # Gone
  BY <1>1 DEF UnderWay
<1>3. /\ row' \in Connection /\ row'.fields = mem[r].fields
      /\ row'.masterEncryption = mem[r].masterEncryption
  BY <1>2, WriteStores DEF CarefulInv
<1>4. ReadableWith(row', Named(want[r]))
  BY <1>2, <1>3, ReadableAlike DEF Ready
<1>5. Ready(want[r], row, row')
  BY <1>2, <1>3, <1>4 DEF Ready, Values, Flagged
<1>6. \E p \in Passwords : ReadableWith(row', p)
  <2>1. CASE row'.masterEncryption
    BY <1>4, <1>5, <2>1 DEF Ready
  <2>2. CASE ~row'.masterEncryption
    <3>1. want[r].newPassword \in Passwords
      BY <1>1, WantFields
    <3>2. ReadableWith(row', want[r].newPassword)
      BY <1>4, <2>2 DEF ReadableWith
    <3> QED BY <3>1, <3>2
  <2> QED BY <2>1, <2>2
<1> QED BY <1>3, <1>5, <1>6, GoneAssumption DEF SomePasswordReadsAll

LEMMA InitCareful == OneCarefulClient /\ Init => CarefulInv
<1> SUFFICES ASSUME Init PROVE CarefulInv
  OBVIOUS
<1>1. PICK p \in InitialPasswords, s \in Secrets, k \in SigningKeys : row = Created(p, s, k)
  BY DEF Init
<1>2. p \in Passwords \union {NoPassword} /\ s # Lost /\ k \in BOOLEAN
  BY CredentialsAssumption
<1> DEFINE plain == [masterEncryption |-> p # NoPassword,
                     fields |-> [x \in Fields |-> Plain(s)],
                     saved_table_info |-> 0, signing_key |-> k]
<1>3. plain \in Connection
  BY PlainIsField, CredentialsAssumption DEF Connection
<1>4. /\ plain.masterEncryption = (p # NoPassword)
      /\ \A x \in Fields : plain.fields[x] = Plain(s)
  OBVIOUS
<1>5. row = IF p = NoPassword THEN plain ELSE encryptConnectionCredentials(plain, p)
  BY <1>1 DEF Created
<1> HIDE DEF plain
<1>6. \A x \in Fields : plain.fields[x].value # Lost /\ plain.fields[x].seals = <<>>
  BY <1>2, <1>4, PlainHas
<1>7. \E q \in Passwords : ReadableWith(row, q)
  <2>1. CASE p = NoPassword
    <3>1. PICK w \in Wants : TRUE
      BY CredentialsAssumption
    <3>2. w.newPassword \in Passwords
      BY WantFields
    <3>3. ReadableWith(row, w.newPassword)
      BY <1>4, <1>5, <1>6, <2>1 DEF ReadableWith
    <3> QED BY <3>2, <3>3
  <2>2. CASE p # NoPassword
    BY <1>2, <1>3, <1>4, <1>5, <1>6, <2>2, SealedIsReadable
  <2> QED BY <2>1, <2>2
<1>8. \A r \in Requests : pc[r] \notin Calls
  BY DEF Init, Calls
<1> QED BY <1>7, <1>8, InitTypes DEF CarefulInv, SomePasswordReadsAll

LEMMA NextKeepsCareful == OneCarefulClient /\ CarefulInv /\ [Next]_vars => CarefulInv'
<1> SUFFICES ASSUME OneCarefulClient, CarefulInv, [Next]_vars PROVE CarefulInv'
  OBVIOUS
<1>1. TypeInv'
  BY NextKeepsTypes DEF CarefulInv
<1>2. CASE UNCHANGED vars
  BY <1>1, <1>2 DEF vars, CarefulInv, SomePasswordReadsAll, UnderWay, Careful
<1>3. SUFFICES ASSUME NEW r \in Requests, (\E w \in Wants : Start(r, w)) \/ Step(r) \/ Fail(r)
               PROVE  SomePasswordReadsAll' /\ (pc'[r] \in Calls => UnderWay(r)')
  BY <1>1, <1>2 DEF Next, CarefulInv, OneCarefulClient
<1>4. /\ pc \in [Requests -> Ended \union Calls] /\ snap \in [Requests -> Connection \union {Gone}]
      /\ want \in [Requests -> Wants]
  BY DEF CarefulInv, TypeInv, TypeOK
<1>5. row' = row => SomePasswordReadsAll'
  BY DEF CarefulInv, SomePasswordReadsAll
<1>6. ASSUME NEW w \in Wants, Start(r, w)
      PROVE  SomePasswordReadsAll' /\ UnderWay(r)'
  <2>1. row' = row /\ pc'[r] = "find" /\ want'[r] = w
    BY <1>4, <1>6 DEF Start, Goto
  <2>2. row # Gone /\ Accepted(w) /\ Careful(w)
    BY <1>6 DEF Start, OneCarefulClient
  <2>3. Careful(want[r])'
    BY <2>1, <2>2 DEF Careful
  <2> QED BY <1>5, <2>1, <2>2, <2>3 DEF UnderWay
<1>7. ASSUME Find(r)
      PROVE  SomePasswordReadsAll' /\ (pc'[r] \in Calls => UnderWay(r)')
  BY <1>5, <1>7, FindReadies DEF Find
<1>8. ASSUME \/ UpdateConnection(r) \/ UpdateMasterPassword(r) \/ RestoreConnection(r)
             \/ CreateProperties(r) \/ SaveTableInfo(r) \/ CreateTableAction(r)
      PROVE  SomePasswordReadsAll' /\ UnderWay(r)'
  <2>1. row' = row /\ pc'[r] = "load" /\ want'[r] = want[r] /\ pc[r] = "change"
    BY <1>4, <1>8 DEF UpdateConnection, UpdateMasterPassword, RestoreConnection,
         CreateProperties, SaveTableInfo, CreateTableAction, Change, Changing, At, Goto
  <2>2. UnderWay(r)
    BY <2>1 DEF CarefulInv, Calls
  <2>3. Ready(want[r], row, mem'[r])
    BY <1>8, <2>2, ChangesReady DEF CarefulInv, OneCarefulClient
  <2> QED BY <1>5, <2>1, <2>2, <2>3 DEF UnderWay
<1>9. ASSUME LoadRow(r)
      PROVE  SomePasswordReadsAll' /\ UnderWay(r)'
  <2>1. /\ row' = row /\ pc'[r] = "write" /\ want' = want /\ mem' = mem /\ pc[r] = "load"
        /\ snap'[r] = row
    BY <1>4, <1>9 DEF LoadRow, At, Goto
  <2>2. UnderWay(r)
    BY <2>1 DEF CarefulInv, Calls
  <2> QED BY <1>5, <2>1, <2>2 DEF UnderWay
<1>10. ASSUME EndUnsaved(r) \/ DeleteConnection(r) \/ WriteRow(r) \/ Fail(r)
       PROVE  SomePasswordReadsAll' /\ pc'[r] \notin Calls
  <2>1. PICK how \in Ended : End(r, how)
    BY <1>10 DEF EndUnsaved, DeleteConnection, WriteRow, Fail, Ended
  <2>2. pc'[r] \notin Calls
    BY <1>4, <2>1 DEF End, Goto, Ended, Calls
  <2>3. SomePasswordReadsAll'
    <3>1. ASSUME EndUnsaved(r) \/ Fail(r) PROVE SomePasswordReadsAll'
      BY <1>5, <3>1 DEF EndUnsaved, Fail
    <3>2. ASSUME DeleteConnection(r) PROVE SomePasswordReadsAll'
      BY <3>2 DEF DeleteConnection, SomePasswordReadsAll
    <3>3. ASSUME WriteRow(r) PROVE SomePasswordReadsAll'
      BY <3>3, WriteStoresAnswer
    <3> QED BY <1>10, <3>1, <3>2, <3>3
  <2> QED BY <2>2, <2>3
<1> QED BY <1>3, <1>6, <1>7, <1>8, <1>9, <1>10 DEF Step

(***************************************************************************)
(* One client that sends its requests one after the other and knows the    *)
(* master password: whatever it asks for, and wherever its requests fail,  *)
(* there is always one password with which all of the connection can be    *)
(* read (the saves of connection-entity.ts write all secrets at once).     *)
(***************************************************************************)
THEOREM CarefulAlwaysReadable == OneCarefulClient => (Spec => []SomePasswordReadsAll)
<1> SUFFICES ASSUME OneCarefulClient PROVE Spec => []SomePasswordReadsAll
  OBVIOUS
<1>1. Init => CarefulInv
  BY InitCareful
<1>2. CarefulInv /\ [Next]_vars => CarefulInv'
  BY NextKeepsCareful
<1>3. CarefulInv => SomePasswordReadsAll
  BY DEF CarefulInv
<1> QED BY <1>1, <1>2, <1>3, PTL DEF Spec

(***************************************************************************)
(* And what its save was answered for is what is stored: the secrets the   *)
(* request brought and no others changed, protected if it asked for that   *)
(* (update-connection.use.case.ts, restore-connection.use.case.ts), and    *)
(* readable with the password it named last.                               *)
(***************************************************************************)
THEOREM AnswersAlwaysStored == OneCarefulClient => (Spec => AnswerIsStored)
<1> SUFFICES ASSUME OneCarefulClient PROVE Spec => AnswerIsStored
  OBVIOUS
<1>1. Init => CarefulInv
  BY InitCareful
<1>2. CarefulInv /\ [Next]_vars => CarefulInv'
  BY NextKeepsCareful
<1>3. CarefulInv /\ [Next]_vars =>
        [\A r \in Requests : pc[r] = "write" /\ pc'[r] = "done" =>
           LET w == want[r]
               brought == IF w.op \in {"update", "restore"} THEN w.gives ELSE {}
               password == IF w.op = "updateMasterPassword" THEN w.newPassword ELSE w.header
           IN  /\ \A x \in Fields : row'.fields[x].value =
                     IF x \in brought THEN w.secret ELSE row.fields[x].value
               /\ row'.masterEncryption =
                     IF w.op \in {"update", "restore"}
                     THEN FlagAfter(w.flag, row.masterEncryption) ELSE row.masterEncryption
               /\ ReadableWith(row', password)]_vars
  <2> SUFFICES ASSUME CarefulInv, [Next]_vars, NEW r \in Requests, pc[r] = "write",
                      pc'[r] = "done"
               PROVE  /\ Values(want[r], row, row') /\ Flagged(want[r], row, row')
                      /\ ReadableWith(row', Named(want[r]))
    BY DEF Values, Flagged, Named
  <2>1. WriteRow(r)
    BY AnsweredByWrite DEF CarefulInv
  <2> QED BY <2>1, WriteStoresAnswer DEF Ready
<1> QED BY <1>1, <1>2, <1>3, PTL DEF Spec, AnswerIsStored
=============================================================================
