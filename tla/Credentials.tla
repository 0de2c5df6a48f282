---------------------------- MODULE Credentials ----------------------------
(***************************************************************************)
(* The row of a connection and the secrets in it.                          *)
(*                                                                         *)
(* A connection can be protected by a master password that only its users  *)
(* know: masterEncryption says so, and the secret fields are sealed with   *)
(* the password (Encryptor.encryptConnectionCredentials) before the entity *)
(* is saved.  Requests read the row, open the fields with the password     *)
(* they carry (findAndDecryptConnection), change the entity and save all   *)
(* of it.  (The hooks of the entity put a second seal, made with a key of  *)
(* the server, around whatever is saved and take it off whenever a row is  *)
(* read; the rows below are without it.)                                   *)
(*                                                                         *)
(* Repository.save SELECTs the row, and UPDATEs it when the entity differs *)
(* from what was found: the hook has then sealed the secret fields anew,   *)
(* so all of them are written, and of the other columns those that differ. *)
(* When the SELECT finds no row it is INSERTed.                            *)
(***************************************************************************)
EXTENDS Naturals, Sequences

CONSTANTS Requests,     \* slots for requests in flight
          Fields,       \* classes of secret fields, see below
          Secrets,      \* what clients enter into the fields
          Lost,         \* what remains of a secret opened with a wrong password
          Passwords,    \* master passwords
          NoPassword,   \* a request without the header masterpwd
          Gone,         \* the row that is not there
          Wants,        \* the requests clients send
          InitialPasswords, \* the passwords connections are created with
          SigningKeys,  \* whether they were created with a signing key
          CarefulClients,   \* clients know the state of the connection
          MaxRequests,  \* bound on requests of a run
          MaxFaults     \* bound on requests cut short by a failing statement

(***************************************************************************)
(* The fields are told apart by what the requests do to them: "login"      *)
(* (user name, database, and those of the SSH host) comes with every body, *)
(* "password" (and the private SSH key) only when it changes, and "cert"   *)
(* is there for connections over SSL.                                      *)
(***************************************************************************)
FieldClasses == {"login", "password", "cert"}

Ops == {"update", "updateMasterPassword", "restore", "createProperties",
        "findTables", "createAction", "delete"}

\* A request: its header masterpwd (or oldMasterPwd), newMasterPwd, and the
\* body: masterEncryption, and a secret for some of the fields.
Want == [op : Ops, header : Passwords \union {NoPassword}, newPassword : Passwords,
         flag : {"true", "false", "absent"}, gives : SUBSET Fields, secret : Secrets]

ASSUME CredentialsAssumption ==
  /\ Fields \subseteq FieldClasses /\ "login" \in Fields
  /\ Secrets # {} /\ Lost \notin Secrets
  /\ NoPassword \notin Passwords
  /\ Wants # {} /\ Wants \subseteq Want
  /\ InitialPasswords \subseteq Passwords \union {NoPassword}
  /\ SigningKeys \subseteq BOOLEAN /\ CarefulClients \in BOOLEAN
  /\ MaxRequests \in Nat /\ MaxFaults \in Nat

VARIABLES row,          \* the row of the connection
          pc,           \* the next call of each request
          want,         \* what it was asked to do
          mem,          \* the entity in its memory
          snap,         \* the row the SELECT of its save found
          disturbed,    \* history: requests another one overlapped
          issued, faults

vars == <<row, pc, want, mem, snap, disturbed, issued, faults>>

\* A secret, and the passwords it is sealed with, the outermost first.
Field == [value : Secrets \union {Lost}, seals : Seq(Passwords)]

Connection == [masterEncryption : BOOLEAN, fields : [Fields -> Field],
               saved_table_info : 0..1, signing_key : BOOLEAN]

ASSUME GoneAssumption == Gone \notin Connection

Ended == {"idle", "done", "failed"}
Calls == {"find", "change", "load", "write"}

TypeOK == /\ row \in Connection \union {Gone}
          /\ pc \in [Requests -> Ended \union Calls]
          /\ want \in [Requests -> Wants]
          /\ mem \in [Requests -> Connection \union {Gone}]
          /\ snap \in [Requests -> Connection \union {Gone}]
          /\ disturbed \subseteq Requests
          /\ issued \in 0..MaxRequests /\ faults \in 0..MaxFaults
-----------------------------------------------------------------------------
Plain(secret) == [value |-> secret, seals |-> <<>>]

\* What is lost has become the empty string, and those are left alone.
Seal(field, password) ==
  IF field.value = Lost THEN field ELSE [field EXCEPT !.seals = <<password>> \o @]

IsSealedWith(field, password) == field.seals # <<>> /\ Head(field.seals) = password

\* A wrong password makes the library throw, or answer an empty string.
MayThrow(field, password) == field.value # Lost /\ ~IsSealedWith(field, password)

Open(field, password) ==
  IF IsSealedWith(field, password) THEN [field EXCEPT !.seals = Tail(@)] ELSE Plain(Lost)

encryptConnectionCredentials(c, password) ==
  [c EXCEPT !.fields = [x \in Fields |-> Seal(c.fields[x], password)]]

decryptConnectionCredentials(c, password) ==
  [c EXCEPT !.fields = [x \in Fields |-> Open(c.fields[x], password)]]

\* buildConnectionEntity: a new connection, sealed when it came with a password.
Created(password, secret, key) ==
  LET plain == [masterEncryption |-> password # NoPassword,
                fields |-> [x \in Fields |-> Plain(secret)],
                saved_table_info |-> 0, signing_key |-> key]
  IN  IF password = NoPassword THEN plain ELSE encryptConnectionCredentials(plain, password)

Init ==
  /\ row \in {Created(p, s, k) : p \in InitialPasswords, s \in Secrets, k \in SigningKeys}
  /\ pc = [r \in Requests |-> "idle"]
  /\ want = [r \in Requests |-> CHOOSE w \in Wants : TRUE]
  /\ mem = [r \in Requests |-> Gone] /\ snap = [r \in Requests |-> Gone]
  /\ disturbed = {}
  /\ issued = 0 /\ faults = 0
-----------------------------------------------------------------------------
At(r, call) == pc[r] = call
Goto(r, call) == pc' = [pc EXCEPT ![r] = call]

\* An ended request holds nothing.
End(r, how) == /\ Goto(r, how)
               /\ mem' = [mem EXCEPT ![r] = Gone] /\ snap' = [snap EXCEPT ![r] = Gone]

\* The checks of the controller: MASTER_PASSWORD_REQUIRED, and both passwords
\* of a change of the master password.  (An update names at least the login, a
\* restoration everything.)
Accepted(w) ==
  /\ w.op \in {"update", "restore"} /\ w.flag = "true" => w.header # NoPassword
  /\ w.op = "updateMasterPassword" => w.header # NoPassword
  /\ w.op = "update" => "login" \in w.gives
  /\ w.op = "restore" => w.gives = Fields

\* Clients that know the password there is, say what they want when they
\* restore a connection, and leave alone the two calls that strip the seal.
Careful(w) ==
  IF w.op = "restore" THEN w.flag # "absent"
  ELSE /\ row.masterEncryption => \A x \in Fields : IsSealedWith(row.fields[x], w.header)
       /\ w.op = "updateMasterPassword" => row.masterEncryption
       /\ w.op \in {"findTables", "createAction"} => ~row.masterEncryption

Start(r, w) ==
  /\ pc[r] \in Ended /\ issued < MaxRequests
  /\ row # Gone /\ Accepted(w)
  /\ CarefulClients => Careful(w)
  /\ issued' = issued + 1
  /\ want' = [want EXCEPT ![r] = w]
  /\ Goto(r, "find")
  /\ LET others == {q \in Requests : pc[q] \in Calls} IN
       disturbed' = IF others = {} THEN disturbed \ {r} ELSE disturbed \union others \union {r}
  /\ UNCHANGED <<row, mem, snap, faults>>

\* findAndDecryptConnection; a restoration reads with findOneById, unopened.
\* No request survives a connection that is not there.
Find(r) ==
  LET w == want[r]
      opens == w.op # "restore" /\ row.masterEncryption /\ w.header # NoPassword
  IN  /\ At(r, "find")
      /\ \/ /\ row # Gone
            /\ mem' = [mem EXCEPT ![r] =
                         IF opens THEN decryptConnectionCredentials(row, w.header) ELSE row]
            /\ Goto(r, "change") /\ UNCHANGED snap
         \/ /\ row # Gone => opens /\ \E x \in Fields : MayThrow(row.fields[x], w.header)
            /\ End(r, "failed")
      /\ UNCHANGED <<row, want, disturbed, issued, faults>>

Changing(r, op) == At(r, "change") /\ want[r].op = op

\* The entity is changed in memory, and its save comes next.
Change(r, op, entity) ==
  /\ Changing(r, op)
  /\ mem' = [mem EXCEPT ![r] = entity]
  /\ Goto(r, "load")
  /\ UNCHANGED <<row, want, snap, disturbed, issued, faults>>

FlagAfter(flag, before) == IF flag = "absent" THEN before ELSE flag = "true"

\* Mutant: the updated entity is not sealed again.
UpdateUnsealed(r) ==
  LET w == want[r]
      updated == [mem[r] EXCEPT
                    !.masterEncryption = FlagAfter(w.flag, @),
                    !.fields = [x \in Fields |-> IF x \in w.gives THEN Plain(w.secret) ELSE @[x]]]
  IN  Change(r, "update", updated)

\* UpdateConnectionUseCase: what the body has is assigned over the entity,
\* empty fields are not, and all is sealed if the entity says so now.
UpdateConnection(r) ==
  LET w == want[r]
      updated == [mem[r] EXCEPT
                    !.masterEncryption = FlagAfter(w.flag, @),
                    !.fields = [x \in Fields |-> IF x \in w.gives THEN Plain(w.secret) ELSE @[x]]]
  IN  Change(r, "update",
             IF updated.masterEncryption /\ w.header # NoPassword
             THEN encryptConnectionCredentials(updated, w.header) ELSE updated)

\* Mutant: sealed with the old password again.
SealWithOldPassword(r) ==
  Change(r, "updateMasterPassword", encryptConnectionCredentials(mem[r], want[r].header))

\* UpdateConnectionMasterPasswordUseCase.
UpdateMasterPassword(r) ==
  Change(r, "updateMasterPassword", encryptConnectionCredentials(mem[r], want[r].newPassword))

\* Mutant: the restored fields are sealed one by one, and then as in an update.
RestoreSealedTwice(r) ==
  LET w == want[r]
      restored == [mem[r] EXCEPT !.masterEncryption = FlagAfter(w.flag, @),
                                 !.fields = [x \in Fields |-> Seal(Plain(w.secret), w.header)]]
  IN  Change(r, "restore", encryptConnectionCredentials(restored, w.header))

\* RestoreConnectionUseCase: every field is replaced, and sealed if the body
\* asks for it - but for the certificate (updateConnectionEntityForRestoration).
RestoreConnection(r) ==
  LET w == want[r]
      Restored(x) == IF w.flag = "true" /\ w.header # NoPassword /\ x # "cert"
                     THEN Seal(Plain(w.secret), w.header) ELSE Plain(w.secret)
  IN  Change(r, "restore", [mem[r] EXCEPT !.masterEncryption = FlagAfter(w.flag, @),
                                          !.fields = [x \in Fields |-> Restored(x)]])

\* The customer's database accepts secrets that are neither sealed nor lost.
CanConnect(c) == \A x \in Fields : c.fields[x].value # Lost /\ c.fields[x].seals = <<>>

\* Mutant: the entity is saved as it was opened.
CreatePropertiesUnsealed(r) ==
  /\ Changing(r, "createProperties") /\ CanConnect(mem[r])
  /\ Change(r, "createProperties", mem[r])

\* CreateConnectionPropertiesUseCase: the tables are listed to check the body,
\* the properties saved, and then the connection.
CreateProperties(r) ==
  LET w == want[r] IN
  /\ Changing(r, "createProperties") /\ CanConnect(mem[r])
  /\ Change(r, "createProperties",
            IF mem[r].masterEncryption /\ w.header # NoPassword
            THEN encryptConnectionCredentials(mem[r], w.header) ELSE mem[r])

\* FindTablesInConnectionUseCase, after its answer: the structures of the
\* tables are saved in the background, and the connection says so.
SaveTableInfo(r) ==
  /\ Changing(r, "findTables") /\ CanConnect(mem[r]) /\ mem[r].saved_table_info = 0
  /\ Change(r, "findTables", [mem[r] EXCEPT !.saved_table_info = @ + 1])

\* CreateTableActionUseCase, for a connection older than signing keys.
CreateTableAction(r) ==
  /\ Changing(r, "createAction") /\ ~mem[r].signing_key
  /\ Change(r, "createAction", [mem[r] EXCEPT !.signing_key = TRUE])

\* The requests that end without a save of the connection.
EndUnsaved(r) ==
  LET w == want[r] IN
  /\ At(r, "change")
  /\ \/ w.op \in {"createProperties", "findTables"} /\ ~CanConnect(mem[r]) /\ End(r, "failed")
     \/ w.op = "findTables" /\ CanConnect(mem[r]) /\ mem[r].saved_table_info # 0 /\ End(r, "done")
     \/ w.op = "createAction" /\ mem[r].signing_key /\ End(r, "done")
  /\ UNCHANGED <<row, want, disturbed, issued, faults>>

\* DeleteConnectionUseCase.
DeleteConnection(r) ==
  /\ Changing(r, "delete")
  /\ row' = Gone
  /\ End(r, "done")
  /\ UNCHANGED <<want, disturbed, issued, faults>>

\* Repository.save, first half: the SELECT.
LoadRow(r) ==
  /\ At(r, "load")
  /\ snap' = [snap EXCEPT ![r] = row]
  /\ Goto(r, "write")
  /\ UNCHANGED <<row, want, mem, disturbed, issued, faults>>

\* Whether the request sealed fields: a seal is salted and never the same.
SealedAnew(r) ==
  /\ \E x \in Fields : mem[r].fields[x].seals # <<>>
  /\ \/ want[r].op = "updateMasterPassword"
     \/ want[r].op = "restore" /\ want[r].flag = "true"
     \/ /\ want[r].op \in {"update", "createProperties"}
        /\ mem[r].masterEncryption /\ want[r].header # NoPassword

Differing(new, old, now) == IF new # old THEN new ELSE now

\* The UPDATE of entity m, when the SELECT had found s.
Updated(m, s) ==
  [masterEncryption |-> Differing(m.masterEncryption, s.masterEncryption, row.masterEncryption),
   fields           |-> m.fields,
   saved_table_info |-> Differing(m.saved_table_info, s.saved_table_info, row.saved_table_info),
   signing_key      |-> Differing(m.signing_key, s.signing_key, row.signing_key)]

\* Second half: the INSERT (with a new signing key, refused when a row is
\* there), the UPDATE (which a row that is gone does not feel), or nothing.
WriteRow(r) ==
  LET m == mem[r]
      s == snap[r]
  IN  /\ At(r, "write")
      /\ row' = IF s = Gone THEN (IF row = Gone THEN [m EXCEPT !.signing_key = TRUE] ELSE row)
                ELSE IF row # Gone /\ (SealedAnew(r) \/ m # s) THEN Updated(m, s) ELSE row
      /\ End(r, IF s = Gone /\ row # Gone THEN "failed" ELSE "done")
      /\ UNCHANGED <<want, disturbed, issued, faults>>

\* A statement fails or the process dies.
Fail(r) ==
  /\ pc[r] \in Calls /\ faults < MaxFaults
  /\ faults' = faults + 1
  /\ End(r, "failed")
  /\ UNCHANGED <<row, want, disturbed, issued>>

Step(r) ==
  \/ Find(r)
  \/ UpdateConnection(r)  \/ UpdateMasterPassword(r) \/ RestoreConnection(r)
  \/ CreateProperties(r)  \/ SaveTableInfo(r)        \/ CreateTableAction(r)
  \/ EndUnsaved(r)        \/ DeleteConnection(r)
  \/ LoadRow(r)           \/ WriteRow(r)

Next == \E r \in Requests : (\E w \in Wants : Start(r, w)) \/ Step(r) \/ Fail(r)

Spec == Init /\ [][Next]_vars
-----------------------------------------------------------------------------
(***************************************************************************)
(* A request that carries this password reads the secrets of c in plain.   *)
(***************************************************************************)
ReadableWith(c, password) ==
  \A x \in Fields : /\ c.fields[x].value # Lost
                    /\ c.fields[x].seals = IF c.masterEncryption THEN <<password>> ELSE <<>>

(***************************************************************************)
(* One request at a time, of clients who know the password: there is one   *)
(* password with which all of the connection can be read, also when        *)
(* requests fail half way.                                                 *)
(***************************************************************************)
SomePasswordReadsAll == row # Gone => \E p \in Passwords : ReadableWith(row, p)

Answers(r, op) == want[r].op = op /\ pc[r] = "write" /\ pc'[r] = "done"

(***************************************************************************)
(* What such a request was answered for is what is stored: the secrets it  *)
(* brought and no others changed, readable with the password it named last *)
(* (header of an update or restoration, newMasterPwd of a change).         *)
(***************************************************************************)
AnswerIsStored ==
  [][\A r \in Requests : pc[r] = "write" /\ pc'[r] = "done" =>
       LET w == want[r]
           brought == IF w.op \in {"update", "restore"} THEN w.gives ELSE {}
           password == IF w.op = "updateMasterPassword" THEN w.newPassword ELSE w.header
       IN  /\ \A x \in Fields : row'.fields[x].value =
                 IF x \in brought THEN w.secret ELSE row.fields[x].value
           /\ row'.masterEncryption =
                 IF w.op \in {"update", "restore"}
                 THEN FlagAfter(w.flag, row.masterEncryption) ELSE row.masterEncryption
           /\ ReadableWith(row', password)]_vars

(***************************************************************************)
(* A connection whose master password was lost can be renewed              *)
(* (connection.controller.ts:598-604): whatever clients did before, with   *)
(* whatever passwords and at once, when a restoration that nothing         *)
(* overlapped is answered the connection can be read with its password.    *)
(***************************************************************************)
RestoredIsReadable ==
  [][\A r \in Requests :
       Answers(r, "restore") /\ r \notin disturbed /\ want[r].flag # "absent"
         => ReadableWith(row', want[r].header)]_vars

IsBare(field) == field.value # Lost /\ field.seals = <<>>

(***************************************************************************)
(* "A master password is required if you want to apply additional          *)
(* encryption." (messages.ts:122): a connection that says it has a master  *)
(* password is stored with that encryption.                                *)
(***************************************************************************)
StaysEncrypted ==
  row # Gone => (row.masterEncryption => \A x \in Fields : ~IsBare(row.fields[x]))

\* Requests that name a password and never turn the protection off or strip
\* it (a restoration strips certificates), on connections that started with it.
ClientsProtect ==
  /\ \A w \in Wants : /\ w.header # NoPassword /\ w.flag # "false"
                      /\ w.op = "restore" => w.flag = "true" /\ "cert" \notin Fields
                      /\ w.op \notin {"findTables", "createAction"}
  /\ NoPassword \notin InitialPasswords

\* One request at a time, of clients that know the state of the connection,
\* which has no certificate.
OneCarefulClient ==
  /\ CarefulClients /\ "cert" \notin Fields
  /\ \A r, q \in Requests : r = q
=============================================================================
