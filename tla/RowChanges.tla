----------------------------- MODULE RowChanges -----------------------------
(***************************************************************************)
(* Adding, updating and deleting a row of a customer's table, and reading  *)
(* its rows (entities/table/use-cases).  A use case reads the settings of  *)
(* the table, checks the request against them, reads the row, changes it   *)
(* with one statement, reads it again for the answer and writes a record   *)
(* of the log in a finally block.  The row lives in the database of the    *)
(* customer, the settings, the accounts and the log in that of the         *)
(* backend; no transaction spans two calls.  An interceptor answers 408    *)
(* after 15 seconds while the use case goes on.                            *)
(***************************************************************************)
EXTENDS Naturals, FiniteSets

CONSTANTS Requests,       \* requests; each is sent at most once
          Users,
          Columns, Values,
          Keys,           \* the columns of the primary key
          Generated,      \* the columns the database fills in (nextval, generate)
          hash,           \* what the encryption of a password widget yields
          Masked,         \* REMOVED_PASSWORD_VALUE
          InitialTables,  \* contents the table may have at first
          Wants,          \* the requests clients send
          SettingsChoices,\* settings the table may have
          NoSettings, NoRow, NoRecord,
          MaxEvents       \* bound on what happens around the requests: faults,
                          \* timeouts, changed settings, deleted accounts

Partial(S) == UNION {[C -> Values] : C \in SUBSET S}
Rows       == [Columns -> Values]

Operations == {"rows", "add", "update", "delete"}

(***************************************************************************)
(* A request: the user, the operation, the key of the query string (a      *)
(* column that the query lacks is undefined there and dropped), the body.  *)
(***************************************************************************)
Want == [user : Users, op : Operations, key : Partial(Keys), body : Partial(Columns)]

\* The row in table_settings and the password widgets that hang on it.
Settings == [can : SUBSET {"add", "update", "delete"}, list_fields : SUBSET Columns,
             excluded_fields : SUBSET Columns, passwords : SUBSET Columns]

\* A record of the log.
Outcomes == {"unknown", "successfully", "unsuccessfully"}

Record == [op : Operations, status : Outcomes,
           data : Partial(Columns), old : Partial(Columns) \union {NoRow}]

\* A row as it is answered.
ShownRows == UNION {[C -> Values \union {Masked}] : C \in SUBSET Columns}

UniqueKeys(rows) ==
  \A a, b \in rows : (\A c \in Keys : a[c] = b[c]) => a = b

ASSUME RowChangesAssumption ==
  /\ Keys \subseteq Columns /\ Keys # {} /\ Generated \subseteq Columns
  /\ hash \in [Values -> Values]
  /\ InitialTables \subseteq SUBSET Rows
  /\ \A rows \in InitialTables : UniqueKeys(rows)
  /\ Wants \subseteq Want
  /\ SettingsChoices \subseteq Settings /\ NoSettings \notin Settings
  /\ NoRow \notin Partial(Columns) \union ShownRows /\ NoRecord \notin Record
  /\ MaxEvents \in Nat

VARIABLES table,     \* the rows of the customer's table
          settings,  \* its settings, or NoSettings
          accounts,  \* users that have an account
          log,       \* log[r]: the record r wrote, or NoRecord
          pc,        \* the next call of r
          want,      \* what r asks for
          using,     \* tableSettings in memory
          old,       \* oldRowData in memory
          future,    \* the key the row is read again by
          outcome,   \* operationResult
          shown,     \* the row of the answer
          reply,     \* the answer of r
          gone,      \* history: the rows r took out of the table ...
          came,      \* ... and the rows it put into it
          permitted, \* history: requests the settings permitted at some time
          overtaken, \* history: requests during which another one changed the table
          hit,       \* history: requests a failing statement or a crash struck
          cut,       \* history: requests whose record could not be written
          events     \* events so far

stored   == <<table, settings, accounts, log>>
memory   == <<using, old, future, outcome, shown>>
requests == <<pc, want, memory, reply>>
history  == <<gone, came, permitted, overtaken, hit, cut>>
vars     == <<stored, requests, history, events>>

Calls    == {"read", "old", "write", "readBack", "log"}
Replies  == {"none", "ok", "invalid", "forbidden", "notFound", "failed", "error", "timeout"}

StoredOK ==
  /\ table \subseteq Rows /\ UniqueKeys(table)
  /\ settings \in Settings \union {NoSettings}
  /\ accounts \subseteq Users
  /\ log \in [Requests -> Record \union {NoRecord}]

MemoryOK ==
  /\ using \in [Requests -> Settings \union {NoSettings}]
  /\ old \in [Requests -> Partial(Columns) \union {NoRow}]
  /\ future \in [Requests -> Partial(Keys)]
  /\ shown \in [Requests -> ShownRows \union {NoRow}]

ControlOK ==
  /\ pc \in [Requests -> Calls \union {"unsent", "done"}]
  /\ want \in [Requests -> Want]
  /\ outcome \in [Requests -> Outcomes]
  /\ reply \in [Requests -> Replies]

HistoryOK ==
  /\ gone \in [Requests -> SUBSET Rows] /\ came \in [Requests -> SUBSET Rows]
  /\ permitted \subseteq Requests /\ overtaken \subseteq Requests
  /\ hit \subseteq Requests /\ cut \subseteq Requests
  /\ events \in 0..MaxEvents

TypeOK == StoredOK /\ MemoryOK /\ ControlOK /\ HistoryOK
-----------------------------------------------------------------------------
Active(r) == pc[r] \in Calls

Permits(s, op) == s = NoSettings \/ op = "rows" \/ op \in s.can

\* row[c] for the columns both have.
Only(row, C) == [c \in C |-> row[c]]
Merge(row, body) == [c \in DOMAIN row \union DOMAIN body |->
                       IF c \in DOMAIN body THEN body[c] ELSE row[c]]
Matching(rows, key) == {row \in rows : \A c \in DOMAIN key : row[c] = key[c]}

(***************************************************************************)
(* findAvaliableFields: the listed columns, or all of them, without the    *)
(* excluded ones.  Selecting nothing is selecting all.  The excluded ones  *)
(* are spliced out of the array of the settings object itself, which a     *)
(* second call then finds shorter.                                         *)
(***************************************************************************)
AvailableFields(s) ==
  IF s = NoSettings THEN Columns
  ELSE LET fields == (IF s.list_fields = {} THEN Columns ELSE s.list_fields)
                       \ s.excluded_fields
       IN  IF fields = {} THEN Columns ELSE fields

Spliced(s) ==
  IF s = NoSettings THEN s ELSE [s EXCEPT !.list_fields = @ \ s.excluded_fields]

Passwords(s) == IF s = NoSettings THEN {} ELSE s.passwords

\* hashPasswordsInRowUtil and removePasswordsFromRowsUtil.
Hashed(body, s) == [c \in DOMAIN body |-> IF c \in Passwords(s) THEN hash[body[c]] ELSE body[c]]
Hidden(row, s)  == [c \in DOMAIN row |-> IF c \in Passwords(s) THEN Masked ELSE row[c]]
-----------------------------------------------------------------------------
NoKey == [c \in {} |-> NoRow]

Init ==
  /\ table \in InitialTables
  /\ settings \in SettingsChoices \union {NoSettings}
  /\ accounts = Users
  /\ log = [r \in Requests |-> NoRecord]
  /\ pc = [r \in Requests |-> "unsent"]
  /\ want \in [Requests -> Wants]
  /\ using = [r \in Requests |-> NoSettings]
  /\ old = [r \in Requests |-> NoRow]
  /\ future = [r \in Requests |-> NoKey]
  /\ outcome = [r \in Requests |-> "unknown"]
  /\ shown = [r \in Requests |-> NoRow]
  /\ reply = [r \in Requests |-> "none"]
  /\ gone = [r \in Requests |-> {}] /\ came = [r \in Requests |-> {}]
  /\ permitted = {} /\ overtaken = {} /\ hit = {} /\ cut = {}
  /\ events = 0
-----------------------------------------------------------------------------
Goto(r, call)    == pc' = [pc EXCEPT ![r] = call]
Conclude(r, o)   == outcome' = [outcome EXCEPT ![r] = o]
\* Only the first answer reaches the client.
Answer(r, a)     == reply' = [reply EXCEPT ![r] = IF @ = "none" THEN a ELSE @]

\* A request arrives and its guard (TableAddGuard, TableEditGuard ...) lets it
\* pass.
Send(r) ==
  /\ pc[r] = "unsent" /\ want[r].user \in accounts
  /\ Goto(r, "read")
  /\ permitted' = IF Permits(settings, want[r].op) THEN permitted \union {r} ELSE permitted
  /\ UNCHANGED <<stored, want, memory, reply, gone, came, overtaken, hit, cut, events>>

\* Mutant: any column of the key will do.
EmptyKey(w) == DOMAIN w.key = {}

BadKey(w)  == DOMAIN w.key # Keys                   \* compareArrayElements
BadBody(w) == DOMAIN w.body \cap Generated # {}     \* validateTableRowUtil

\* Mutant: a deletion does not ask the settings.
RefusalButDelete(w, s) ==
  IF w.op \in {"update", "delete"} /\ BadKey(w) THEN "invalid"
  ELSE IF w.op # "delete" /\ ~Permits(s, w.op) THEN "forbidden"
  ELSE IF w.op \in {"add", "update"} /\ BadBody(w) THEN "invalid"
  ELSE "none"

\* The first check that fails, in the order of the use case.
Refusal(w, s) ==
  IF w.op = "delete" /\ BadKey(w) THEN "invalid"
  ELSE IF ~Permits(s, w.op) THEN "forbidden"
  ELSE IF \/ w.op \in {"add", "update"} /\ BadBody(w)
          \/ w.op = "update" /\ BadKey(w) THEN "invalid"
  ELSE "none"

\* The structure of the table, its settings and widgets, and the checks.
ReadTable(r) ==
  /\ pc[r] = "read" /\ want[r].op # "rows"
  /\ using' = [using EXCEPT ![r] = settings]
  /\ LET refusal == Refusal(want[r], settings) IN
       IF refusal # "none"
       THEN Goto(r, "done") /\ Answer(r, refusal)
       ELSE /\ Goto(r, IF want[r].op = "add" THEN "write" ELSE "old")
            /\ UNCHANGED reply
  /\ UNCHANGED <<stored, want, old, future, outcome, shown, history, events>>

\* get-table-rows: what it returns is not modelled, what it records is.
ReadRows(r) ==
  /\ pc[r] = "read" /\ want[r].op = "rows"
  /\ Conclude(r, "successfully") /\ Goto(r, "log")
  /\ UNCHANGED <<stored, want, using, old, future, shown, reply, history, events>>

(***************************************************************************)
(* The row before the change.  An update assigns the body to the object it *)
(* just read (Object.assign(oldRowData, row)), and takes the future key    *)
(* from it: a key column that is neither shown nor in the body is missing. *)
(***************************************************************************)
ReadOld(r) ==
  LET found == Matching(table, want[r].key)
      row(full) == Only(full, AvailableFields(using[r]))
      merged(full) == IF want[r].op = "update" THEN Merge(row(full), want[r].body)
                      ELSE row(full)
  IN  /\ pc[r] = "old"
      /\ IF found = {}
         THEN /\ Goto(r, "done") /\ Answer(r, "notFound")
              /\ UNCHANGED <<using, old, future>>
         ELSE /\ \E full \in found :
                    /\ old' = [old EXCEPT ![r] = merged(full)]
                    /\ future' = [future EXCEPT ![r] =
                                    Only(merged(full), Keys \cap DOMAIN merged(full))]
              /\ using' = [using EXCEPT ![r] = Spliced(@)]
              /\ Goto(r, "write") /\ UNCHANGED reply
      /\ UNCHANGED <<stored, want, outcome, shown, history, events>>

\* Inside the try block an error is caught, recorded and answered as a failure.
Caught(r) == Conclude(r, "unsuccessfully") /\ Goto(r, "log")

Happens == events < MaxEvents /\ events' = events + 1

\* A fault strikes r.
Strike(r) == Happens /\ hit' = hit \union {r}

\* No two rows would have the same key.
Fits(from, to) ==
  /\ UniqueKeys(to)
  /\ \A row \in to : Matching(table \ from, Only(row, Keys)) = {}

(***************************************************************************)
(* The statement that changes the table.  The database refuses a second    *)
(* row with a key, and the connection may break after the change took      *)
(* effect and before its answer arrived.                                   *)
(***************************************************************************)
Statement(r, from, to, next) ==
  IF Fits(from, to)
  THEN /\ table' = (table \ from) \union to
       /\ gone' = [gone EXCEPT ![r] = from]
       /\ came' = [came EXCEPT ![r] = to]
       /\ overtaken' = overtaken \union {q \in Requests \ {r} : Active(q) /\ table' # table}
       /\ \/ Conclude(r, "successfully") /\ Goto(r, next) /\ UNCHANGED <<hit, events>>
          \/ Caught(r) /\ Strike(r)
       /\ UNCHANGED <<settings, accounts, log, permitted, cut>>
  ELSE Caught(r) /\ UNCHANGED <<stored, history, events>>

\* Columns the body does not give are filled in by the database.  The insert
\* returns the key.
AddRow(r) ==
  LET body == Hashed(want[r].body, using[r]) IN
  /\ pc[r] = "write" /\ want[r].op = "add"
  /\ \E row \in Rows :
        /\ \A c \in DOMAIN body : row[c] = body[c]
        /\ Statement(r, {}, {row}, "readBack")
        /\ future' = [future EXCEPT ![r] = Only(row, Keys)]
  /\ UNCHANGED <<want, using, old, shown, reply>>

UpdateRow(r) ==
  LET rows == Matching(table, want[r].key)
      body == Hashed(want[r].body, using[r])
  IN  /\ pc[r] = "write" /\ want[r].op = "update"
      /\ Statement(r, rows, {Merge(row, body) : row \in rows}, "readBack")
      /\ UNCHANGED <<want, using, old, future, shown, reply>>

DeleteRow(r) ==
  /\ pc[r] = "write" /\ want[r].op = "delete"
  /\ Statement(r, Matching(table, want[r].key), {}, "log")
  /\ UNCHANGED <<want, using, old, future, shown, reply>>

\* Mutant: the row is looked for under the key of the request.
ReadBackOldKey(r) ==
  LET found == Matching(table, want[r].key)
      row(full) == Hidden(Only(full, AvailableFields(using[r])), using[r])
  IN  /\ pc[r] = "readBack"
      /\ IF found = {} /\ Passwords(using[r]) # {}
         THEN Caught(r) /\ UNCHANGED shown
         ELSE /\ IF found = {} THEN UNCHANGED shown
                 ELSE \E full \in found : shown' = [shown EXCEPT ![r] = row(full)]
              /\ Goto(r, "log") /\ UNCHANGED outcome
      /\ UNCHANGED <<stored, want, using, old, future, reply, history, events>>

(***************************************************************************)
(* The row is read again for the answer.  The query builder throws on a    *)
(* key column without a value, and hiding the passwords throws when there  *)
(* is no row; both throw after the change took effect.                     *)
(***************************************************************************)
ReadBack(r) ==
  LET found == Matching(table, future[r])
      row(full) == Hidden(Only(full, AvailableFields(using[r])), using[r])
  IN  /\ pc[r] = "readBack"
      /\ IF DOMAIN future[r] # Keys \/ (found = {} /\ Passwords(using[r]) # {})
         THEN Caught(r) /\ UNCHANGED shown
         ELSE /\ IF found = {} THEN UNCHANGED shown
                 ELSE \E full \in found : shown' = [shown EXCEPT ![r] = row(full)]
              /\ Goto(r, "log") /\ UNCHANGED outcome
      /\ UNCHANGED <<stored, want, using, old, future, reply, history, events>>

\* Mutant: the body is recorded as it came.
RecordedAsSent(r) ==
  [op |-> want[r].op, status |-> outcome[r],
   data |-> IF want[r].op = "delete" THEN want[r].key ELSE want[r].body,
   old |-> old[r]]

\* What is written into the log.
Recorded(r) ==
  [op |-> want[r].op, status |-> outcome[r],
   data |-> IF want[r].op = "delete" THEN want[r].key ELSE Hashed(want[r].body, using[r]),
   old |-> old[r]]

\* Mutant: a failure is answered without a record.
LogSuccess(r) ==
  /\ pc[r] = "log"
  /\ Goto(r, "done")
  /\ Answer(r, IF outcome[r] = "successfully" THEN "ok" ELSE "failed")
  /\ log' = IF outcome[r] = "successfully" THEN [log EXCEPT ![r] = Recorded(r)] ELSE log
  /\ UNCHANGED <<table, settings, accounts, want, memory, history, events>>

(***************************************************************************)
(* The finally block: crateAndSaveNewLogUtil reads the address of the user *)
(* first, and throws if the account is gone; that error takes the place of *)
(* the answer.                                                             *)
(***************************************************************************)
WriteLog(r) ==
  /\ pc[r] = "log"
  /\ Goto(r, "done")
  /\ IF want[r].user \in accounts
     THEN /\ log' = [log EXCEPT ![r] = Recorded(r)]
          /\ Answer(r, IF outcome[r] = "successfully" THEN "ok" ELSE "failed")
          /\ UNCHANGED cut
     ELSE /\ cut' = cut \union {r} /\ Answer(r, "error") /\ UNCHANGED log
  /\ UNCHANGED <<table, settings, accounts, want, memory, gone, came, permitted, overtaken,
                 hit, events>>

\* TimeoutInterceptor: the client has its answer, the use case goes on.
Timeout(r) ==
  /\ Active(r) /\ reply[r] = "none" /\ Happens
  /\ Answer(r, "timeout")
  /\ UNCHANGED <<stored, pc, want, memory, history>>

\* A statement fails without effect.  (get-table-rows has its try block around
\* all but the first of its reads.)
Fail(r) ==
  /\ Active(r) /\ Strike(r)
  /\ \/ /\ pc[r] \in {"read", "old"}
        /\ Goto(r, "done") /\ Answer(r, "error") /\ UNCHANGED <<outcome, cut>>
     \/ /\ pc[r] \in {"write", "readBack"} \/ (pc[r] = "read" /\ want[r].op = "rows")
        /\ Caught(r) /\ UNCHANGED <<reply, cut>>
     \/ /\ pc[r] = "log"
        /\ Goto(r, "done") /\ Answer(r, "error") /\ cut' = cut \union {r} /\ UNCHANGED outcome
  /\ UNCHANGED <<stored, want, using, old, future, shown, gone, came, permitted, overtaken>>

\* The process dies between two calls.
Crash(r) ==
  /\ Active(r) /\ Strike(r)
  /\ Goto(r, "done") /\ cut' = cut \union {r}
  /\ UNCHANGED <<stored, want, memory, reply, gone, came, permitted, overtaken>>

(***************************************************************************)
(* The other endpoints: settings are saved or removed, accounts deleted.   *)
(* tableSettingsFieldValidator lets excluded key columns pass: the message *)
(* is pushed to an array that is not returned.                             *)
(***************************************************************************)
ChangeSettings(s) ==
  /\ Happens /\ s # settings
  /\ settings' = s
  /\ permitted' = permitted \union {q \in Requests : Active(q) /\ Permits(s, want[q].op)}
  /\ UNCHANGED <<table, accounts, log, requests, gone, came, overtaken, hit, cut>>

DeleteAccount(u) ==
  /\ u \in accounts /\ Happens
  /\ accounts' = accounts \ {u}
  /\ UNCHANGED <<table, settings, log, requests, history>>

Step(r) == \/ ReadTable(r) \/ ReadRows(r) \/ ReadOld(r)
           \/ AddRow(r) \/ UpdateRow(r) \/ DeleteRow(r)
           \/ ReadBack(r) \/ WriteLog(r)

Next == \/ \E r \in Requests : Send(r) \/ Step(r) \/ Timeout(r) \/ Fail(r) \/ Crash(r)
        \/ \E s \in SettingsChoices \union {NoSettings} : ChangeSettings(s)
        \/ \E u \in Users : DeleteAccount(u)

Spec == Init /\ [][Next]_vars
-----------------------------------------------------------------------------
Changed(r) == gone[r] # {} \/ came[r] # {}
Alone(r)   == r \notin overtaken

(***************************************************************************)
(* A change of the table is on the record, also if the client was told     *)
(* that the request timed out or failed - unless the record itself could   *)
(* not be written (finally block of the three use cases).                  *)
(***************************************************************************)
ChangedIsLogged ==
  \A r \in Requests : pc[r] = "done" /\ Changed(r) /\ r \notin cut => log[r] # NoRecord

(***************************************************************************)
(* Who changed the table was allowed to by the settings at some time       *)
(* between the request and the change, however the settings were changed   *)
(* meanwhile (can_add, can_update, can_delete are tested on a copy).       *)
(***************************************************************************)
ChangesWerePermitted ==
  \A r \in Requests : Changed(r) => r \in permitted

Agree(f, g) == \A c \in DOMAIN f \cap DOMAIN g : f[c] = g[c]

(***************************************************************************)
(* A record of success, of a request nothing overtook, tells the change:   *)
(* the data of an addition or an update are in the row, the key of a       *)
(* deletion was the row's, and the old data are those of the row that      *)
(* left - except for the columns of the body, which Object.assign          *)
(* (update-row-in-table.use.case.ts:152) has overwritten in them.          *)
(***************************************************************************)
RecordTellsTheChange ==
  \A r \in Requests :
     log[r] # NoRecord /\ Alone(r) /\ log[r].status = "successfully" =>
       LET record == log[r] IN
       /\ record.op \in {"add", "update"} =>
            came[r] # {} /\ \A row \in came[r] : Agree(record.data, row)
       /\ record.op \in {"update", "delete"} =>
            /\ gone[r] # {} /\ record.old # NoRow
            /\ \A row \in gone[r] :
                 /\ Agree(Only(record.old, DOMAIN record.old \ DOMAIN want[r].body), row)
                 /\ record.op = "delete" => Agree(record.data, row)

(***************************************************************************)
(* The row a client is answered after an addition or an update that        *)
(* nothing overtook is the row it made, as far as it is shown.             *)
(***************************************************************************)
AnsweredIsStored ==
  \A r \in Requests :
     reply[r] = "ok" /\ Alone(r) /\ want[r].op \in {"add", "update"} =>
       /\ shown[r] # NoRow
       /\ \A row \in came[r] :
             Agree(Hidden(Only(row, DOMAIN shown[r]), using[r]), shown[r])

(***************************************************************************)
(* A change that is answered as failed did not take effect, if nothing     *)
(* overtook it, no fault struck it, and the key of the row is shown by the *)
(* settings or given in the body: the second read of the row finds it.     *)
(***************************************************************************)
KeyIsKnown(r) == Keys \subseteq AvailableFields(using[r]) \union DOMAIN want[r].body

FailedMeansUnchanged ==
  \A r \in Requests :
     reply[r] = "failed" /\ Alone(r) /\ r \notin hit /\ KeyIsKnown(r) => ~Changed(r)

(***************************************************************************)
(* Both: what a client is told of a change - the row it made, or that it   *)
(* failed - is what happened.                                              *)
(***************************************************************************)
AnswersAreTrue == AnsweredIsStored /\ FailedMeansUnchanged

(***************************************************************************)
(* Seen as changes and records, the use cases keep the promises of         *)
(* AuditedTable.                                                           *)
(***************************************************************************)
Did(r) == IF gone[r] = {} /\ came[r] = {} THEN "nothing"
          ELSE IF gone[r] = {} THEN "add"
          ELSE IF came[r] = {} THEN "delete" ELSE "update"

Entry(record) == IF record = NoRecord THEN NoRecord ELSE <<record.op, record.status>>

Dids    == [r \in Requests |-> Did(r)]
Entries == [r \in Requests |-> Entry(log[r])]

Audited == INSTANCE AuditedTable WITH did <- Dids, log <- Entries

KeepsAudit == Audited!Spec
=============================================================================
