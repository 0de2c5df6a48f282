------------------------------ MODULE Reminders ------------------------------
(***************************************************************************)
(* The reminder mails of the morning job (entities/user-actions), run      *)
(* under the lock of module JobLock.  What happens to one user depends on  *)
(* no other, so that one user is followed: whether table rows were ever    *)
(* received for it, its row of user_action, and the mails it has got.      *)
(*                                                                         *)
(* Besides the job, requests of the user and the midnight job write the    *)
(* row: they read it, and save all of what they read.                      *)
(***************************************************************************)
EXTENDS JobLock

CONSTANTS NoAction,     \* null, for a row of user_action
          MaxMails      \* more mails than these are not counted

Rows == [finished : BOOLEAN, sent : BOOLEAN]

ASSUME MaxMailsAssumption == MaxMails \in Nat \ {0, 1}
ASSUME NoActionAssumption == NoAction \notin Rows

VARIABLES action,       \* user_action of the user: [finished, sent], or NoAction
          logs,         \* whether the log has rows of every connection of the user
          job,          \* job[i]: where instance i is in the job, and the row it read
          writer,       \* a request or the midnight job: what it read and will save
          mails,        \* mails the user has got
          excuses       \* history: what may have gone wrong

jobVars      == <<action, logs, job, writer, mails, excuses>>
reminderVars == <<lockVars, jobVars>>

NoJob    == [at |-> "start", copy |-> NoAction]
NoWriter == [at |-> "none", copy |-> NoAction, finished |-> FALSE]

\* findUsersWithoutLogs: the conditions are read as "unsent, or no row and no
\* logs"; the age and the message, which only the other query asks for, leave
\* nobody out.
Due == IF action = NoAction THEN ~logs ELSE ~action.sent

In(i, at)  == pc[i] = "body" /\ job[i].at = at
Then(i, at, copy) == job' = [job EXCEPT ![i] = [at |-> at, copy |-> copy]]
-----------------------------------------------------------------------------
(***************************************************************************)
(* The job: CheckUsersActionsAndMailingUsersUseCase, then                  *)
(* sendRemindersToUsers.  What fails for one user is swallowed             *)
(* (Promise.allSettled), and the mail is sent all the same.                *)
(***************************************************************************)
FindUsers(i) ==
  /\ In(i, "start")
  /\ Then(i, IF Due THEN "find" ELSE "done", NoAction)
  /\ UNCHANGED <<lockVars, action, logs, writer, mails, excuses>>
FindUnsent(i) ==
  /\ In(i, "find")
  /\ IF action # NoAction /\ ~action.sent THEN Then(i, "mark", action) ELSE Then(i, "add", NoAction)
  /\ UNCHANGED <<lockVars, action, logs, writer, mails, excuses>>
Mark(i) ==
  /\ In(i, "mark")
  /\ action' = [job[i].copy EXCEPT !.sent = TRUE]
  /\ Then(i, "add", NoAction)
  /\ UNCHANGED <<lockVars, logs, writer, mails, excuses>>
\* A variant that adds a row like a request's.
AddUnsent(i) ==
  /\ In(i, "add")
  /\ action' = IF action = NoAction THEN [finished |-> FALSE, sent |-> FALSE] ELSE action
  /\ excuses' = IF action # NoAction /\ ~action.sent THEN excuses \union {"request"} ELSE excuses
  /\ Then(i, "mail", NoAction)
  /\ UNCHANGED <<lockVars, logs, writer, mails>>
\* A row is added whether or not one was marked; the key of the one-to-one
\* refuses a second one, which is swallowed even where a request has made the
\* first one since.
AddAction(i) ==
  /\ In(i, "add")
  /\ action' = IF action = NoAction THEN [finished |-> FALSE, sent |-> TRUE] ELSE action
  /\ excuses' = IF action # NoAction /\ ~action.sent THEN excuses \union {"request"} ELSE excuses
  /\ Then(i, "mail", NoAction)
  /\ UNCHANGED <<lockVars, logs, writer, mails>>
\* A variant that counts the mail and forgets to send it.
MailLater(i) ==
  /\ In(i, "mail") /\ Then(i, "done", NoAction)
  /\ UNCHANGED <<lockVars, action, logs, writer, mails, excuses>>
Mail(i) ==
  /\ In(i, "mail")
  /\ mails' = IF mails < MaxMails THEN mails + 1 ELSE mails
  /\ Then(i, "done", NoAction)
  /\ UNCHANGED <<lockVars, action, logs, writer, excuses>>
Work(i) == FindUsers(i) \/ FindUnsent(i) \/ Mark(i) \/ AddAction(i) \/ Mail(i)

EndOfJob(i) ==
  /\ job[i].at = "done" /\ FinishBody(i)
  /\ Then(i, "start", NoAction)
  /\ UNCHANGED <<action, logs, writer, mails, excuses>>
\* The database refuses a statement of the job, or the mail is refused.
WorkFails(i) ==
  /\ BodyFails(i) /\ job[i].at # "done"
  /\ Then(i, IF job[i].at \in {"start", "mail"} THEN "done" ELSE "mail", NoAction)
  /\ excuses' = excuses \union {"fault"}
  /\ UNCHANGED <<action, logs, writer, mails>>
-----------------------------------------------------------------------------
(***************************************************************************)
(* The others.                                                             *)
(***************************************************************************)
\* The user gets rows of a table, or makes another connection.
UseTable ==
  /\ logs' = ~logs
  /\ UNCHANGED <<lockVars, action, job, writer, mails, excuses>>
\* CreateUserActionUseCase: the user's row gets the message of the request.
PostAction ==
  /\ writer = NoWriter
  /\ \E f \in BOOLEAN : writer' = [at |-> "save", copy |-> action, finished |-> f]
  /\ UNCHANGED <<lockVars, action, logs, job, mails, excuses>>
\* CheckUsersLogsAndUpdateActionsUseCase, in the midnight job: it lists the
\* rows nobody was mailed for, and reads them again one by one.  Whether the
\* user received rows of a table, on which it also depends, is left open.
ListActions ==
  /\ writer = NoWriter
  /\ action # NoAction /\ ~action.finished /\ ~action.sent
  /\ writer' = [NoWriter EXCEPT !.at = "read"]
  /\ UNCHANGED <<lockVars, action, logs, job, mails, excuses>>
ReadAction ==
  /\ writer.at = "read"
  /\ \/ /\ action # NoAction /\ ~action.finished
        /\ writer' = [at |-> "save", copy |-> action, finished |-> TRUE]
     \/ writer' = NoWriter
  /\ UNCHANGED <<lockVars, action, logs, job, mails, excuses>>
\* Both save: what was read with the message, or a row where none was read,
\* which is refused when there is one by now.
Written(w) == IF w.copy # NoAction THEN [w.copy EXCEPT !.finished = w.finished]
              ELSE IF action = NoAction THEN [finished |-> w.finished, sent |-> FALSE]
              ELSE action
SaveAction ==
  /\ writer.at = "save"
  /\ action' = Written(writer)
  /\ writer' = NoWriter
  /\ excuses' = IF action # NoAction /\ action.sent /\ ~Written(writer).sent
                THEN excuses \union {"request"} ELSE excuses
  /\ UNCHANGED <<lockVars, logs, job, mails>>
-----------------------------------------------------------------------------
RemindersInit ==
  /\ LockInit
  /\ action \in {NoAction} \union [finished : BOOLEAN, sent : {FALSE}]
  /\ logs \in BOOLEAN
  /\ job = [i \in Instances |-> NoJob]
  /\ writer = NoWriter /\ mails = 0 /\ excuses = {}

\* The lock takes its steps while the job is not at work; it may let a second
\* instance in.
Overlap == \E i, x \in Instances : i # x /\ pc[i] = "body" /\ pc[x] = "body"
Around(step) == /\ step
                /\ excuses' = excuses \union (IF Overlap' THEN {"overlap"} ELSE {})
                /\ UNCHANGED <<action, logs, job, writer, mails>>
LockMoves(i) == Around(Tick(i) \/ LockStep(i) \/ StatementFails(i))
Crashes(i) == /\ Crash(i)
              /\ Then(i, "start", NoAction)
              /\ excuses' = excuses \union {"fault"}
              /\ UNCHANGED <<action, logs, writer, mails>>

RemindersNext ==
  \/ \E i \in Instances : \/ LockMoves(i) \/ Work(i) \/ EndOfJob(i)
                          \/ WorkFails(i) \/ Crashes(i)
  \/ UseTable \/ PostAction \/ ListActions \/ ReadAction \/ SaveAction

\* As in JobLock; and a job that was started works on.
Fairness == \A i \in Instances :
              /\ WF_reminderVars(Around(Tick(i)))
              /\ WF_reminderVars(Around(LockStep(i)))
              /\ WF_reminderVars(Work(i) \/ EndOfJob(i))
RemindersSpec == RemindersInit /\ [][RemindersNext]_reminderVars /\ Fairness
-----------------------------------------------------------------------------
\* Every variable has the values its rows and steps can have.
Stages == {"start", "find", "mark", "add", "mail", "done"}
RemindersTypeOK ==
  /\ LockTypeOK
  /\ action \in Rows \union {NoAction}
  /\ logs \in BOOLEAN
  /\ job \in [Instances -> [at : Stages, copy : Rows \union {NoAction}]]
  /\ writer \in [at : {"none", "read", "save"}, copy : Rows \union {NoAction}, finished : BOOLEAN]
  /\ \A i \in Instances : /\ pc[i] # "body" => job[i].at = "start"
                          /\ job[i].at = "mark" => job[i].copy # NoAction
  /\ mails \in 0..MaxMails

(***************************************************************************)
(* The user gets one reminder, however often the job runs, unless two      *)
(* instances worked at a time, a step failed, or a request wrote the row   *)
(* between the statements of the job, or saved a copy from before them     *)
(* (check-users-actions-and-mailing-users.use.case.ts:43-56).              *)
(***************************************************************************)
RemindedOnce == mails > 1 => excuses # {}

(***************************************************************************)
(* A row that says the mail was sent tells the truth, or the instance that *)
(* marked it is about to send the mail, or something failed: the mark is   *)
(* saved first.                                                            *)
(***************************************************************************)
MarkedWasMailed ==
  action # NoAction /\ action.sent =>
    \/ mails > 0 \/ "fault" \in excuses
    \/ \E i \in Instances : In(i, "add") \/ In(i, "mail")

(***************************************************************************)
(* Who is due does not stay due: some instance gets to it, in spite of     *)
(* rows left behind by crashed instances and of failed steps.              *)
(***************************************************************************)
DueIsDealtWith == Due ~> ~Due
=============================================================================
