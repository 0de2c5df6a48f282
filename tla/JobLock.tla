------------------------------ MODULE JobLock ------------------------------
(***************************************************************************)
(* The row of job_list that keeps a nightly job to one backend instance.   *)
(*                                                                         *)
(* Every instance of the backend runs the same cron handler                *)
(* (CronJobsService.handleCron / handleMailingCron).  The handler tries to *)
(* insert the row of its job key, runs the job when the insert answered    *)
(* true, and in its `finally` block removes the row, whether or not it was *)
(* the instance that inserted it.                                          *)
(*                                                                         *)
(* Repository.save of an entity whose primary key is set is not one        *)
(* statement: TypeORM first SELECTs the row and, outside any transaction,  *)
(* then INSERTs it, or does nothing when the SELECT found it.              *)
(***************************************************************************)
EXTENDS Naturals, FiniteSets

CONSTANTS Instances,    \* the running processes of the backend
          JobKey,       \* MIDNIGHT_CRON_KEY or MORNING_CRON_KEY ...
          OtherJobKey,  \* ... and the other one, whose row is not modelled
          MaxFaults     \* bound on crashes and failed statements of a run

ASSUME MaxFaultsAssumption == MaxFaults \in Nat

VARIABLES jobList,      \* the job keys that have a row in job_list
          pc,           \* pc[i]: where instance i is in its handler
          faults        \* crashes and failed statements so far

lockVars == <<jobList, pc, faults>>

(***************************************************************************)
(* "idle"      no handler is running                                       *)
(* "find"      insertJob is about to call findOne                          *)
(* "select"    findOne saw no row; save() is about to SELECT               *)
(* "insert"    the SELECT of save() saw no row; the INSERT is next         *)
(* "body"      the insert answered true, the job itself is running         *)
(* "release"   in `finally`: removeJob is about to call findOne            *)
(* "delete"    that findOne saw a row; its DELETE is next                  *)
(***************************************************************************)
LockPlaces == {"idle", "find", "select", "insert", "body", "release", "delete"}

LockTypeOK == /\ jobList \subseteq {JobKey}
              /\ pc \in [Instances -> LockPlaces]
              /\ faults \in 0..MaxFaults

LockInit == /\ jobList = {}
            /\ pc = [i \in Instances |-> "idle"]
            /\ faults = 0

Move(i, from, to) == /\ pc[i] = from
                     /\ pc' = [pc EXCEPT ![i] = to]

\* The @Cron decorator starts the handler.
Tick(i) == /\ Move(i, "idle", "find")
           /\ UNCHANGED <<jobList, faults>>

\* Mutant: only the instance that inserted the row reaches the finally block.
FindJobOwnerReleases(i) ==
  /\ Move(i, "find", IF JobKey \in jobList THEN "idle" ELSE "select")
  /\ UNCHANGED <<jobList, faults>>

\* insertJob: findOne; a row found means false, and the handler returns
\* through its finally block.
FindJob(i) == /\ Move(i, "find", IF JobKey \in jobList THEN "release" ELSE "select")
              /\ UNCHANGED <<jobList, faults>>

\* The SELECT of save(newJob): a row that appeared meanwhile leaves nothing to
\* write, and save answers the entity, which is true.
SaveSelect(i) == /\ Move(i, "select", IF JobKey \in jobList THEN "body" ELSE "insert")
                 /\ UNCHANGED <<jobList, faults>>

\* The INSERT of save(newJob): the primary key refuses a second row, and the
\* catch block answers false.
SaveInsert(i) == /\ Move(i, "insert", IF JobKey \in jobList THEN "release" ELSE "body")
                 /\ jobList' = jobList \union {JobKey}
                 /\ UNCHANGED faults

\* Mutant: an exception of the job leaves the handler past its finally block.
FinishBodyThrows(i) == /\ \E to \in {"release", "idle"} : Move(i, "body", to)
                       /\ UNCHANGED <<jobList, faults>>

\* The job itself ends, normally or by an exception that the handler catches.
FinishBody(i) == /\ Move(i, "body", "release")
                 /\ UNCHANGED <<jobList, faults>>

\* finally: removeJob looks for the row ...
FindToRemove(i) == /\ Move(i, "release", IF JobKey \in jobList THEN "delete" ELSE "idle")
                   /\ UNCHANGED <<jobList, faults>>

\* ... and deletes it by its key, whoever inserted it.
RemoveJob(i) == /\ Move(i, "delete", "idle")
                /\ jobList' = jobList \ {JobKey}
                /\ UNCHANGED faults

\* A statement fails.  In findOne and save of insertJob that ends the try
\* block; in the finally block it leaves the handler with the row in place.
StatementFails(i) ==
  /\ faults < MaxFaults
  /\ \/ \E from \in {"find", "select", "insert"} : Move(i, from, "release")
     \/ \E from \in {"release", "delete"} : Move(i, from, "idle")
  /\ faults' = faults + 1
  /\ UNCHANGED jobList

\* The process dies and is started again: the handler is lost, the row stays.
Crash(i) == /\ faults < MaxFaults
            /\ pc[i] # "idle"
            /\ pc' = [pc EXCEPT ![i] = "idle"]
            /\ faults' = faults + 1
            /\ UNCHANGED jobList

\* A statement of the job itself fails, and the job goes on.
BodyFails(i) == /\ faults < MaxFaults
                /\ pc[i] = "body"
                /\ faults' = faults + 1
                /\ UNCHANGED <<jobList, pc>>

\* The statements of the handler outside the job's own body.
LockStep(i) == \/ FindJob(i)      \/ SaveSelect(i)   \/ SaveInsert(i)
               \/ FindToRemove(i) \/ RemoveJob(i)

LockNext == \E i \in Instances :
               \/ Tick(i)
               \/ LockStep(i)
               \/ FinishBody(i)
               \/ StatementFails(i)
               \/ Crash(i)
               \/ BodyFails(i)

\* A started handler runs on, a started job ends, and the schedule fires again
\* every day on every instance.
LockFairness == \A i \in Instances :
                   /\ WF_lockVars(Tick(i))
                   /\ WF_lockVars(LockStep(i))
                   /\ WF_lockVars(FinishBody(i))

LockSpec == LockInit /\ [][LockNext]_lockVars /\ LockFairness
-----------------------------------------------------------------------------
Held == {"body", "release", "delete"}

(***************************************************************************)
(* Without a crash or a failed statement the row never outlives the        *)
(* handlers: some instance that will still reach its DELETE is running.    *)
(* handleCron's finally block (cron-jobs.service.ts:41-43) is what keeps   *)
(* it; an early return that skipped the block would leave the row behind   *)
(* and no instance would run the job that day or the next.                 *)
(***************************************************************************)
RowHasARemover == (JobKey \in jobList /\ faults = 0) => \E i \in Instances : pc[i] \in Held

=============================================================================
