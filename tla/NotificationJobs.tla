---------------------------- MODULE NotificationJobs ----------------------------
(***************************************************************************)
(* Notifications that an administrator sends through the queue             *)
(* (NotificationsService.send, NotificationQueueService,                   *)
(* NotificationProcessor).  The processor inserts the row and tells the    *)
(* sockets of the user in one try; a job that fails is tried again, and a  *)
(* worker that stalls may go on although its job was given to another.     *)
(* The queue itself is BullMQ's and external.                              *)
(***************************************************************************)
EXTENDS Naturals, FiniteSets

CONSTANTS
  Jobs,         \* jobs, never used twice
  Executions,   \* executions of the processor, never used twice (bounds them)
  JobAttempts,  \* queue.retryAttempts
  MaxStalls     \* BullMQ's maxStalledCount

ASSUME NotificationJobsAssumption ==
  /\ JobAttempts \in Nat \ {0} /\ MaxStalls \in Nat
  /\ "no job" \notin Jobs /\ "nobody" \notin Executions

VARIABLES
  job,         \* the jobs of the queue
  execution,   \* what the workers do
  inserted,    \* the executions that inserted their row
  rows,        \* those whose row is there
  told         \* those that emitted their notification

jobVars == <<job, execution, inserted, rows, told>>

JobRecord == [state : {"none", "waiting", "active", "completed", "failed"},
              tries : Nat, stalls : Nat, holder : Executions \cup {"nobody"}]
Execution == [pc : {"unused", "create", "emit", "error", "done"}, job : Jobs \cup {"no job"}]

Holds(e, j) == execution[e].job = j /\ job[j].state = "active" /\ job[j].holder = e
Of(j, some) == {e \in some : execution[e].job = j}

-----------------------------------------------------------------------------
(* Mutations. *)

(* The error is logged and not thrown again. *)
InsertFailsQuietly(e) ==
  /\ execution[e].pc = "create"
  /\ execution' = [execution EXCEPT ![e].pc = "done"]
  /\ job' = IF Holds(e, execution[e].job) THEN [job EXCEPT ![execution[e].job].state = "completed"] ELSE job
  /\ UNCHANGED <<inserted, rows, told>>

(* A try is not counted. *)
FailUncounted(e) ==
  LET j == execution[e].job IN
  /\ execution[e].pc = "error"
  /\ execution' = [execution EXCEPT ![e].pc = "done"]
  /\ job' = IF Holds(e, j) THEN [job EXCEPT ![j].state = "waiting", ![j].holder = "nobody"] ELSE job
  /\ UNCHANGED <<inserted, rows, told>>

(* A job is removed when it fails, though tries are left. *)
FailRemoves(e) ==
  LET j == execution[e].job IN
  /\ execution[e].pc = "error"
  /\ execution' = [execution EXCEPT ![e].pc = "done"]
  /\ job' = IF Holds(e, j) THEN [job EXCEPT ![j].state = "none", ![j].tries = @ + 1, ![j].holder = "nobody"] ELSE job
  /\ UNCHANGED <<inserted, rows, told>>

-----------------------------------------------------------------------------
Enqueue(j) ==
  /\ job[j].state = "none"
  /\ job' = [job EXCEPT ![j].state = "waiting"]
  /\ UNCHANGED <<execution, inserted, rows, told>>

(* A worker takes a job: external up to the call of process. *)
Take(j, e) ==
  /\ job[j].state = "waiting"
  /\ execution[e].pc = "unused"
  /\ job' = [job EXCEPT ![j].state = "active", ![j].holder = e]
  /\ execution' = [execution EXCEPT ![e] = [pc |-> "create", job |-> j]]
  /\ UNCHANGED <<inserted, rows, told>>

InsertRow(e) ==
  /\ execution[e].pc = "create"
  /\ inserted' = inserted \cup {e}
  /\ rows' = rows \cup {e}
  /\ execution' = [execution EXCEPT ![e].pc = "emit"]
  /\ UNCHANGED <<job, told>>

InsertFails(e) ==
  /\ execution[e].pc = "create"
  /\ execution' = [execution EXCEPT ![e].pc = "error"]
  /\ UNCHANGED <<job, inserted, rows, told>>

(* process returns: only the worker that holds the job completes it. *)
EmitNotification(e) ==
  /\ execution[e].pc = "emit"
  /\ told' = told \cup {e}
  /\ execution' = [execution EXCEPT ![e].pc = "done"]
  /\ job' = IF Holds(e, execution[e].job) THEN [job EXCEPT ![execution[e].job].state = "completed"] ELSE job
  /\ UNCHANGED <<inserted, rows>>

(* The adapter of the sockets throws, after the row is there. *)
EmitFails(e) ==
  /\ execution[e].pc = "emit"
  /\ execution' = [execution EXCEPT ![e].pc = "error"]
  /\ UNCHANGED <<job, inserted, rows, told>>

(* process throws: the try counts, and the last one fails the job. *)
Fail(e) ==
  LET j == execution[e].job
      last == job[j].tries + 1 >= JobAttempts IN
  /\ execution[e].pc = "error"
  /\ execution' = [execution EXCEPT ![e].pc = "done"]
  /\ job' = IF Holds(e, j)
              THEN [job EXCEPT ![j].state = IF last THEN "failed" ELSE "waiting",
                               ![j].tries = @ + 1, ![j].holder = "nobody"]
              ELSE job
  /\ UNCHANGED <<inserted, rows, told>>

(* The lock of a slow worker expires; the worker goes on. *)
Stall(j) ==
  /\ job[j].state = "active"
  /\ job' = [job EXCEPT ![j].state = IF job[j].stalls < MaxStalls THEN "waiting" ELSE "failed",
                        ![j].stalls = @ + 1, ![j].holder = "nobody"]
  /\ UNCHANGED <<execution, inserted, rows, told>>

(* The server goes down with all its workers; the queue is in Redis. *)
Crash ==
  /\ \E e \in Executions : execution[e].pc \notin {"unused", "done"}
  /\ execution' = [e \in Executions |->
       IF execution[e].pc = "unused" THEN execution[e] ELSE [execution[e] EXCEPT !.pc = "done"]]
  /\ UNCHANGED <<job, inserted, rows, told>>

DeleteNotification(e) ==
  /\ e \in rows
  /\ rows' = rows \ {e}
  /\ UNCHANGED <<job, execution, inserted, told>>

Work(e) == InsertRow(e) \/ InsertFails(e) \/ EmitNotification(e) \/ EmitFails(e) \/ Fail(e)

JobsNext ==
  \/ \E j \in Jobs : Enqueue(j) \/ Stall(j)
  \/ \E j \in Jobs, e \in Executions : Take(j, e)
  \/ \E e \in Executions : Work(e) \/ DeleteNotification(e)
  \/ Crash

JobsInit ==
  /\ job = [j \in Jobs |-> [state |-> "none", tries |-> 0, stalls |-> 0, holder |-> "nobody"]]
  /\ execution = [e \in Executions |-> [pc |-> "unused", job |-> "no job"]]
  /\ inserted = {} /\ rows = {} /\ told = {}

(* Workers take what waits and go on; a lock that nobody renews expires.   *)
JobsFairness ==
  /\ \A j \in Jobs : WF_jobVars(\E e \in Executions : Take(j, e))
  /\ \A e \in Executions : WF_jobVars(Work(e))
  /\ \A j \in Jobs : WF_jobVars(Stall(j) /\ \A e \in Executions : Holds(e, j) => execution[e].pc = "done")

JobsSpec == JobsInit /\ [][JobsNext]_jobVars /\ JobsFairness

-----------------------------------------------------------------------------
(* Jobs, executions and rows keep their shape. *)
JobsTypeOK ==
  /\ job \in [Jobs -> JobRecord]
  /\ execution \in [Executions -> Execution]
  /\ inserted \subseteq Executions /\ rows \subseteq inserted /\ told \subseteq inserted

(* A job counts as completed only when its notification was inserted and   *)
(* the user was told of it, whatever failed, stalled or crashed before.    *)
CompletedIsTold == \A j \in Jobs : job[j].state = "completed" => Of(j, told) # {}

(* The retries of a job and the workers that lost it insert its            *)
(* notification once each and no more.                                     *)
RowsBounded == \A j \in Jobs : Cardinality(Of(j, inserted)) <= JobAttempts + MaxStalls

(* Every notification that was sent is delivered or given up.              *)
JobsEnd == \A j \in Jobs : job[j].state # "none" ~> job[j].state \in {"completed", "failed"}
===============================================================================
