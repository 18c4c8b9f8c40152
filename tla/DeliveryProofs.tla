---------------------------- MODULE DeliveryProofs ----------------------------
(***************************************************************************)
(* Proofs about what reaches the users: notifications that are tried again *)
(* (NotificationJobs) and push messages (PushDelivery).                    *)
(***************************************************************************)
EXTENDS NotificationJobs, PushDelivery, FiniteSetTheorems, TLAPS

-----------------------------------------------------------------------------
(* NotificationJobs.  An execution works on a job, and what it did is      *)
(* remembered under an identity that is not taken again.                   *)
Runs(j) == {e \in Executions : execution[e].job = j}

WorkersBusy ==
  \A e \in Executions :
    /\ e \in inserted => execution[e].pc # "unused"
    /\ execution[e].pc = "emit" => e \in inserted
    /\ execution[e].pc = "unused" => execution[e].job \notin Jobs
    /\ execution[e].pc \notin {"unused", "done"} => execution[e].job \in Jobs

(* Every execution of a job ended in a counted try or in a counted stall,  *)
(* but for the one that holds the job or has completed it.                 *)
RunsCounted ==
  \A j \in Jobs :
    /\ IsFiniteSet(Runs(j))
    /\ Cardinality(Runs(j)) =
         job[j].tries + job[j].stalls + (IF job[j].state \in {"active", "completed"} THEN 1 ELSE 0)

JobLimits ==
  \A j \in Jobs :
    /\ job[j].tries + job[j].stalls <= JobAttempts + MaxStalls
    /\ job[j].state # "failed" => job[j].tries < JobAttempts /\ job[j].stalls <= MaxStalls

JobsInv == JobsTypeOK /\ WorkersBusy /\ RunsCounted /\ JobLimits /\ CompletedIsTold

LEMMA JobsInitial == JobsInit => JobsInv
<1> SUFFICES ASSUME JobsInit PROVE JobsInv
  OBVIOUS
<1> USE NotificationJobsAssumption DEF JobsInit
<1>1. [state |-> "none", tries |-> 0, stalls |-> 0, holder |-> "nobody"] \in JobRecord
  BY DEF JobRecord
<1>2. [pc |-> "unused", job |-> "no job"] \in Execution
  BY DEF Execution
<1>3. JobsTypeOK
  BY <1>1, <1>2 DEF JobsTypeOK
<1>4. \A j \in Jobs : job[j].state = "none" /\ job[j].tries = 0 /\ job[j].stalls = 0
  OBVIOUS
<1>5. \A e \in Executions : execution[e].pc = "unused" /\ execution[e].job = "no job"
  OBVIOUS
<1> HIDE NotificationJobsAssumption DEF JobsInit
<1>8. WorkersBusy
  BY <1>5, NotificationJobsAssumption DEF WorkersBusy, JobsInit
<1>9. JobLimits
  <2>0. JobAttempts \in Nat \ {0} /\ MaxStalls \in Nat
    BY NotificationJobsAssumption
  <2>1. JobAttempts \in Nat /\ 0 < JobAttempts /\ MaxStalls \in Nat
    BY <2>0
  <2>2. 0 + 0 <= JobAttempts + MaxStalls
    BY <2>1
  <2> QED BY <1>4, <2>1, <2>2 DEF JobLimits
<1>10. CompletedIsTold
  BY <1>4 DEF CompletedIsTold
<1>6. ASSUME NEW j \in Jobs PROVE IsFiniteSet(Runs(j)) /\ Cardinality(Runs(j)) = 0
  <2>1. Runs(j) = {}
    BY <1>5, NotificationJobsAssumption DEF Runs
  <2> QED BY <2>1, FS_EmptySet
<1>7. RunsCounted
  <2> SUFFICES ASSUME NEW j \in Jobs
               PROVE  /\ IsFiniteSet(Runs(j))
                      /\ Cardinality(Runs(j)) =
                           job[j].tries + job[j].stalls + (IF job[j].state \in {"active", "completed"} THEN 1 ELSE 0)
    BY DEF RunsCounted
  <2>1. (IF job[j].state \in {"active", "completed"} THEN 1 ELSE 0) = 0
    BY <1>4
  <2> QED BY <1>4, <1>6, <2>1
<1> QED BY <1>3, <1>7, <1>8, <1>9, <1>10 DEF JobsInv

(* A step that gives no job to a worker keeps what was done for the jobs.  *)
LEMMA SameRuns ==
  ASSUME JobsInv, JobsTypeOK', \A e \in Executions : execution'[e].job = execution[e].job, told \subseteq told',
         \A j \in Jobs :
           /\ job'[j].tries + job'[j].stalls + (IF job'[j].state \in {"active", "completed"} THEN 1 ELSE 0) =
                job[j].tries + job[j].stalls + (IF job[j].state \in {"active", "completed"} THEN 1 ELSE 0)
           /\ job'[j].state = "completed" => job[j].state = "completed" \/ Of(j, told') # {}
  PROVE  RunsCounted' /\ CompletedIsTold'
<1>1. \A j : Runs(j)' = Runs(j)
  BY DEF Runs
<1>2. \A j : told \subseteq Executions /\ told' \subseteq Executions
  BY DEF JobsInv, JobsTypeOK
<1>3. \A j : Of(j, told) \subseteq Of(j, told)'
  BY <1>2 DEF Of
<1>4. RunsCounted'
  BY <1>1 DEF JobsInv, RunsCounted
<1>5. CompletedIsTold'
  BY <1>2, <1>3 DEF JobsInv, CompletedIsTold, Of
<1> QED BY <1>4, <1>5

LEMMA EnqueueKeeps == ASSUME JobsInv, NEW j \in Jobs, Enqueue(j) PROVE JobsInv'
<1> USE DEF Enqueue
<1>1. PICK row \in JobRecord :
        /\ row.state = "waiting" /\ row.tries = job[j].tries /\ row.stalls = job[j].stalls
        /\ job' = [job EXCEPT ![j] = row]
  <2>1. [job[j] EXCEPT !.state = "waiting"] \in JobRecord
    BY DEF JobsInv, JobsTypeOK, JobRecord
  <2> QED BY <2>1 DEF JobsInv, JobsTypeOK, JobRecord
<1>2. JobsTypeOK'
  BY <1>1 DEF JobsInv, JobsTypeOK
<1>3. WorkersBusy'
  BY DEF JobsInv, WorkersBusy
<1>4. JobLimits'
  BY <1>1 DEF JobsInv, JobsTypeOK, JobLimits
<1>5. RunsCounted' /\ CompletedIsTold'
  BY <1>1, <1>2, SameRuns DEF JobsInv, JobsTypeOK
<1> QED BY <1>2, <1>3, <1>4, <1>5 DEF JobsInv

(* Only Take adds to the executions of a job, and it counts one. *)
LEMMA TakeKeeps == ASSUME JobsInv, NEW j \in Jobs, NEW e \in Executions, Take(j, e) PROVE JobsInv'
<1> USE DEF Take
<1>1. PICK row \in JobRecord :
        /\ row.state = "active" /\ row.tries = job[j].tries /\ row.stalls = job[j].stalls
        /\ job' = [job EXCEPT ![j] = row]
  <2>1. [job[j] EXCEPT !.state = "active", !.holder = e] \in JobRecord
    BY DEF JobsInv, JobsTypeOK, JobRecord
  <2>2. job' = [job EXCEPT ![j] = [job[j] EXCEPT !.state = "active", !.holder = e]]
    OBVIOUS
  <2> QED BY <2>1, <2>2 DEF JobsInv, JobsTypeOK, JobRecord
<1>2. PICK run \in Execution :
        run.pc = "create" /\ run.job = j /\ execution' = [execution EXCEPT ![e] = run]
  <2>1. [pc |-> "create", job |-> j] \in Execution
    BY DEF Execution
  <2> QED BY <2>1
<1>3. /\ execution[e].pc = "unused" /\ job[j].state = "waiting" /\ UNCHANGED <<inserted, rows, told>>
      /\ job \in [Jobs -> JobRecord] /\ execution \in [Executions -> Execution]
      /\ inserted \subseteq Executions /\ rows \subseteq inserted /\ told \subseteq inserted
  BY DEF JobsInv, JobsTypeOK
<1> HIDE DEF Take
<1>4. JobsTypeOK'
  BY <1>1, <1>2, <1>3 DEF JobsTypeOK
<1>5. WorkersBusy'
  BY <1>2, <1>3 DEF JobsInv, WorkersBusy
<1>6. JobLimits'
  BY <1>1, <1>3 DEF JobsInv, JobLimits
<1>7. e \notin inserted /\ execution[e].job \notin Jobs
  BY <1>3 DEF JobsInv, WorkersBusy
<1>8. CompletedIsTold'
  <2>1. \A k \in Jobs : Of(k, told)' = Of(k, told)
    BY <1>2, <1>3, <1>7 DEF Of
  <2>2. \A k \in Jobs : job'[k].state = "completed" => job[k].state = "completed"
    BY <1>1, <1>3
  <2> QED BY <2>1, <2>2 DEF JobsInv, CompletedIsTold
<1>9. RunsCounted'
  <2> SUFFICES ASSUME NEW k \in Jobs
               PROVE  /\ IsFiniteSet(Runs(k)')
                      /\ Cardinality(Runs(k)') = job'[k].tries + job'[k].stalls
                           + (IF job'[k].state \in {"active", "completed"} THEN 1 ELSE 0)
    BY DEF RunsCounted
  <2>1. /\ IsFiniteSet(Runs(k))
        /\ Cardinality(Runs(k)) = job[k].tries + job[k].stalls
             + (IF job[k].state \in {"active", "completed"} THEN 1 ELSE 0)
    BY DEF JobsInv, RunsCounted
  <2>2. CASE k = j
    <3>1. Runs(j)' = Runs(j) \cup {e} /\ e \notin Runs(j)
      BY <1>2, <1>3, <1>7 DEF Runs
    <3>2. IsFiniteSet(Runs(j)') /\ Cardinality(Runs(j)') = Cardinality(Runs(j)) + 1
      BY <2>1, <2>2, <3>1, FS_AddElement
    <3>3. Cardinality(Runs(j)) = job[j].tries + job[j].stalls
      BY <1>3, <2>1, <2>2 DEF JobRecord
    <3>4. /\ job'[j].tries = job[j].tries /\ job'[j].stalls = job[j].stalls
          /\ (IF job'[j].state \in {"active", "completed"} THEN 1 ELSE 0) = 1
      BY <1>1, <1>3
    <3> QED BY <2>2, <3>2, <3>3, <3>4
  <2>3. CASE k # j
    <3>1. Runs(k)' = Runs(k)
      BY <1>2, <1>3, <1>7, <2>3 DEF Runs
    <3>2. job'[k] = job[k]
      BY <1>1, <1>3, <2>3
    <3> QED BY <2>1, <3>1, <3>2
  <2> QED BY <2>2, <2>3
<1> QED BY <1>4, <1>5, <1>6, <1>8, <1>9 DEF JobsInv

(* What a worker that holds no job any more does to its execution, with    *)
(* the sets it adds to.                                                    *)
LEMMA WorkersStayBusy ==
  ASSUME JobsInv, NEW e \in Executions, NEW pc \in {"emit", "error", "done"},
         execution[e].pc \in {"create", "emit", "error"},
         execution' = [execution EXCEPT ![e].pc = pc],
         inserted' = (IF pc = "emit" THEN inserted \cup {e} ELSE inserted),
         rows' \subseteq inserted', told' \subseteq inserted'
  PROVE  /\ execution' \in [Executions -> Execution] /\ inserted' \subseteq Executions
         /\ WorkersBusy' /\ \A d \in Executions : execution'[d].job = execution[d].job
<1>1. PICK run \in Execution :
        run.pc = pc /\ run.job = execution[e].job /\ execution' = [execution EXCEPT ![e] = run]
  <2>1. [execution[e] EXCEPT !.pc = pc] \in Execution
    BY DEF JobsInv, JobsTypeOK, Execution
  <2> QED BY <2>1 DEF JobsInv, JobsTypeOK, Execution
<1>2. execution \in [Executions -> Execution] /\ inserted \subseteq Executions
  BY DEF JobsInv, JobsTypeOK
<1>3. \A d \in Executions : d # e => execution'[d] = execution[d]
  BY <1>1, <1>2
<1>4. execution'[e].pc = pc /\ execution'[e].job = execution[e].job /\ execution[e].job \in Jobs
  BY <1>1, <1>2 DEF JobsInv, WorkersBusy
<1>5. WorkersBusy'
  BY <1>3, <1>4 DEF JobsInv, WorkersBusy
<1> QED BY <1>1, <1>2, <1>3, <1>4, <1>5

(* Steps of workers that leave all jobs alone. *)
LEMMA IdleJobsKeep ==
  ASSUME JobsInv, job' = job, execution' \in [Executions -> Execution], inserted' \subseteq Executions,
         rows' \subseteq inserted', told \subseteq told', told' \subseteq inserted', WorkersBusy',
         \A d \in Executions : execution'[d].job = execution[d].job
  PROVE  JobsInv'
<1>1. JobsTypeOK'
  BY DEF JobsInv, JobsTypeOK
<1>2. RunsCounted' /\ CompletedIsTold'
  <2>1. \A j \in Jobs : job'[j].state = "completed" => job[j].state = "completed" \/ Of(j, told') # {}
    OBVIOUS
  <2> QED BY <1>1, <2>1, SameRuns
<1>3. JobLimits'
  BY DEF JobsInv, JobLimits
<1> QED BY <1>1, <1>2, <1>3 DEF JobsInv

LEMMA InsertRowKeeps == ASSUME JobsInv, NEW e \in Executions, InsertRow(e) PROVE JobsInv'
BY WorkersStayBusy, IdleJobsKeep DEF InsertRow, JobsInv, JobsTypeOK

LEMMA FailedCallKeeps ==
  ASSUME JobsInv, NEW e \in Executions, InsertFails(e) \/ EmitFails(e) PROVE JobsInv'
BY WorkersStayBusy, IdleJobsKeep DEF InsertFails, EmitFails, JobsInv, JobsTypeOK

LEMMA DeleteNotificationKeeps ==
  ASSUME JobsInv, NEW e \in Executions, DeleteNotification(e) PROVE JobsInv'
<1>1. WorkersBusy'
  BY DEF DeleteNotification, JobsInv, WorkersBusy
<1> QED BY <1>1, IdleJobsKeep DEF DeleteNotification, JobsInv, JobsTypeOK

LEMMA CrashKeeps == ASSUME JobsInv, Crash PROVE JobsInv'
<1> USE DEF Crash
<1>1. ASSUME NEW e \in Executions
      PROVE  /\ execution'[e] \in Execution /\ execution'[e].job = execution[e].job
             /\ execution'[e].pc = (IF execution[e].pc = "unused" THEN "unused" ELSE "done")
  <2>1. execution[e] \in Execution
    BY DEF JobsInv, JobsTypeOK
  <2>2. [execution[e] EXCEPT !.pc = "done"] \in Execution
    BY <2>1 DEF Execution
  <2> QED BY <2>1, <2>2 DEF Execution
<1>2. execution' \in [Executions -> Execution]
  <2>1. execution' = [e \in Executions |-> execution'[e]]
    OBVIOUS
  <2> QED BY <1>1, <2>1
<1>3. WorkersBusy'
  BY <1>1 DEF JobsInv, WorkersBusy
<1> QED BY <1>1, <1>2, <1>3, IdleJobsKeep DEF JobsInv, JobsTypeOK

(* The job of one execution or none changes, within its limits.            *)
LEMMA OneJobKeeps ==
  ASSUME JobsInv, NEW j \in Jobs, NEW row \in JobRecord, job' = [job EXCEPT ![j] = row],
         execution' \in [Executions -> Execution], inserted' \subseteq Executions,
         rows' \subseteq inserted', told \subseteq told', told' \subseteq inserted', WorkersBusy',
         \A d \in Executions : execution'[d].job = execution[d].job,
         row.tries + row.stalls + (IF row.state \in {"active", "completed"} THEN 1 ELSE 0) =
           job[j].tries + job[j].stalls + (IF job[j].state \in {"active", "completed"} THEN 1 ELSE 0),
         row.state = "completed" => Of(j, told') # {},
         row.tries + row.stalls <= JobAttempts + MaxStalls,
         row.state # "failed" => row.tries < JobAttempts /\ row.stalls <= MaxStalls
  PROVE  JobsInv'
<1>1. \A k \in Jobs : job'[k] = (IF k = j THEN row ELSE job[k])
  BY DEF JobsInv, JobsTypeOK
<1>2. JobsTypeOK'
  BY DEF JobsInv, JobsTypeOK
<1>3. \A k \in Jobs :
        /\ job'[k].tries + job'[k].stalls + (IF job'[k].state \in {"active", "completed"} THEN 1 ELSE 0) =
             job[k].tries + job[k].stalls + (IF job[k].state \in {"active", "completed"} THEN 1 ELSE 0)
        /\ job'[k].state = "completed" => job[k].state = "completed" \/ Of(k, told') # {}
  BY <1>1
<1>4. RunsCounted' /\ CompletedIsTold'
  BY <1>2, <1>3, SameRuns
<1>5. JobLimits'
  BY <1>1 DEF JobsInv, JobLimits
<1> QED BY <1>2, <1>4, <1>5 DEF JobsInv

LEMMA EmitNotificationKeeps == ASSUME JobsInv, NEW e \in Executions, EmitNotification(e) PROVE JobsInv'
<1> USE DEF EmitNotification
<1>1. e \in inserted /\ told \subseteq inserted /\ rows \subseteq inserted
  BY DEF JobsInv, JobsTypeOK, WorkersBusy
<1>2. /\ execution' \in [Executions -> Execution] /\ inserted' \subseteq Executions
      /\ WorkersBusy' /\ \A d \in Executions : execution'[d].job = execution[d].job
  BY <1>1, WorkersStayBusy
<1>3. PICK j \in Jobs : j = execution[e].job
  BY DEF JobsInv, WorkersBusy
<1>4. CASE ~Holds(e, j)
  BY <1>1, <1>2, <1>3, <1>4, IdleJobsKeep
<1>5. CASE Holds(e, j)
  <2>1. job[j] \in JobRecord /\ job[j].state = "active"
    BY <1>5 DEF Holds, JobsInv, JobsTypeOK
  <2>2. PICK row \in JobRecord :
          /\ row.state = "completed" /\ row.tries = job[j].tries /\ row.stalls = job[j].stalls
          /\ job' = [job EXCEPT ![j] = row]
    <3>1. [job[j] EXCEPT !.state = "completed"] \in JobRecord
      BY <2>1 DEF JobRecord
    <3> QED BY <1>3, <1>5, <2>1, <3>1 DEF JobRecord
  <2>3. Of(j, told') # {}
    BY <1>3 DEF Of
  <2>4. (IF row.state \in {"active", "completed"} THEN 1 ELSE 0)
          = (IF job[j].state \in {"active", "completed"} THEN 1 ELSE 0)
    BY <2>1, <2>2
  <2> HIDE DEF EmitNotification
  <2>5. /\ job[j].tries + job[j].stalls <= JobAttempts + MaxStalls
        /\ job[j].tries < JobAttempts /\ job[j].stalls <= MaxStalls
    BY <2>1 DEF JobsInv, JobLimits
  <2>6. /\ row.tries + row.stalls <= JobAttempts + MaxStalls
        /\ row.tries < JobAttempts /\ row.stalls <= MaxStalls
    <3>1. PICK tries, stalls : tries = job[j].tries /\ stalls = job[j].stalls
      OBVIOUS
    <3>2. tries + stalls <= JobAttempts + MaxStalls /\ tries < JobAttempts /\ stalls <= MaxStalls
      BY <2>5, <3>1
    <3>3. row.tries = tries /\ row.stalls = stalls
      BY <2>2, <3>1
    <3> QED BY <3>2, <3>3
  <2>7. rows' \subseteq inserted' /\ told \subseteq told' /\ told' \subseteq inserted'
    BY <1>1 DEF EmitNotification
  <2>8. row.tries + row.stalls + (IF row.state \in {"active", "completed"} THEN 1 ELSE 0) =
          job[j].tries + job[j].stalls + (IF job[j].state \in {"active", "completed"} THEN 1 ELSE 0)
    BY <2>2, <2>4
  <2>9. row.state # "failed" => row.tries < JobAttempts /\ row.stalls <= MaxStalls
    BY <2>6
  <2>10. job' = [job EXCEPT ![j] = row] /\ (row.state = "completed" => Of(j, told') # {})
    BY <2>2, <2>3
  <2> QED BY <1>2, <2>6, <2>7, <2>8, <2>9, <2>10, OneJobKeeps
<1> QED BY <1>4, <1>5

LEMMA FailKeeps == ASSUME JobsInv, NEW e \in Executions, Fail(e) PROVE JobsInv'
<1> USE DEF Fail
<1>0. JobAttempts \in Nat /\ MaxStalls \in Nat
  BY NotificationJobsAssumption
<1>1. told \subseteq inserted /\ rows \subseteq inserted
  BY DEF JobsInv, JobsTypeOK
<1>2. /\ execution' \in [Executions -> Execution] /\ inserted' \subseteq Executions
      /\ WorkersBusy' /\ \A d \in Executions : execution'[d].job = execution[d].job
  BY <1>1, WorkersStayBusy
<1>3. PICK j \in Jobs : j = execution[e].job
  BY DEF JobsInv, WorkersBusy
<1>4. CASE ~Holds(e, j)
  BY <1>1, <1>2, <1>3, <1>4, IdleJobsKeep
<1>5. CASE Holds(e, j)
  <2>1. job[j] \in JobRecord /\ job[j].state = "active"
    BY <1>5 DEF Holds, JobsInv, JobsTypeOK
  <2>2. PICK tries \in Nat, stalls \in Nat : tries = job[j].tries /\ stalls = job[j].stalls
    BY <2>1 DEF JobRecord
  <2>3. PICK state \in {"failed", "waiting"} :
          state = (IF tries + 1 >= JobAttempts THEN "failed" ELSE "waiting")
    OBVIOUS
  <2> PICK next \in Nat : next = tries + 1
    OBVIOUS
  <2>4. [job[j] EXCEPT !.state = state, !.tries = next, !.holder = "nobody"] \in JobRecord
    BY <2>1 DEF JobRecord
  <2>5. job' = [job EXCEPT ![j] = [job[j] EXCEPT !.state = state, !.tries = next, !.holder = "nobody"]]
    BY <1>3, <1>5, <2>2, <2>3
  <2>6. PICK row \in JobRecord :
          /\ row.state = state /\ row.tries = tries + 1 /\ row.stalls = stalls
          /\ job' = [job EXCEPT ![j] = row]
    BY <2>1, <2>2, <2>4, <2>5 DEF JobRecord
  <2>7. /\ (IF row.state \in {"active", "completed"} THEN 1 ELSE 0) = 0
        /\ (IF job[j].state \in {"active", "completed"} THEN 1 ELSE 0) = 1
    BY <2>1, <2>6
  <2>8. tries < JobAttempts /\ stalls <= MaxStalls
    BY <2>1, <2>2 DEF JobsInv, JobLimits
  <2>9. row.tries + row.stalls + 0 = tries + stalls + 1
    BY <2>6
  <2>10. /\ row.tries + row.stalls <= JobAttempts + MaxStalls
         /\ row.state # "failed" => row.tries < JobAttempts /\ row.stalls <= MaxStalls
    BY <1>0, <2>3, <2>6, <2>8
  <2>11. row.state # "completed"
    BY <2>6
  <2>12. row.tries + row.stalls + (IF row.state \in {"active", "completed"} THEN 1 ELSE 0) =
           job[j].tries + job[j].stalls + (IF job[j].state \in {"active", "completed"} THEN 1 ELSE 0)
    BY <2>2, <2>7, <2>9
  <2> HIDE DEF Fail
  <2>13. told' = told /\ inserted' = inserted /\ rows' = rows
    BY DEF Fail
  <2> QED BY <1>1, <1>2, <2>6, <2>10, <2>11, <2>12, <2>13, OneJobKeeps
<1> QED BY <1>4, <1>5

LEMMA StallKeeps == ASSUME JobsInv, NEW j \in Jobs, Stall(j) PROVE JobsInv'
<1> USE DEF Stall
<1>0. JobAttempts \in Nat /\ MaxStalls \in Nat
  BY NotificationJobsAssumption
<1>1. job[j] \in JobRecord /\ job[j].state = "active"
  BY DEF JobsInv, JobsTypeOK
<1>2. PICK tries \in Nat, stalls \in Nat : tries = job[j].tries /\ stalls = job[j].stalls
  BY <1>1 DEF JobRecord
<1>3. PICK state \in {"failed", "waiting"} :
        state = (IF stalls < MaxStalls THEN "waiting" ELSE "failed")
  OBVIOUS
<1> PICK next \in Nat : next = stalls + 1
  OBVIOUS
<1>4. [job[j] EXCEPT !.state = state, !.stalls = next, !.holder = "nobody"] \in JobRecord
  BY <1>1 DEF JobRecord
<1>5. job' = [job EXCEPT ![j] = [job[j] EXCEPT !.state = state, !.stalls = next, !.holder = "nobody"]]
  BY <1>2, <1>3
<1>6. PICK row \in JobRecord :
        /\ row.state = state /\ row.tries = tries /\ row.stalls = stalls + 1
        /\ job' = [job EXCEPT ![j] = row]
  BY <1>1, <1>2, <1>4, <1>5 DEF JobRecord
<1>7. /\ (IF row.state \in {"active", "completed"} THEN 1 ELSE 0) = 0
      /\ (IF job[j].state \in {"active", "completed"} THEN 1 ELSE 0) = 1
  BY <1>1, <1>6
<1>8. tries < JobAttempts /\ stalls <= MaxStalls
  BY <1>1, <1>2 DEF JobsInv, JobLimits
<1>9. row.tries + row.stalls + 0 = tries + stalls + 1
  BY <1>6
<1>10. /\ row.tries + row.stalls <= JobAttempts + MaxStalls
       /\ row.state # "failed" => row.tries < JobAttempts /\ row.stalls <= MaxStalls
  BY <1>0, <1>3, <1>6, <1>8
<1>11. row.state # "completed"
  BY <1>6
<1>12. row.tries + row.stalls + (IF row.state \in {"active", "completed"} THEN 1 ELSE 0) =
         job[j].tries + job[j].stalls + (IF job[j].state \in {"active", "completed"} THEN 1 ELSE 0)
  BY <1>2, <1>7, <1>9
<1>13. UNCHANGED <<execution, inserted, rows, told>>
  OBVIOUS
<1> HIDE DEF Stall
<1>14. WorkersBusy'
  BY <1>13 DEF JobsInv, WorkersBusy
<1>15. /\ execution' \in [Executions -> Execution] /\ inserted' \subseteq Executions
       /\ rows' \subseteq inserted' /\ told' \subseteq inserted'
  BY <1>13 DEF JobsInv, JobsTypeOK
<1> QED BY <1>6, <1>10, <1>11, <1>12, <1>13, <1>14, <1>15, OneJobKeeps

LEMMA JobsStep == ASSUME JobsInv, [JobsNext]_jobVars PROVE JobsInv'
<1>1. CASE \E j \in Jobs : Enqueue(j) \/ Stall(j)
  BY <1>1, EnqueueKeeps, StallKeeps
<1>2. CASE \E j \in Jobs, e \in Executions : Take(j, e)
  BY <1>2, TakeKeeps
<1>3. CASE \E e \in Executions : Work(e) \/ DeleteNotification(e)
  BY <1>3, InsertRowKeeps, FailedCallKeeps, EmitNotificationKeeps, FailKeeps, DeleteNotificationKeeps DEF Work
<1>4. CASE Crash
  BY <1>4, CrashKeeps
<1>5. CASE UNCHANGED jobVars
  BY <1>5, IdleJobsKeep DEF jobVars, JobsInv, JobsTypeOK, WorkersBusy
<1> QED BY <1>1, <1>2, <1>3, <1>4, <1>5 DEF JobsNext

LEMMA JobsInvariant == JobsSpec => []JobsInv
<1>1. JobsInv /\ [JobsNext]_jobVars => JobsInv'
  BY JobsStep
<1> QED BY <1>1, JobsInitial, PTL DEF JobsSpec

(* A job counts as completed only when its user was told, whatever tries   *)
(* failed, locks expired or workers crashed (NotificationProcessor).       *)
THEOREM CompletedIsToldCorrect == JobsSpec => []CompletedIsTold
<1>1. JobsInv => CompletedIsTold
  BY DEF JobsInv
<1> QED BY <1>1, JobsInvariant, PTL

(* A job inserts its notification at most once for every try and every     *)
(* lock that may expire (queue.retryAttempts, maxStalledCount).            *)
THEOREM RowsBoundedCorrect == JobsSpec => []RowsBounded
<1>1. ASSUME JobsInv, NEW j \in Jobs PROVE Cardinality(Of(j, inserted)) <= JobAttempts + MaxStalls
  <2>0. JobAttempts \in Nat /\ MaxStalls \in Nat
    BY NotificationJobsAssumption
  <2>1. Of(j, inserted) \subseteq Runs(j)
    BY <1>1 DEF JobsInv, JobsTypeOK, Of, Runs
  <2>2. IsFiniteSet(Runs(j)) /\ Cardinality(Runs(j)) =
          job[j].tries + job[j].stalls + (IF job[j].state \in {"active", "completed"} THEN 1 ELSE 0)
    BY <1>1 DEF JobsInv, RunsCounted
  <2>3. PICK tries \in Nat, stalls \in Nat : tries = job[j].tries /\ stalls = job[j].stalls
    BY <1>1 DEF JobsInv, JobsTypeOK, JobRecord
  <2>4. /\ tries + stalls <= JobAttempts + MaxStalls
        /\ job[j].state # "failed" => tries < JobAttempts /\ stalls <= MaxStalls
    BY <1>1, <2>3 DEF JobsInv, JobLimits
  <2>5. Cardinality(Runs(j)) <= JobAttempts + MaxStalls
    BY <2>0, <2>2, <2>3, <2>4
  <2>6. /\ Cardinality(Of(j, inserted)) <= Cardinality(Runs(j))
        /\ Cardinality(Of(j, inserted)) \in Nat /\ Cardinality(Runs(j)) \in Nat
    BY <2>1, <2>2, FS_Subset, FS_CardinalityType
  <2> QED BY <2>0, <2>5, <2>6
<1>2. JobsInv => RowsBounded
  BY <1>1 DEF RowsBounded
<1> QED BY <1>2, JobsInvariant, PTL

-----------------------------------------------------------------------------
(* PushDelivery.  A request that looks for settings does so for a user.    *)
SettingsSought ==
  \A c \in PushCalls : pushCall[c].pc \in {"find_settings", "create_settings"} => pushCall[c].user \in Listeners

PushRowsOK ==
  /\ device \in [Tokens -> Device]
  /\ settings \in [Listeners -> {"none", "on", "off"}]
  /\ pushCall \in [PushCalls -> PushCall]

SettingsInv == PushRowsOK /\ SettingsSought /\ DevicesReachable

Seeks(c, u) == pushCall[c].user = u /\ pushCall[c].pc \in {"find_settings", "create_settings"}

(* Nobody stops looking for the settings of a user who has none.           *)
LEMMA SeekersKept ==
  ASSUME SettingsInv, PushRowsOK', SettingsSought',
         \A u \in Listeners : settings'[u] = "none" => settings[u] = "none", failed' = failed,
         \A c \in PushCalls : \A u \in Listeners :
           settings'[u] = "none" /\ Seeks(c, u) => Seeks(c, u)',
         \A t \in Tokens :
           \/ device'[t].user = device[t].user
           \/ \E c \in PushCalls : Seeks(c, device[t].user)'
  PROVE  SettingsInv'
<1> SUFFICES ASSUME NEW t \in Tokens, NEW u, u = device'[t].user, u # Nobody, u \notin failed', settings'[u] = "none"
             PROVE  \E c \in PushCalls : Seeks(c, u)'
  BY DEF SettingsInv, DevicesReachable, Seeks
<1>1. u \in Listeners
  BY DEF PushRowsOK, Device
<1>2. CASE device[t].user = u
  <2>1. PICK c \in PushCalls : Seeks(c, u)
    BY <1>1, <1>2 DEF SettingsInv, DevicesReachable, Seeks
  <2> QED BY <1>1, <2>1
<1>3. CASE device[t].user # u
  BY <1>3 DEF Seeks
<1> QED BY <1>2, <1>3

LEMMA SettingsInitial == PushInit => SettingsInv
<1> SUFFICES ASSUME PushInit PROVE SettingsInv
  OBVIOUS
<1>1. NoPushCall \in PushCall
  BY DEF NoPushCall, PushCall
<1>2. [user |-> Nobody, active |-> FALSE] \in Device
  BY DEF Device
<1>3. PushRowsOK
  BY <1>1, <1>2 DEF PushInit, PushRowsOK
<1> QED BY <1>3 DEF PushInit, SettingsInv, SettingsSought, DevicesReachable, NoPushCall

LEMMA RegisterDeviceKept ==
  ASSUME SettingsInv, NEW c \in PushCalls, NEW t \in Tokens, NEW u \in Listeners, RegisterDevice(c, t, u)
  PROVE  SettingsInv'
<1>0. PushRowsOK
  BY DEF SettingsInv
<1>1. [NoPushCall EXCEPT !.pc = "find_settings", !.op = "register", !.user = u] \in PushCall
  BY DEF NoPushCall, PushCall
<1>2. [user |-> u, active |-> TRUE] \in Device
  BY DEF Device
<1>3. PushRowsOK'
  BY <1>0, <1>1, <1>2 DEF PushRowsOK, RegisterDevice, PushStart
<1>4. /\ \A d \in PushCalls \ {c} : pushCall'[d] = pushCall[d]
      /\ pushCall[c].pc = "idle" /\ Seeks(c, u)' /\ UNCHANGED <<settings, failed>>
  BY <1>0 DEF PushRowsOK, RegisterDevice, PushStart, NoPushCall, Pc, Seeks
<1>5. SettingsSought'
  BY <1>4 DEF SettingsInv, SettingsSought, Seeks
<1>6. \A s \in Tokens : device'[s].user = device[s].user \/ device'[s].user = u
  BY <1>0 DEF RegisterDevice, PushRowsOK
<1>7. \A d \in PushCalls : \A w \in Listeners : Seeks(d, w) => Seeks(d, w)'
  BY <1>4 DEF Seeks
<1>8. \A s \in Tokens : device'[s].user = u => \E d \in PushCalls : Seeks(d, device[s].user)'
  BY <1>4 DEF Seeks
<1> QED BY <1>3, <1>4, <1>5, <1>6, <1>7, <1>8, SeekersKept

LEMMA UnregisterDeviceKept ==
  ASSUME SettingsInv, NEW t \in Tokens, UnregisterDevice(t) PROVE SettingsInv'
<1>0. PushRowsOK
  BY DEF SettingsInv
<1>1. [device[t] EXCEPT !.active = FALSE] \in Device
  BY <1>0 DEF PushRowsOK, Device
<1>2. PushRowsOK'
  BY <1>0, <1>1 DEF PushRowsOK, UnregisterDevice
<1>3. \A s \in Tokens : device'[s].user = device[s].user
  BY <1>0 DEF PushRowsOK, UnregisterDevice, Device
<1>4. UNCHANGED <<settings, pushCall, failed>>
  BY DEF UnregisterDevice
<1> QED BY <1>2, <1>3, <1>4, SeekersKept DEF Seeks, SettingsInv, SettingsSought

(* The other steps of a request write no device.                           *)
LEMMA SettingsStepKept ==
  ASSUME SettingsInv, NEW c \in PushCalls, NEW k \in PushCall, pushCall' = [pushCall EXCEPT ![c] = k],
         UNCHANGED <<device, failed>>, settings' \in [Listeners -> {"none", "on", "off"}],
         \A u \in Listeners : settings'[u] = "none" => settings[u] = "none",
         k.pc \in {"find_settings", "create_settings"} => k.user \in Listeners,
         \A u \in Listeners : settings'[u] = "none" /\ Seeks(c, u) =>
           k.user = u /\ k.pc \in {"find_settings", "create_settings"}
  PROVE  SettingsInv'
<1>0. PushRowsOK
  BY DEF SettingsInv
<1>1. PushRowsOK'
  BY <1>0 DEF PushRowsOK
<1>2. pushCall'[c] = k /\ \A d \in PushCalls \ {c} : pushCall'[d] = pushCall[d]
  BY <1>0 DEF PushRowsOK
<1>3. SettingsSought'
  BY <1>2 DEF SettingsInv, SettingsSought
<1>4. \A d \in PushCalls : \A u \in Listeners : settings'[u] = "none" /\ Seeks(d, u) => Seeks(d, u)'
  BY <1>2 DEF Seeks
<1> QED BY <1>1, <1>3, <1>4, SeekersKept

LEMMA SettingsCallKept ==
  ASSUME SettingsInv, NEW c \in PushCalls,
         (\E u \in Listeners : UpdatePushSettings(c, u)) \/ FindSettings(c) \/ CreateSettings(c) \/ WriteSettings(c)
  PROVE  SettingsInv'
<1>0. /\ settings \in [Listeners -> {"none", "on", "off"}] /\ pushCall[c] \in PushCall
      /\ pushCall[c].pc \in {"find_settings", "create_settings"} => pushCall[c].user \in Listeners
      /\ NoPushCall \in PushCall /\ NoPushCall.pc = "idle"
  BY DEF SettingsInv, SettingsSought, PushRowsOK, NoPushCall, PushCall
<1>1. ASSUME NEW u \in Listeners, UpdatePushSettings(c, u) PROVE SettingsInv'
  <2>1. PICK k \in PushCall : k.pc = "find_settings" /\ k.user = u /\ pushCall' = [pushCall EXCEPT ![c] = k]
    <3>1. [NoPushCall EXCEPT !.pc = "find_settings", !.op = "settings", !.user = u] \in PushCall
      BY DEF NoPushCall, PushCall
    <3> QED BY <1>1, <3>1 DEF UpdatePushSettings, PushStart, NoPushCall
  <2>2. UNCHANGED <<device, settings, failed>> /\ pushCall[c].pc = "idle"
    BY <1>1 DEF UpdatePushSettings, PushStart, Pc
  <2> QED BY <1>0, <2>1, <2>2, SettingsStepKept DEF Seeks
<1>2. ASSUME NEW pc \in {"create_settings", "update_settings"}
      PROVE  LET k == [pushCall[c] EXCEPT !.pc = pc] IN
             /\ k \in PushCall /\ k.pc = pc /\ k.user = pushCall[c].user
             /\ Advance(c, pc) => pushCall' = [pushCall EXCEPT ![c] = k]
  <2>1. pushCall \in [PushCalls -> PushCall]
    BY DEF SettingsInv, PushRowsOK
  <2> QED BY <1>0, <2>1 DEF PushCall, Advance
<1>3. CASE FindSettings(c)
  <2>1. UNCHANGED <<device, settings, failed>> /\ pushCall[c].pc = "find_settings" /\ pushCall[c].user \in Listeners
    BY <1>0, <1>3 DEF FindSettings, Pc
  <2>2. CASE settings[pushCall[c].user] = "none"
    <3>1. Advance(c, "create_settings")
      BY <1>3, <2>2 DEF FindSettings
    <3>2. PICK k \in PushCall : /\ k.pc = "create_settings" /\ k.user = pushCall[c].user
                                /\ pushCall' = [pushCall EXCEPT ![c] = k]
      BY <1>2, <3>1
    <3> QED BY <1>0, <2>1, <3>2, SettingsStepKept DEF Seeks
  <2>3. CASE settings[pushCall[c].user] # "none"
    <3>1. PICK k \in PushCall : k.pc \in {"update_settings", "idle"} /\ pushCall' = [pushCall EXCEPT ![c] = k]
      BY <1>0, <1>2, <1>3, <2>3 DEF FindSettings, EndCall
    <3> QED BY <1>0, <2>1, <2>3, <3>1, SettingsStepKept DEF Seeks
  <2> QED BY <2>2, <2>3
<1>4. CASE CreateSettings(c)
  <2>1. /\ UNCHANGED <<device, failed>> /\ pushCall[c].pc = "create_settings" /\ pushCall[c].user \in Listeners
        /\ settings' = [settings EXCEPT ![pushCall[c].user] = IF @ = "none" THEN "on" ELSE @]
    BY <1>0, <1>4 DEF CreateSettings, Pc
  <2>2. /\ settings' \in [Listeners -> {"none", "on", "off"}] /\ settings'[pushCall[c].user] # "none"
        /\ \A u \in Listeners : settings'[u] = "none" => settings[u] = "none"
    BY <1>0, <2>1
  <2>3. PICK k \in PushCall : k.pc \in {"update_settings", "idle"} /\ pushCall' = [pushCall EXCEPT ![c] = k]
    BY <1>0, <1>2, <1>4 DEF CreateSettings, EndCall
  <2> QED BY <1>0, <2>1, <2>2, <2>3, SettingsStepKept DEF Seeks
<1>5. CASE WriteSettings(c)
  <2>1. /\ UNCHANGED <<device, failed>> /\ pushCall[c].pc = "update_settings"
        /\ pushCall' = [pushCall EXCEPT ![c] = NoPushCall]
    BY <1>5 DEF WriteSettings, Pc, EndCall
  <2>2. /\ settings' \in [Listeners -> {"none", "on", "off"}]
        /\ \A u \in Listeners : settings'[u] = "none" => settings[u] = "none"
    BY <1>0, <1>5 DEF WriteSettings
  <2> QED BY <1>0, <2>1, <2>2, SettingsStepKept DEF Seeks
<1> QED BY <1>1, <1>3, <1>4, <1>5

LEMMA SendingKept ==
  ASSUME SettingsInv, NEW c \in PushCalls,
         \/ \E p \in Pushes, scheduled \in {"not", "past", "later"} : SendPush(c, p, scheduled)
         \/ ReadDevices(c) \/ SendToDevices(c) \/ ProviderFails(c) \/ WriteLog(c)
  PROVE  SettingsInv'
<1>0. PushRowsOK /\ pushCall[c] \in PushCall /\ settings \in [Listeners -> {"none", "on", "off"}]
  BY DEF SettingsInv, PushRowsOK
<1>1. UNCHANGED <<device, settings, failed>>
  BY DEF SendPush, ReadDevices, SendToDevices, ProviderFails, WriteLog
<1>2. ASSUME NEW k \in PushCall, k.pc \notin {"find_settings", "create_settings"},
             pushCall' = [pushCall EXCEPT ![c] = k], pushCall[c].pc \notin {"find_settings", "create_settings"}
      PROVE  SettingsInv'
  BY <1>0, <1>1, <1>2, SettingsStepKept DEF Seeks
<1>3. ASSUME NEW p \in Pushes, NEW scheduled \in {"not", "past", "later"}, SendPush(c, p, scheduled)
      PROVE  SettingsInv'
  <2>1. CASE scheduled = "later"
    <3>1. pushCall' = [pushCall EXCEPT ![c] = pushCall[c]] /\ pushCall[c].pc = "idle"
      BY <1>0, <1>3, <2>1 DEF SendPush, PushRowsOK, Pc
    <3> QED BY <1>0, <1>2, <3>1
  <2>2. CASE scheduled # "later"
    <3>1. PICK k \in PushCall : k.pc = "read_devices" /\ pushCall' = [pushCall EXCEPT ![c] = k]
      <4>1. [NoPushCall EXCEPT !.pc = "read_devices", !.op = "send", !.push = p] \in PushCall
        BY DEF NoPushCall, PushCall
      <4> QED BY <1>3, <2>2, <4>1 DEF SendPush, NoPushCall
    <3> QED BY <1>2, <1>3, <3>1 DEF SendPush, Pc
  <2> QED BY <2>1, <2>2
<1>4. CASE ReadDevices(c)
  <2>1. PICK tokens \in SUBSET Tokens, pc \in {"write_log", "send"} :
          pushCall' = [pushCall EXCEPT ![c].tokens = tokens, ![c].pc = pc]
    <3>1. \A users : Reachable(users) \subseteq Tokens
      BY DEF Reachable
    <3> QED BY <1>4, <3>1 DEF ReadDevices
  <2>2. /\ [pushCall[c] EXCEPT !.tokens = tokens, !.pc = pc] \in PushCall
        /\ [pushCall[c] EXCEPT !.tokens = tokens, !.pc = pc].pc = pc
    BY <1>0 DEF PushCall
  <2>3. pushCall' = [pushCall EXCEPT ![c] = [pushCall[c] EXCEPT !.tokens = tokens, !.pc = pc]]
    BY <1>0, <2>1 DEF PushRowsOK
  <2> QED BY <1>2, <1>4, <2>2, <2>3 DEF ReadDevices, Pc
<1>5. CASE SendToDevices(c)
  <2>1. PICK answered \in SUBSET Tokens :
          pushCall' = [pushCall EXCEPT ![c].acknowledged = answered, ![c].pc = "write_log"]
    <3>1. pushCall[c].tokens \subseteq Tokens
      BY <1>0 DEF PushCall
    <3> QED BY <1>5, <3>1 DEF SendToDevices
  <2>2. /\ [pushCall[c] EXCEPT !.acknowledged = answered, !.pc = "write_log"] \in PushCall
        /\ [pushCall[c] EXCEPT !.acknowledged = answered, !.pc = "write_log"].pc = "write_log"
    BY <1>0 DEF PushCall
  <2>3. pushCall' = [pushCall EXCEPT ![c] = [pushCall[c] EXCEPT !.acknowledged = answered, !.pc = "write_log"]]
    BY <1>0, <2>1 DEF PushRowsOK
  <2> QED BY <1>2, <1>5, <2>2, <2>3 DEF SendToDevices, Pc
<1>6. CASE ProviderFails(c)
  <2>1. /\ [pushCall[c] EXCEPT !.tokens = {}, !.error = TRUE, !.pc = "write_log"] \in PushCall
        /\ [pushCall[c] EXCEPT !.tokens = {}, !.error = TRUE, !.pc = "write_log"].pc = "write_log"
    BY <1>0 DEF PushCall
  <2>2. pushCall' = [pushCall EXCEPT ![c] = [pushCall[c] EXCEPT !.tokens = {}, !.error = TRUE, !.pc = "write_log"]]
    BY <1>0, <1>6 DEF PushRowsOK, ProviderFails
  <2> QED BY <1>2, <1>6, <2>1, <2>2 DEF ProviderFails, Pc
<1>7. CASE WriteLog(c)
  <2>1. NoPushCall \in PushCall /\ NoPushCall.pc = "idle"
    BY DEF NoPushCall, PushCall
  <2> QED BY <1>2, <1>7, <2>1 DEF WriteLog, EndCall, Pc
<1> QED BY <1>3, <1>4, <1>5, <1>6, <1>7

(* Requests that end on the way leave their user and their push in failed. *)
LEMMA RequestsEnd ==
  ASSUME PushRowsOK, (\E c \in PushCalls : CallFails(c)) \/ PushCrash
  PROVE  /\ UNCHANGED <<device, settings, log, received>> /\ failed \subseteq failed'
         /\ pushCall' \in [PushCalls -> PushCall]
         /\ \A c \in PushCalls :
              \/ pushCall'[c] = pushCall[c]
              \/ pushCall'[c] = NoPushCall /\ pushCall[c].user \in failed' /\ pushCall[c].push \in failed'
<1>1. NoPushCall \in PushCall
  BY DEF NoPushCall, PushCall
<1>2. ASSUME NEW c \in PushCalls, CallFails(c)
      PROVE  /\ UNCHANGED <<device, settings, log, received>> /\ failed \subseteq failed'
             /\ pushCall' = [pushCall EXCEPT ![c] = NoPushCall]
             /\ pushCall[c].user \in failed' /\ pushCall[c].push \in failed'
  BY <1>2 DEF CallFails, EndCall
<1>3. CASE PushCrash
  BY <1>1, <1>3 DEF PushCrash
<1> QED BY <1>1, <1>2, <1>3 DEF PushRowsOK

LEMMA EndKept == ASSUME SettingsInv, (\E c \in PushCalls : CallFails(c)) \/ PushCrash PROVE SettingsInv'
<1>1. /\ UNCHANGED <<device, settings>> /\ failed \subseteq failed'
      /\ \A c \in PushCalls :
           \/ pushCall'[c] = pushCall[c]
           \/ pushCall'[c] = NoPushCall /\ pushCall[c].user \in failed'
      /\ pushCall' \in [PushCalls -> PushCall]
  BY RequestsEnd DEF SettingsInv
<1>2. NoPushCall.pc = "idle"
  BY DEF NoPushCall
<1>3. PushRowsOK' /\ SettingsSought'
  BY <1>1, <1>2 DEF SettingsInv, PushRowsOK, SettingsSought
<1>4. DevicesReachable'
  BY <1>1, <1>2 DEF SettingsInv, DevicesReachable
<1> QED BY <1>3, <1>4 DEF SettingsInv

LEMMA SettingsStep == ASSUME SettingsInv, [PushNext]_pushVars PROVE SettingsInv'
<1>1. CASE UNCHANGED pushVars
  BY <1>1 DEF pushVars, SettingsInv, PushRowsOK, SettingsSought, DevicesReachable
<1>2. CASE PushNext
  BY <1>2, RegisterDeviceKept, UnregisterDeviceKept, SettingsCallKept, SendingKept, EndKept DEF PushNext
<1> QED BY <1>1, <1>2

(* The owner of a device has push settings, or a request that will see to  *)
(* it, or one that failed on the way (PushService.ensurePushSettings).     *)
THEOREM DevicesReachableCorrect == PushSpec => []DevicesReachable
<1>1. SettingsInv /\ [PushNext]_pushVars => SettingsInv'
  BY SettingsStep
<1>2. SettingsInv => DevicesReachable
  BY DEF SettingsInv
<1> QED BY <1>1, <1>2, SettingsInitial, PTL DEF PushSpec

-----------------------------------------------------------------------------
(* A push has one request while its log waits for the result, and what the *)
(* request knows of is what happened.                                      *)
PushWork(c, p) == pushCall[c].push = p

SendsOnce ==
  \A c \in PushCalls : \A p \in Pushes : PushWork(c, p) =>
    /\ log[p].status \in {"PENDING", "QUEUED"}
    /\ pushCall[c].pc \in {"read_devices", "send", "write_log"}
    /\ \A d \in PushCalls : PushWork(d, p) => d = c
    /\ pushCall[c].acknowledged \subseteq received[p]
    /\ pushCall[c].acknowledged \subseteq pushCall[c].tokens
    /\ pushCall[c].pc # "write_log" => pushCall[c].acknowledged = {}

SendersSend ==
  \A c \in PushCalls : pushCall[c].pc \in {"read_devices", "send", "write_log"} => pushCall[c].push \in Pushes

Waiting ==
  \A p \in Pushes : log[p].status \in {"none", "PENDING", "QUEUED"} => log[p].success = 0 /\ log[p].failure = 0

LogRowsOK == log \in [Pushes -> Log] /\ received \in [Pushes -> SUBSET Tokens]

LogInv == SettingsInv /\ LogRowsOK /\ SendsOnce /\ SendersSend /\ Waiting /\ LogsTruthful

LEMMA LogInitial == PushInit => LogInv
<1> SUFFICES ASSUME PushInit PROVE LogInv
  OBVIOUS
<1>1. NoPushCall.push = Nobody /\ NoPushCall.pc = "idle"
  BY DEF NoPushCall
<1>2. [status |-> "none", success |-> 0, failure |-> 0] \in Log
  BY DEF Log
<1>3. SettingsInv /\ LogRowsOK
  BY <1>2, SettingsInitial DEF PushInit, LogRowsOK
<1>4. \A p \in Pushes : log[p].status = "none" /\ log[p].success = 0 /\ log[p].failure = 0 /\ received[p] = {}
  BY DEF PushInit
<1>5. \A c \in PushCalls : pushCall[c] = NoPushCall
  BY DEF PushInit
<1>6. SendsOnce /\ SendersSend /\ Waiting
  BY <1>1, <1>4, <1>5, PushDeliveryAssumption DEF SendsOnce, SendersSend, Waiting, PushWork
<1>7. Cardinality({}) = 0
  BY FS_EmptySet
<1>8. LogsTruthful
  BY <1>4, <1>7 DEF LogsTruthful
<1> QED BY <1>3, <1>6, <1>8 DEF LogInv

(* Steps that neither send nor write a log.                                *)
LEMMA LogKept ==
  ASSUME LogInv, SettingsInv', UNCHANGED <<log, received, failed>>,
         \A c \in PushCalls :
           \/ pushCall'[c] = pushCall[c]
           \/ /\ pushCall[c].push \notin Pushes /\ pushCall'[c].push \notin Pushes
              /\ pushCall'[c].pc \notin {"read_devices", "send", "write_log"}
           \/ /\ pushCall'[c].push = pushCall[c].push /\ pushCall[c].pc # "write_log"
              /\ pushCall'[c].acknowledged = pushCall[c].acknowledged
              /\ pushCall'[c].pc \in {"read_devices", "send", "write_log"}
              /\ pushCall[c].pc \in {"read_devices", "send", "write_log"}
  PROVE  LogInv'
<1>1. \A c \in PushCalls : \A p \in Pushes : PushWork(c, p)' <=> PushWork(c, p)
  BY DEF PushWork
<1>2. SendsOnce'
  <2> SUFFICES ASSUME NEW c \in PushCalls, NEW p \in Pushes, PushWork(c, p)'
               PROVE  /\ log'[p].status \in {"PENDING", "QUEUED"}
                      /\ pushCall'[c].pc \in {"read_devices", "send", "write_log"}
                      /\ \A d \in PushCalls : PushWork(d, p)' => d = c
                      /\ pushCall'[c].acknowledged \subseteq received'[p]
                      /\ pushCall'[c].acknowledged \subseteq pushCall'[c].tokens
                      /\ pushCall'[c].pc # "write_log" => pushCall'[c].acknowledged = {}
    BY DEF SendsOnce
  <2>1. PushWork(c, p)
    BY <1>1
  <2>2. /\ log[p].status \in {"PENDING", "QUEUED"}
        /\ pushCall[c].pc \in {"read_devices", "send", "write_log"}
        /\ \A d \in PushCalls : PushWork(d, p) => d = c
        /\ pushCall[c].acknowledged \subseteq received[p]
        /\ pushCall[c].acknowledged \subseteq pushCall[c].tokens
        /\ pushCall[c].pc # "write_log" => pushCall[c].acknowledged = {}
    BY <2>1 DEF LogInv, SendsOnce
  <2>3. CASE pushCall'[c] = pushCall[c]
    BY <1>1, <2>2, <2>3
  <2>4. CASE /\ pushCall'[c].push = pushCall[c].push /\ pushCall[c].pc # "write_log"
             /\ pushCall'[c].acknowledged = pushCall[c].acknowledged
             /\ pushCall'[c].pc \in {"read_devices", "send", "write_log"}
    <3>1. pushCall'[c].acknowledged = {}
      BY <2>2, <2>4
    <3> QED BY <1>1, <2>2, <2>4, <3>1
  <2> QED BY <2>1, <2>3, <2>4 DEF PushWork
<1>3. SendersSend'
  BY DEF LogInv, SendersSend
<1>4. Waiting'
  BY DEF LogInv, Waiting
<1>5. LogsTruthful'
  <2>1. \A p \in Pushes : (\E c \in PushCalls : pushCall[c].push = p) => (\E c \in PushCalls : pushCall'[c].push = p)
    BY <1>1 DEF PushWork
  <2> QED BY <2>1 DEF LogInv, LogsTruthful
<1> QED BY <1>2, <1>3, <1>4, <1>5 DEF LogInv, LogRowsOK

LEMMA OtherCallKeepsLog ==
  ASSUME LogInv, SettingsInv', NEW c \in PushCalls,
         \/ \E t \in Tokens, u \in Listeners : RegisterDevice(c, t, u)
         \/ \E u \in Listeners : UpdatePushSettings(c, u)
         \/ FindSettings(c) \/ CreateSettings(c) \/ WriteSettings(c)
  PROVE  LogInv'
<1>0. pushCall \in [PushCalls -> PushCall] /\ pushCall[c] \in PushCall
  BY DEF LogInv, SettingsInv, PushRowsOK
<1>1. /\ UNCHANGED <<log, received, failed>>
      /\ \A d \in PushCalls \ {c} : pushCall'[d] = pushCall[d]
  BY <1>0 DEF RegisterDevice, UpdatePushSettings, PushStart, FindSettings, CreateSettings, WriteSettings, Advance,
              EndCall
<1>2. pushCall[c].pc \in {"idle", "find_settings", "create_settings", "update_settings"}
  BY DEF RegisterDevice, UpdatePushSettings, PushStart, FindSettings, CreateSettings, WriteSettings, Pc
<1>3. pushCall[c].push \notin Pushes
  BY <1>2 DEF LogInv, SendsOnce, PushWork
<1>4. NoPushCall.pc = "idle" /\ NoPushCall.push \notin Pushes
  BY PushDeliveryAssumption DEF NoPushCall
<1>5. /\ pushCall'[c].pc \in {"idle", "find_settings", "create_settings", "update_settings"}
      /\ pushCall'[c].push \notin Pushes
  <2>1. CASE (\E t \in Tokens, u \in Listeners : RegisterDevice(c, t, u))
             \/ \E u \in Listeners : UpdatePushSettings(c, u)
    <3>1. PICK op \in {"register", "settings"}, u \in Listeners :
            pushCall' = [pushCall EXCEPT ![c] = [NoPushCall EXCEPT !.pc = "find_settings", !.op = op, !.user = u]]
      BY <2>1 DEF RegisterDevice, UpdatePushSettings, PushStart
    <3> QED BY <1>0, <3>1, PushDeliveryAssumption DEF NoPushCall
  <2>2. ASSUME NEW pc \in {"create_settings", "update_settings"}, Advance(c, pc)
        PROVE  pushCall'[c].pc = pc /\ pushCall'[c].push = pushCall[c].push
    BY <1>0, <2>2 DEF Advance, PushCall
  <2>3. EndCall(c) => pushCall'[c] = NoPushCall
    BY <1>0 DEF EndCall
  <2> QED BY <1>3, <1>4, <2>1, <2>2, <2>3 DEF FindSettings, CreateSettings, WriteSettings
<1> QED BY <1>1, <1>3, <1>5, LogKept

LEMMA ReadKeepsLog ==
  ASSUME LogInv, SettingsInv', NEW c \in PushCalls, ReadDevices(c) \/ ProviderFails(c)
  PROVE  LogInv'
<1>0. pushCall \in [PushCalls -> PushCall] /\ pushCall[c] \in PushCall
  BY DEF LogInv, SettingsInv, PushRowsOK
<1>1. UNCHANGED <<log, received, failed>> /\ pushCall[c].pc \in {"read_devices", "send"}
  BY DEF ReadDevices, ProviderFails, Pc
<1>2. /\ \A d \in PushCalls \ {c} : pushCall'[d] = pushCall[d]
      /\ pushCall'[c].push = pushCall[c].push /\ pushCall'[c].acknowledged = pushCall[c].acknowledged
      /\ pushCall'[c].pc \in {"send", "write_log"}
  <2>1. ASSUME NEW tokens, NEW pc \in {"send", "write_log"},
               pushCall' = [pushCall EXCEPT ![c].tokens = tokens, ![c].pc = pc]
        PROVE  /\ \A d \in PushCalls \ {c} : pushCall'[d] = pushCall[d]
               /\ pushCall'[c].push = pushCall[c].push /\ pushCall'[c].acknowledged = pushCall[c].acknowledged
               /\ pushCall'[c].pc = pc
    BY <1>0, <2>1 DEF PushCall
  <2>2. CASE ReadDevices(c)
    BY <2>1, <2>2 DEF ReadDevices
  <2>3. CASE ProviderFails(c)
    BY <1>0, <2>3 DEF ProviderFails, PushCall
  <2> QED BY <2>2, <2>3
<1> QED BY <1>1, <1>2, LogKept

LEMMA SendPushKeepsLog ==
  ASSUME LogInv, SettingsInv', NEW c \in PushCalls, NEW p \in Pushes, NEW scheduled \in {"not", "past", "later"},
         SendPush(c, p, scheduled)
  PROVE  LogInv'
<1>0. /\ pushCall \in [PushCalls -> PushCall] /\ log \in [Pushes -> Log]
      /\ received \in [Pushes -> SUBSET Tokens]
  BY DEF LogInv, SettingsInv, PushRowsOK, LogRowsOK
<1>1. log[p].status = "none" /\ pushCall[c].pc = "idle" /\ UNCHANGED <<received, failed>>
  BY DEF SendPush, Pc
<1>2. PICK status \in {"PENDING", "QUEUED"} :
        /\ log' = [log EXCEPT ![p].status = status]
        /\ status = "PENDING" <=> scheduled = "not"
  BY DEF SendPush
<1>3. /\ log'[p] = [log[p] EXCEPT !.status = status] /\ log'[p] \in Log
      /\ log'[p].status = status /\ log'[p].success = log[p].success /\ log'[p].failure = log[p].failure
      /\ \A q \in Pushes \ {p} : log'[q] = log[q]
  BY <1>0, <1>2 DEF Log
<1>4. log' \in [Pushes -> Log]
  BY <1>0, <1>2, <1>3
<1>5. \A d \in PushCalls : ~PushWork(d, p)
  BY <1>1 DEF LogInv, SendsOnce
<1>6. \A q \in Pushes : ~PushWork(c, q)
  BY <1>1 DEF LogInv, SendsOnce
<1>7. /\ \A d \in PushCalls \ {c} : pushCall'[d] = pushCall[d]
      /\ \/ scheduled = "later" /\ pushCall'[c] = pushCall[c]
         \/ /\ pushCall'[c].push = p /\ pushCall'[c].pc = "read_devices"
            /\ pushCall'[c].tokens = {} /\ pushCall'[c].acknowledged = {}
  BY <1>0 DEF SendPush, NoPushCall
<1>8. SendsOnce'
  <2> SUFFICES ASSUME NEW d \in PushCalls, NEW q \in Pushes, PushWork(d, q)'
               PROVE  /\ log'[q].status \in {"PENDING", "QUEUED"}
                      /\ pushCall'[d].pc \in {"read_devices", "send", "write_log"}
                      /\ \A e \in PushCalls : PushWork(e, q)' => e = d
                      /\ pushCall'[d].acknowledged \subseteq received'[q]
                      /\ pushCall'[d].acknowledged \subseteq pushCall'[d].tokens
                      /\ pushCall'[d].pc # "write_log" => pushCall'[d].acknowledged = {}
    BY DEF SendsOnce
  <2>1. CASE q = p
    <3>1. \A e \in PushCalls : PushWork(e, p)' => e = c
      BY <1>5, <1>7 DEF PushWork
    <3>2. d = c /\ pushCall'[c].push = p /\ pushCall[c].push # p
      BY <1>5, <2>1, <3>1 DEF PushWork
    <3> QED BY <1>3, <1>7, <2>1, <3>1, <3>2
  <2>2. CASE q # p
    <3>1. d # c /\ pushCall'[d] = pushCall[d] /\ PushWork(d, q)
      BY <1>6, <1>7, <2>2 DEF PushWork
    <3>2. \A e \in PushCalls : PushWork(e, q)' => PushWork(e, q)
      BY <1>6, <1>7, <2>2 DEF PushWork
    <3> QED BY <1>1, <1>3, <2>2, <3>1, <3>2 DEF LogInv, SendsOnce
  <2> QED BY <2>1, <2>2
<1>9. SendersSend'
  BY <1>7 DEF LogInv, SendersSend
<1>10. Waiting'
  BY <1>1, <1>3 DEF LogInv, Waiting
<1>11. LogsTruthful'
  <2> SUFFICES ASSUME NEW q \in Pushes
               PROVE  /\ log'[q].status = "SENT" => (received'[q] # {} \/ log'[q].success + log'[q].failure = 0)
                      /\ log'[q].success <= Cardinality(received'[q])
                      /\ log'[q].status = "PENDING" => (q \in failed' \/ \E d \in PushCalls : pushCall'[d].push = q)
    BY DEF LogsTruthful
  <2>1. CASE q = p
    <3>1. log[p].success <= Cardinality(received[p])
      BY DEF LogInv, LogsTruthful
    <3>2. status = "PENDING" => pushCall'[c].push = p
      BY <1>2, <1>7
    <3> QED BY <1>1, <1>3, <2>1, <3>1, <3>2
  <2>2. CASE q # p
    <3>1. \A d \in PushCalls : pushCall[d].push = q => pushCall'[d].push = q
      BY <1>6, <1>7 DEF PushWork
    <3> QED BY <1>1, <1>3, <2>2, <3>1 DEF LogInv, LogsTruthful
  <2> QED BY <2>1, <2>2
<1> QED BY <1>1, <1>4, <1>8, <1>9, <1>10, <1>11 DEF LogInv, LogRowsOK

LEMMA SendToDevicesKeepsLog ==
  ASSUME LogInv, SettingsInv', NEW c \in PushCalls, SendToDevices(c) PROVE LogInv'
<1>0. /\ pushCall \in [PushCalls -> PushCall] /\ pushCall[c] \in PushCall /\ log \in [Pushes -> Log]
      /\ received \in [Pushes -> SUBSET Tokens]
  BY DEF LogInv, SettingsInv, PushRowsOK, LogRowsOK
<1>1. PICK p \in Pushes : p = pushCall[c].push
  BY DEF SendToDevices, Pc, LogInv, SendersSend
<1>2. PICK got \in SUBSET pushCall[c].tokens, answered \in SUBSET pushCall[c].tokens :
        /\ answered \subseteq got
        /\ received' = [received EXCEPT ![p] = got]
        /\ pushCall' = [pushCall EXCEPT ![c].acknowledged = answered, ![c].pc = "write_log"]
  BY <1>1 DEF SendToDevices
<1>3. UNCHANGED <<log, failed>>
  BY DEF SendToDevices
<1>4. /\ \A d \in PushCalls \ {c} : pushCall'[d] = pushCall[d]
      /\ pushCall'[c].push = p /\ pushCall'[c].pc = "write_log" /\ pushCall'[c].tokens = pushCall[c].tokens
      /\ pushCall'[c].acknowledged = answered
  BY <1>0, <1>1, <1>2 DEF PushCall
<1>5. /\ received'[p] = got /\ \A q \in Pushes \ {p} : received'[q] = received[q]
      /\ received' \in [Pushes -> SUBSET Tokens]
  BY <1>0, <1>2 DEF PushCall
<1>6. /\ log[p].status \in {"PENDING", "QUEUED"}
      /\ \A d \in PushCalls : PushWork(d, p) => d = c
  BY <1>1 DEF LogInv, SendsOnce, PushWork
<1>7. \A d \in PushCalls : \A q \in Pushes : PushWork(d, q)' <=> PushWork(d, q)
  BY <1>1, <1>4 DEF PushWork
<1>8. SendsOnce'
  <2> SUFFICES ASSUME NEW d \in PushCalls, NEW q \in Pushes, PushWork(d, q)'
               PROVE  /\ log'[q].status \in {"PENDING", "QUEUED"}
                      /\ pushCall'[d].pc \in {"read_devices", "send", "write_log"}
                      /\ \A e \in PushCalls : PushWork(e, q)' => e = d
                      /\ pushCall'[d].acknowledged \subseteq received'[q]
                      /\ pushCall'[d].acknowledged \subseteq pushCall'[d].tokens
                      /\ pushCall'[d].pc # "write_log" => pushCall'[d].acknowledged = {}
    BY DEF SendsOnce
  <2>1. CASE d = c
    <3>1. q = p
      BY <1>1, <1>7, <2>1 DEF PushWork
    <3> QED BY <1>2, <1>3, <1>4, <1>5, <1>6, <1>7, <2>1, <3>1
  <2>2. CASE d # c
    <3>1. q # p /\ PushWork(d, q)
      BY <1>6, <1>7, <2>2
    <3> QED BY <1>3, <1>4, <1>5, <1>7, <2>2, <3>1 DEF LogInv, SendsOnce
  <2> QED BY <2>1, <2>2
<1>9. SendersSend'
  BY <1>4 DEF LogInv, SendersSend
<1>10. Waiting'
  BY <1>3 DEF LogInv, Waiting
<1>11. LogsTruthful'
  <2> SUFFICES ASSUME NEW q \in Pushes
               PROVE  /\ log'[q].status = "SENT" => (received'[q] # {} \/ log'[q].success + log'[q].failure = 0)
                      /\ log'[q].success <= Cardinality(received'[q])
                      /\ log'[q].status = "PENDING" => (q \in failed' \/ \E d \in PushCalls : pushCall'[d].push = q)
    BY DEF LogsTruthful
  <2>1. CASE q = p
    <3>1. log[p].success = 0
      BY <1>6 DEF LogInv, Waiting
    <3>2. IsFiniteSet(got) /\ Cardinality(got) \in Nat
      <4>1. IsFiniteSet(Tokens) /\ got \subseteq Tokens
        BY <1>0, PushDeliveryAssumption DEF PushCall
      <4> QED BY <4>1, FS_Subset, FS_CardinalityType
    <3> QED BY <1>3, <1>4, <1>5, <1>6, <2>1, <3>1, <3>2
  <2>2. CASE q # p
    <3>1. \A d \in PushCalls : pushCall[d].push = q => pushCall'[d].push = q
      BY <1>7 DEF PushWork
    <3> QED BY <1>3, <1>5, <2>2, <3>1 DEF LogInv, LogsTruthful
  <2> QED BY <2>1, <2>2
<1> QED BY <1>0, <1>3, <1>5, <1>8, <1>9, <1>10, <1>11 DEF LogInv, LogRowsOK

LEMMA WriteLogKeepsLog ==
  ASSUME LogInv, SettingsInv', NEW c \in PushCalls, WriteLog(c) PROVE LogInv'
<1>0. /\ pushCall \in [PushCalls -> PushCall] /\ pushCall[c] \in PushCall /\ log \in [Pushes -> Log]
      /\ received \in [Pushes -> SUBSET Tokens]
  BY DEF LogInv, SettingsInv, PushRowsOK, LogRowsOK
<1>1. PICK p \in Pushes : p = pushCall[c].push
  BY DEF WriteLog, Pc, LogInv, SendersSend
<1>2. PICK tokens \in SUBSET Tokens, acknowledged \in SUBSET Tokens :
        tokens = pushCall[c].tokens /\ acknowledged = pushCall[c].acknowledged
  BY <1>0 DEF PushCall
<1>3. acknowledged \subseteq received[p] /\ acknowledged \subseteq tokens
      /\ \A d \in PushCalls : PushWork(d, p) => d = c
  BY <1>1, <1>2 DEF LogInv, SendsOnce, PushWork
<1>4. /\ IsFiniteSet(received[p]) /\ Cardinality(acknowledged) <= Cardinality(received[p])
      /\ Cardinality(acknowledged) \in Nat /\ Cardinality(received[p]) \in Nat
      /\ Cardinality(tokens \ acknowledged) \in Nat
  <2>1. IsFiniteSet(Tokens)
    BY PushDeliveryAssumption
  <2>2. IsFiniteSet(received[p]) /\ IsFiniteSet(acknowledged) /\ IsFiniteSet(tokens \ acknowledged)
    <3>1. received[p] \subseteq Tokens /\ tokens \ acknowledged \subseteq Tokens
      BY <1>0
    <3> QED BY <2>1, <3>1, FS_Subset
  <2> QED BY <1>3, <2>2, FS_Subset, FS_CardinalityType
<1>5. PICK row \in Log : /\ row.status = IF Succeeded(c) THEN "SENT" ELSE "FAILED"
                         /\ row.success = Cardinality(acknowledged)
                         /\ row.failure = Cardinality(tokens \ acknowledged)
                         /\ log' = [log EXCEPT ![p] = row]
  <2>1. PICK row : /\ row = [status |-> IF Succeeded(c) THEN "SENT" ELSE "FAILED",
                             success |-> Cardinality(acknowledged), failure |-> Cardinality(tokens \ acknowledged)]
                   /\ log' = [log EXCEPT ![p] = row]
    BY <1>1, <1>2 DEF WriteLog
  <2>2. row \in Log
    BY <1>4, <2>1 DEF Log
  <2> QED BY <2>1, <2>2
<1>6. /\ log' \in [Pushes -> Log] /\ log'[p] = row /\ \A q \in Pushes \ {p} : log'[q] = log[q]
      /\ UNCHANGED <<received, failed>>
  BY <1>0, <1>5 DEF WriteLog
<1>7. /\ \A d \in PushCalls \ {c} : pushCall'[d] = pushCall[d]
      /\ pushCall'[c].push \notin Pushes /\ pushCall'[c].pc = "idle"
  BY <1>0, PushDeliveryAssumption DEF WriteLog, EndCall, NoPushCall
<1>8. \A d \in PushCalls : \A q \in Pushes : PushWork(d, q)' => d # c /\ q # p /\ PushWork(d, q)
  BY <1>3, <1>7 DEF PushWork
<1>9. SendsOnce'
  BY <1>6, <1>7, <1>8 DEF LogInv, SendsOnce
<1>10. SendersSend'
  BY <1>7 DEF LogInv, SendersSend
<1>11. Waiting'
  BY <1>5, <1>6 DEF LogInv, Waiting
<1>12. LogsTruthful'
  <2> SUFFICES ASSUME NEW q \in Pushes
               PROVE  /\ log'[q].status = "SENT" => (received'[q] # {} \/ log'[q].success + log'[q].failure = 0)
                      /\ log'[q].success <= Cardinality(received'[q])
                      /\ log'[q].status = "PENDING" => (q \in failed' \/ \E d \in PushCalls : pushCall'[d].push = q)
    BY DEF LogsTruthful
  <2>1. CASE q = p
    <3>1. ASSUME Succeeded(c) PROVE received[p] # {} \/ row.success + row.failure = 0
      <4>1. CASE tokens = {}
        <5>1. acknowledged = {} /\ tokens \ acknowledged = {}
          BY <1>3, <4>1
        <5>2. row.success = 0 /\ row.failure = 0
          BY <1>5, <5>1, FS_EmptySet
        <5> QED BY <5>2
      <4>2. CASE acknowledged # {}
        BY <1>3, <4>2
      <4> QED BY <1>2, <3>1, <4>1, <4>2 DEF Succeeded
    <3>2. row.success <= Cardinality(received[p])
      BY <1>4, <1>5
    <3> QED BY <1>5, <1>6, <2>1, <3>1, <3>2
  <2>2. CASE q # p
    <3>1. \A d \in PushCalls : pushCall[d].push = q => pushCall'[d].push = q
      BY <1>1, <1>7, <2>2
    <3> QED BY <1>6, <2>2, <3>1 DEF LogInv, LogsTruthful
  <2> QED BY <2>1, <2>2
<1> QED BY <1>0, <1>6, <1>9, <1>10, <1>11, <1>12 DEF LogInv, LogRowsOK

LEMMA EndKeepsLog ==
  ASSUME LogInv, SettingsInv', (\E c \in PushCalls : CallFails(c)) \/ PushCrash PROVE LogInv'
<1>1. /\ UNCHANGED <<log, received>> /\ failed \subseteq failed'
      /\ \A c \in PushCalls :
           \/ pushCall'[c] = pushCall[c]
           \/ pushCall'[c] = NoPushCall /\ pushCall[c].push \in failed'
  BY RequestsEnd DEF LogInv, SettingsInv
<1>2. NoPushCall.push \notin Pushes /\ NoPushCall.pc = "idle"
  BY PushDeliveryAssumption DEF NoPushCall
<1>3. \A c \in PushCalls : \A p \in Pushes : PushWork(c, p)' => PushWork(c, p) /\ pushCall'[c] = pushCall[c]
  BY <1>1, <1>2 DEF PushWork
<1>4. SendsOnce'
  BY <1>1, <1>3 DEF LogInv, SendsOnce
<1>5. SendersSend' /\ Waiting'
  BY <1>1, <1>2 DEF LogInv, SendersSend, Waiting
<1>6. LogsTruthful'
  BY <1>1 DEF LogInv, LogsTruthful
<1> QED BY <1>1, <1>4, <1>5, <1>6 DEF LogInv, LogRowsOK

LEMMA LogStep == ASSUME LogInv, [PushNext]_pushVars PROVE LogInv'
<1>1. SettingsInv'
  BY SettingsStep DEF LogInv
<1>2. CASE UNCHANGED pushVars
  BY <1>1, <1>2, LogKept DEF pushVars
<1>3. ASSUME NEW t \in Tokens, UnregisterDevice(t) PROVE LogInv'
  BY <1>1, <1>3, LogKept DEF UnregisterDevice
<1>4. CASE PushNext
  BY <1>1, <1>3, <1>4, OtherCallKeepsLog, ReadKeepsLog, SendPushKeepsLog, SendToDevicesKeepsLog, WriteLogKeepsLog,
     EndKeepsLog DEF PushNext
<1> QED BY <1>2, <1>4

(* A push is logged as sent only if it was, and waits in its log only for  *)
(* a request or after one that failed on the way (PushService.sendPush and *)
(* executePushSend), whatever answers get lost.                            *)
THEOREM LogsTruthfulCorrect == PushSpec => []LogsTruthful
<1>1. LogInv /\ [PushNext]_pushVars => LogInv'
  BY LogStep
<1>2. LogInv => LogsTruthful
  BY DEF LogInv
<1> QED BY <1>1, <1>2, LogInitial, PTL DEF PushSpec
===============================================================================
