----------------------------- MODULE CronService -----------------------------
(* The cron service: its jobs in memory and in jobs.json, the scheduler loop, *)
(* the cron tool that edits jobs while others execute, and the ways in which  *)
(* several services share the file: a reload of the gateway starts a new      *)
(* service while the loop of the old one may still execute, and the command   *)
(* line edits the file of a running gateway.                                  *)
(*                                                                            *)
(* Schedules are one-time ("at") or recurring; a recurring one is due again   *)
(* one tick after it is computed.  Payloads are abstracted.  A save may fail, *)
(* which the code logs or reports.  MaxCronClock bounds time, MaxCronEdits    *)
(* the edits of jobs.                                                         *)
EXTENDS Naturals, FiniteSets

CONSTANTS CronJobs,     \* job ids
          OneTime,      \* those whose schedule is of kind "at"
          CronServices, \* services of one process after another or of one gateway
          MaxCronClock, MaxCronEdits

ASSUME CronAssumption ==
  /\ OneTime \subseteq CronJobs /\ CronServices \subseteq Nat
  /\ MaxCronClock \in Nat /\ MaxCronEdits \in Nat

Never == MaxCronClock + 2
Absent == [on |-> FALSE, at |-> Never, next |-> Never, here |-> FALSE]
CronRecord == [on : BOOLEAN, at : 0..Never, next : 0..Never, here : BOOLEAN]

VARIABLES cnClock, cnEdits,
          cnFile,   \* [CronJobs -> record]: jobs.json
          cnMem,    \* [CronServices -> [CronJobs -> record]]: store
          cnState,  \* [CronServices -> {"new", "running", "stopped", "gone"}]
          cnDue,    \* [CronServices -> jobs]: dueJobIDs not yet executed
          cnExec,   \* [CronServices -> jobs]: the job in onJob, as a set
          cnAdding, \* <<service, job, record>> AddJob returned, before UpdateJob
          cnRuns    \* [CronJobs -> Nat]: executions begun

cnVars == <<cnClock, cnEdits, cnFile, cnMem, cnState, cnDue, cnExec, cnAdding, cnRuns>>

Nothing == [j \in CronJobs |-> Absent]

CnInit ==
  /\ cnClock = 0 /\ cnEdits = 0
  /\ cnFile = Nothing /\ cnMem = [s \in CronServices |-> Nothing]
  /\ cnState = [s \in CronServices |-> "new"]
  /\ cnDue = [s \in CronServices |-> {}] /\ cnExec = [s \in CronServices |-> {}]
  /\ cnAdding = {} /\ cnRuns = [j \in CronJobs |-> 0]

(* The one service whose tool and scheduler the gateway uses. *)
Running(s) == cnState[s] = "running"

(* saveStoreUnsafe: the whole store of the service replaces the file, or the  *)
(* write fails and memory alone has the change.                               *)
Save(s, jobs) ==
  /\ cnMem' = [cnMem EXCEPT ![s] = jobs]
  /\ cnFile' \in {jobs, cnFile}

(* Plausible defect: a one-time job is still to run at its very time. *)
ComputeNextRun_AtBoundary(j, job) ==
  IF j \in OneTime THEN IF job.at >= cnClock THEN job.at ELSE Never
                   ELSE cnClock + 1

(* computeNextRun: an "at" schedule is due once, in the future. *)
ComputeNextRun(j, job) ==
  IF j \in OneTime THEN IF job.at > cnClock THEN job.at ELSE Never
                   ELSE cnClock + 1

(* NewCronService and Start, once the previous service has been stopped: load *)
(* the file, recompute the next runs of enabled jobs, save.                   *)
CnStart(s) ==
  /\ cnState[s] = "new" /\ \A t \in CronServices : t < s => cnState[t] \in {"stopped", "gone"}
  /\ cnState' = [cnState EXCEPT ![s] = "running"]
  /\ Save(s, [j \in CronJobs |-> IF cnFile[j].on
                THEN [cnFile[j] EXCEPT !.next = ComputeNextRun(j, cnFile[j])] ELSE cnFile[j]])
  /\ UNCHANGED <<cnClock, cnEdits, cnDue, cnExec, cnAdding, cnRuns>>

(* Stop ends the scheduling; what the loop has collected it still executes.   *)
CnStop(s) ==
  /\ Running(s) /\ cnState' = [cnState EXCEPT ![s] = "stopped"]
  /\ UNCHANGED <<cnClock, cnEdits, cnFile, cnMem, cnDue, cnExec, cnAdding, cnRuns>>

(* The process ends: memory, loops and half-made edits of all services go. *)
CnCrash ==
  /\ \E s \in CronServices : cnState[s] \in {"running", "stopped"}
  /\ cnState' = [s \in CronServices |-> IF cnState[s] = "new" THEN "new" ELSE "gone"]
  /\ cnDue' = [s \in CronServices |-> {}] /\ cnExec' = [s \in CronServices |-> {}]
  /\ cnAdding' = {}
  /\ UNCHANGED <<cnClock, cnEdits, cnFile, cnMem, cnRuns>>

DueJobs(s) == {j \in CronJobs : cnMem[s][j].on /\ cnMem[s][j].next <= cnClock}

(* checkJobs under the lock: collect what is due, clear its next run, save.   *)
CnCheckJobs(s) ==
  /\ Running(s) /\ cnDue[s] = {} /\ cnExec[s] = {}
  /\ cnDue' = [cnDue EXCEPT ![s] = DueJobs(s)]
  /\ Save(s, [j \in CronJobs |-> IF j \in DueJobs(s) THEN [cnMem[s][j] EXCEPT !.next = Never]
                                                    ELSE cnMem[s][j]])
  /\ UNCHANGED <<cnClock, cnEdits, cnState, cnExec, cnAdding, cnRuns>>

(* executeJobByID up to onJob: a job that was removed meanwhile is skipped; a *)
(* job that was disabled is not.                                              *)
CnExecute(s, j) ==
  /\ j \in cnDue[s] /\ cnExec[s] = {}
  /\ cnDue' = [cnDue EXCEPT ![s] = @ \ {j}]
  /\ IF cnMem[s][j].here THEN /\ cnExec' = [cnExec EXCEPT ![s] = {j}]
                              /\ cnRuns' = [cnRuns EXCEPT ![j] = @ + 1]
                         ELSE UNCHANGED <<cnExec, cnRuns>>
  /\ UNCHANGED <<cnClock, cnEdits, cnFile, cnMem, cnState, cnAdding>>

(* Plausible defect: only a job that is still enabled gets its next run. *)
AfterRun_OnlyEnabled(j, job) ==
  IF j \in OneTime THEN Absent
  ELSE [job EXCEPT !.next = IF job.next = Never /\ cnEdits > 0 THEN Never ELSE cnClock + 1]

(* What an execution leaves of a job: one-time jobs are deleted. *)
AfterRun(j, job) ==
  IF j \in OneTime THEN Absent ELSE [job EXCEPT !.next = ComputeNextRun(j, job)]

(* executeJobByID after onJob, under the lock. *)
CnFinish(s, j) ==
  /\ j \in cnExec[s] /\ cnExec' = [cnExec EXCEPT ![s] = {}]
  /\ IF cnMem[s][j].here THEN Save(s, [cnMem[s] EXCEPT ![j] = AfterRun(j, @)])
                         ELSE UNCHANGED <<cnMem, cnFile>>
  /\ UNCHANGED <<cnClock, cnEdits, cnState, cnDue, cnAdding, cnRuns>>

----------------------------------------------------------------------------
(* The cron tool on the running service *)

Edit(s) == Running(s) /\ cnEdits < MaxCronEdits /\ cnEdits' = cnEdits + 1

NewJob(j) ==
  LET job == [on |-> TRUE, at |-> cnClock + 1, next |-> Never, here |-> TRUE]
  IN  [job EXCEPT !.next = ComputeNextRun(j, job)]

(* generateID: the id of a new job is one no service knows. *)
Unused(j) == /\ cnRuns[j] = 0 /\ ~cnFile[j].here
             /\ \A s \in CronServices : ~cnMem[s][j].here /\ j \notin cnDue[s]

(* addJob: AddJob; for a command the job it returned is written back later.   *)
CnAdd(s, j, isCommand) ==
  /\ Edit(s) /\ Unused(j) /\ cnAdding = {}
  /\ Save(s, [cnMem[s] EXCEPT ![j] = NewJob(j)])
  /\ cnAdding' = IF isCommand THEN {<<s, j, NewJob(j)>>} ELSE {}
  /\ UNCHANGED <<cnClock, cnState, cnDue, cnExec, cnRuns>>

(* UpdateJob with the copy AddJob returned: its state overwrites the job's.   *)
CnUpdate(s, j) ==
  /\ cnAdding' = {}
  /\ \E a \in cnAdding :
       /\ a[1] = s /\ a[2] = j
       /\ IF cnMem[s][j].here THEN Save(s, [cnMem[s] EXCEPT ![j] = a[3]])
                              ELSE UNCHANGED <<cnMem, cnFile>>
  /\ UNCHANGED <<cnClock, cnEdits, cnState, cnDue, cnExec, cnRuns>>

CnRemove(s, j) ==
  /\ Edit(s) /\ cnMem[s][j].here
  /\ Save(s, [cnMem[s] EXCEPT ![j] = Absent])
  /\ UNCHANGED <<cnClock, cnState, cnDue, cnExec, cnAdding, cnRuns>>

CnEnable(s, j, enabled) ==
  /\ Edit(s) /\ cnMem[s][j].here
  /\ Save(s, [cnMem[s] EXCEPT ![j].on = enabled,
                              ![j].next = IF enabled THEN ComputeNextRun(j, cnMem[s][j])
                                                     ELSE Never])
  /\ UNCHANGED <<cnClock, cnState, cnDue, cnExec, cnAdding, cnRuns>>

(* "ottie cron add": a process of its own loads the file, adds and saves. *)
CnCommandLine(j) ==
  /\ cnEdits < MaxCronEdits /\ cnEdits' = cnEdits + 1
  /\ Unused(j)
  /\ cnFile' = [cnFile EXCEPT ![j] = NewJob(j)]
  /\ UNCHANGED <<cnClock, cnMem, cnState, cnDue, cnExec, cnAdding, cnRuns>>

CnTick ==
  /\ cnClock < MaxCronClock /\ cnClock' = cnClock + 1
  /\ UNCHANGED <<cnEdits, cnFile, cnMem, cnState, cnDue, cnExec, cnAdding, cnRuns>>

CnNext ==
  \/ \E s \in CronServices : CnStart(s) \/ CnStop(s) \/ CnCheckJobs(s)
  \/ \E s \in CronServices, j \in CronJobs :
       \/ CnExecute(s, j) \/ CnFinish(s, j) \/ CnUpdate(s, j) \/ CnRemove(s, j)
       \/ \E b \in BOOLEAN : CnAdd(s, j, b) \/ CnEnable(s, j, b)
  \/ \E j \in CronJobs : CnCommandLine(j)
  \/ CnCrash \/ CnTick

CnSpec == CnInit /\ [][CnNext]_cnVars

----------------------------------------------------------------------------
(* The state is well typed. *)
CnTypeOK ==
  /\ cnClock \in 0..MaxCronClock /\ cnEdits \in 0..MaxCronEdits
  /\ cnFile \in [CronJobs -> CronRecord] /\ cnMem \in [CronServices -> [CronJobs -> CronRecord]]
  /\ cnState \in [CronServices -> {"new", "running", "stopped", "gone"}]
  /\ cnDue \in [CronServices -> SUBSET CronJobs] /\ cnExec \in [CronServices -> SUBSET CronJobs]
  /\ cnAdding \subseteq CronServices \X CronJobs \X CronRecord /\ cnRuns \in [CronJobs -> Nat]

(* A one-time job is executed at most once, whatever crashes, failed saves,   *)
(* reloads, late updates and enablings come between its execution and its     *)
(* deletion: a time that is not in the future is never scheduled again.       *)
OneTimeRunsOnce == \A j \in OneTime : cnRuns[j] <= 1

(* No recurring job is forgotten: while it is enabled in the running service  *)
(* it has a next run or is about to get one from the loop that collected it.  *)
RecurringStaysScheduled ==
  \A s \in CronServices : Running(s) => \A j \in CronJobs \ OneTime :
    cnMem[s][j].on => cnMem[s][j].next # Never \/ j \in cnDue[s] \cup cnExec[s]

(* One-time jobs run at most once, recurring ones stay scheduled.             *)
CnInv == CnTypeOK /\ OneTimeRunsOnce /\ RecurringStaysScheduled

(* A job is not started after it was disabled.  Refuted: the loop collects,   *)
(* then executes without looking at Enabled again.                            *)
DisabledIsNotStarted ==
  [][\A s \in CronServices, j \in CronJobs :
       Running(s) /\ j \in cnExec'[s] \ cnExec[s] => cnMem[s][j].on]_cnVars

(* A job the command line added is not lost.  Refuted: every check of the     *)
(* running service writes its own store over the file.                        *)
AddedJobStays ==
  [][\A j \in CronJobs : cnFile[j].here /\ cnRuns[j] = 0 /\ cnRuns'[j] = 0 /\ cnEdits' = cnEdits
       => cnFile'[j].here]_cnVars
=============================================================================
