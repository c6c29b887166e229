---------------------------- MODULE Stores_proofs ----------------------------
(***************************************************************************)
(* What holds of that which outlives a turn: cron jobs, media, skills, the *)
(* workspace's files, credentials, the launcher's gateway, and sub-agents. *)
(***************************************************************************)
EXTENDS CronService, MediaStore, SkillInstall, WorkspaceFiles, Credentials, LauncherGateway,
        Swarm, FiniteSetTheorems, SequenceTheorems, TLAPS

(***************************************************************************)
(* The cron service.  The copies of a job, in the file and in the memory   *)
(* of every service, agree on its time; what has begun is past its time,   *)
(* and a time that has passed is never scheduled again.                    *)
(***************************************************************************)
Begun(j) == cnRuns[j] # 0 \/ \E s \in CronServices : j \in cnDue[s]
Copies(j) == {cnFile[j]} \cup {cnMem[s][j] : s \in CronServices}

(* At most one service runs: those before the newest begun have ended.        *)
InOrder == \A s, t \in CronServices : s < t /\ cnState[t] # "new" => cnState[s] \in {"stopped", "gone"}

(* A service executes one job at a time.                                      *)
OneAtATime == \A s \in CronServices : \A j, k \in cnExec[s] : j = k

(* Only jobs that are there are enabled, and a one-time job is next due at    *)
(* its time or never.                                                         *)
WellFormed(j, c) == (c.on => c.here) /\ (j \in OneTime => c.next \in {Never, c.at})
JobsWellFormed == \A j \in CronJobs : \A c \in Copies(j) : WellFormed(j, c)

(* Every copy of a one-time job has the same time, which has come once the    *)
(* job was collected.                                                         *)
SameTime == \A j \in OneTime : \A c, d \in Copies(j) : c.here /\ d.here => c.at = d.at
TimeHasCome == \A j \in OneTime : Begun(j) => \A c \in Copies(j) : c.here => c.at <= cnClock

(* One service collects a one-time job, and before it was executed.           *)
CollectedOnce ==
  \A j \in OneTime : \A s \in CronServices :
    j \in cnDue[s] => cnRuns[j] = 0 /\ \A t \in CronServices : j \in cnDue[t] => t = s

(* The running service does not schedule what has begun.                      *)
NotAgain ==
  \A s \in CronServices, j \in OneTime :
    Running(s) /\ Begun(j) /\ cnMem[s][j].on /\ cnMem[s][j].next # Never
      => j \in cnDue[s] \cup cnExec[s]

(* A job about to be written back is the one in memory, unless that was       *)
(* removed, and the running service has not yet finished it.                  *)
WriteBack ==
  \A a \in cnAdding :
    /\ WellFormed(a[2], a[3]) /\ a[3].here /\ a[3].next # Never /\ cnState[a[1]] # "new"
    /\ a[2] \in OneTime /\ cnMem[a[1]][a[2]].here =>
         /\ a[3].at = cnMem[a[1]][a[2]].at
         /\ Running(a[1]) /\ Begun(a[2]) => a[2] \in cnDue[a[1]] \cup cnExec[a[1]]

CnIInv == /\ CnTypeOK /\ InOrder /\ OneAtATime /\ JobsWellFormed /\ SameTime /\ TimeHasCome
          /\ CollectedOnce /\ NotAgain /\ WriteBack /\ OneTimeRunsOnce /\ RecurringStaysScheduled

(* A change of one job in a service and, if the save succeeds, in the file    *)
(* leaves every other copy one that there was.                                *)
LEMMA OneJobSaved ==
    ASSUME CnTypeOK, NEW s \in CronServices, NEW k \in CronJobs, NEW job \in CronRecord,
           Save(s, [cnMem[s] EXCEPT ![k] = job])
    PROVE  /\ cnFile' \in [CronJobs -> CronRecord]
           /\ cnMem' \in [CronServices -> [CronJobs -> CronRecord]]
           /\ cnMem'[s][k] = job
           /\ \A t \in CronServices, j \in CronJobs :
                t # s \/ j # k => cnMem'[t][j] = cnMem[t][j]
           /\ \A j \in CronJobs \ {k} : \A c \in Copies(j)' : c \in Copies(j)
           /\ \A c \in Copies(k)' : c = job \/ c \in Copies(k)
<1>1. /\ cnFile \in [CronJobs -> CronRecord] /\ cnMem \in [CronServices -> [CronJobs -> CronRecord]]
      /\ cnMem' = [cnMem EXCEPT ![s] = [cnMem[s] EXCEPT ![k] = job]]
      /\ cnFile' \in {[cnMem[s] EXCEPT ![k] = job], cnFile}
  BY DEF CnTypeOK, Save
<1> DEFINE jobs == [cnMem[s] EXCEPT ![k] = job]
<1>2. /\ jobs \in [CronJobs -> CronRecord] /\ jobs[k] = job
      /\ \A j \in CronJobs : j # k => jobs[j] = cnMem[s][j]
  BY <1>1
<1>3. cnMem' = [cnMem EXCEPT ![s] = jobs] /\ cnFile' \in {jobs, cnFile}
  BY <1>1
<1> HIDE DEF jobs
<1>4. /\ cnFile' \in [CronJobs -> CronRecord]
      /\ cnMem' \in [CronServices -> [CronJobs -> CronRecord]]
      /\ cnMem'[s] = jobs /\ \A t \in CronServices : t # s => cnMem'[t] = cnMem[t]
  BY <1>1, <1>2, <1>3
<1>5. \A t \in CronServices, j \in CronJobs : t # s \/ j # k => cnMem'[t][j] = cnMem[t][j]
  BY <1>2, <1>4
<1>6. ASSUME NEW j \in CronJobs, j # k, NEW c \in Copies(j)' PROVE c \in Copies(j)
  <2>1. CASE c = cnFile'[j]
    BY <1>2, <1>3, <1>6, <2>1 DEF Copies
  <2>2. CASE \E t \in CronServices : c = cnMem'[t][j]
    BY <1>5, <1>6, <2>2 DEF Copies
  <2>3. QED
    BY <1>6, <2>1, <2>2 DEF Copies
<1>7. ASSUME NEW c \in Copies(k)' PROVE c = job \/ c \in Copies(k)
  <2>1. CASE c = cnFile'[k]
    BY <1>2, <1>3, <2>1 DEF Copies
  <2>2. CASE \E t \in CronServices : c = cnMem'[t][k]
    BY <1>2, <1>4, <1>5, <2>2 DEF Copies
  <2>3. QED
    BY <1>7, <2>1, <2>2 DEF Copies
<1>8. QED
  BY <1>2, <1>4, <1>5, <1>6, <1>7

(* Times agree and have come as before if the copies that are there have the  *)
(* time of one that was there.                                                *)
LEMMA TimesKept ==
    ASSUME SameTime, TimeHasCome, CnTypeOK, cnClock' \in Nat, cnClock' >= cnClock,
           \A j \in OneTime : Begun(j)' => Begun(j),
           \A j \in OneTime : \A c \in Copies(j)' :
             c.here => \E d \in Copies(j) : d.here /\ d.at = c.at
    PROVE  SameTime' /\ TimeHasCome'
<1>1. SameTime'
  BY DEF SameTime
<1>2. TimeHasCome'
  <2> SUFFICES ASSUME NEW j \in OneTime, Begun(j)', NEW c \in Copies(j)', c.here
               PROVE  c.at <= cnClock'
    BY DEF TimeHasCome
  <2>1. PICK d \in Copies(j) : d.here /\ d.at = c.at
    OBVIOUS
  <2>2. d.at <= cnClock
    BY <2>1 DEF TimeHasCome
  <2>3. d \in CronRecord
    BY <2>1, CronAssumption DEF Copies, CnTypeOK
  <2>4. d.at \in Nat /\ cnClock \in Nat
    BY <2>3, CronAssumption DEF CronRecord, CnTypeOK, Never
  <2>5. QED
    BY <2>1, <2>2, <2>4
<1>3. QED
  BY <1>1, <1>2

(* What the edits of the tool and the end of an execution have in common:     *)
(* they change one job of a service.  Its new copy has the time of the old,   *)
(* or is the first copy; a one-time job that has begun gets no next run, a    *)
(* recurring one that is enabled has one.                                     *)
LEMMA OneJobStep ==
    ASSUME CnIInv, NEW s \in CronServices, NEW k \in CronJobs, NEW job \in CronRecord,
           Save(s, [cnMem[s] EXCEPT ![k] = job]),
           UNCHANGED <<cnClock, cnState, cnDue, cnRuns>>, cnEdits' \in 0..MaxCronEdits,
           cnExec' \in [CronServices -> SUBSET CronJobs],
           \A t \in CronServices : cnExec'[t] \subseteq cnExec[t],
           \A t \in CronServices : \A j \in cnExec[t] \ cnExec'[t] : t = s /\ j = k,
           cnAdding' \subseteq CronServices \X CronJobs \X CronRecord,
           WellFormed(k, job),
           k \in OneTime /\ job.here =>
             \/ cnMem[s][k].here /\ job.at = cnMem[s][k].at
             \/ ~Begun(k) /\ \A c \in Copies(k) : ~c.here,
           k \in OneTime /\ Running(s) /\ Begun(k) /\ job.on /\ job.next # Never
             => k \in cnDue[s] \cup cnExec'[s],
           k \notin OneTime /\ Running(s) /\ job.on
             => job.next # Never \/ k \in cnDue[s] \cup cnExec'[s],
           \/ cnAdding' = {}
           \/ cnAdding' = {<<s, k, job>>} /\ job.here /\ job.next # Never /\ cnState[s] # "new"
                /\ (k \in OneTime => ~Begun(k))
           \/ cnAdding' = cnAdding /\
                (k \in OneTime /\ job.here =>
                   cnMem[s][k].here /\ job.at = cnMem[s][k].at /\ cnExec' = cnExec)
    PROVE  CnIInv'
<1>1. /\ CnTypeOK /\ InOrder /\ OneAtATime /\ JobsWellFormed /\ SameTime /\ TimeHasCome
      /\ CollectedOnce /\ NotAgain /\ WriteBack /\ OneTimeRunsOnce /\ RecurringStaysScheduled
  BY DEF CnIInv
<1>2. /\ cnFile' \in [CronJobs -> CronRecord]
      /\ cnMem' \in [CronServices -> [CronJobs -> CronRecord]]
      /\ cnMem'[s][k] = job
      /\ \A t \in CronServices, j \in CronJobs :
           t # s \/ j # k => cnMem'[t][j] = cnMem[t][j]
  BY <1>1, OneJobSaved
<1>3. /\ \A j \in CronJobs \ {k} : \A c \in Copies(j)' : c \in Copies(j)
      /\ \A c \in Copies(k)' : c = job \/ c \in Copies(k)
  BY <1>1, OneJobSaved
<1>4. \A j \in CronJobs : Begun(j)' = Begun(j)
  BY DEF Begun
<1>5. CnTypeOK'
  BY <1>1, <1>2 DEF CnTypeOK
<1>6. InOrder' /\ OneTimeRunsOnce' /\ CollectedOnce'
  BY <1>1 DEF InOrder, OneTimeRunsOnce, CollectedOnce
<1>7. OneAtATime'
  BY <1>1 DEF OneAtATime
<1>8. JobsWellFormed'
  BY <1>1, <1>3 DEF JobsWellFormed, WellFormed
<1>9. SameTime' /\ TimeHasCome'
  <2>1. cnMem[s][k] \in Copies(k)
    BY DEF Copies
  <2>2. cnClock' \in Nat /\ cnClock' >= cnClock
    BY <1>1, CronAssumption DEF CnTypeOK
  <2>3. CASE k \in OneTime /\ job.here /\ ~(cnMem[s][k].here /\ job.at = cnMem[s][k].at)
    <3>1. ~Begun(k) /\ \A c \in Copies(k) : ~c.here
      BY <2>3
    <3>2. SameTime'
      <4> SUFFICES ASSUME NEW j \in OneTime, NEW c \in Copies(j)', NEW d \in Copies(j)',
                          c.here, d.here
                   PROVE  c.at = d.at
        BY DEF SameTime
      <4>1. CASE j = k
        BY <1>3, <3>1, <4>1
      <4>2. CASE j # k
        BY <1>1, <1>3, <4>2, CronAssumption DEF SameTime
      <4>3. QED
        BY <4>1, <4>2
    <3>3. TimeHasCome'
      <4> SUFFICES ASSUME NEW j \in OneTime, Begun(j)', NEW c \in Copies(j)', c.here
                   PROVE  c.at <= cnClock'
        BY DEF TimeHasCome
      <4>1. j # k /\ Begun(j) /\ c \in Copies(j)
        BY <1>3, <1>4, <3>1, CronAssumption
      <4>2. QED
        BY <1>1, <4>1 DEF TimeHasCome
    <3>4. QED
      BY <3>2, <3>3
  <2>4. CASE k \in OneTime /\ job.here => cnMem[s][k].here /\ job.at = cnMem[s][k].at
    <3>1. \A j \in OneTime : \A c \in Copies(j)' :
             c.here => \E d \in Copies(j) : d.here /\ d.at = c.at
      BY <1>3, <2>1, <2>4, CronAssumption
    <3>2. \A j \in OneTime : Begun(j)' => Begun(j)
      BY <1>4, CronAssumption
    <3>3. QED
      BY <1>1, <2>2, <3>1, <3>2, TimesKept
  <2>5. QED
    BY <2>3, <2>4
<1>10. NotAgain'
  <2> SUFFICES ASSUME NEW t \in CronServices, NEW j \in OneTime, Running(t)', Begun(j)',
                      cnMem'[t][j].on, cnMem'[t][j].next # Never
               PROVE  j \in cnDue'[t] \cup cnExec'[t]
    BY DEF NotAgain
  <2>1. Running(t) /\ Begun(j) /\ j \in CronJobs
    BY <1>4, CronAssumption DEF Running
  <2>2. CASE t = s /\ j = k
    BY <1>2, <2>1, <2>2
  <2>3. CASE t # s \/ j # k
    <3>1. j \in cnDue[t] \cup cnExec[t]
      BY <1>1, <1>2, <2>1, <2>3 DEF NotAgain
    <3>2. QED
      BY <2>3, <3>1
  <2>4. QED
    BY <2>2, <2>3
<1>11. RecurringStaysScheduled'
  <2> SUFFICES ASSUME NEW t \in CronServices, NEW j \in CronJobs \ OneTime, Running(t)',
                      cnMem'[t][j].on
               PROVE  cnMem'[t][j].next # Never \/ j \in cnDue'[t] \cup cnExec'[t]
    BY DEF RecurringStaysScheduled
  <2>1. Running(t)
    BY DEF Running
  <2>2. CASE t = s /\ j = k
    BY <1>2, <2>1, <2>2
  <2>3. CASE t # s \/ j # k
    <3>1. cnMem'[t][j] = cnMem[t][j]
      BY <1>2, <2>3
    <3>2. cnMem[t][j].next # Never \/ j \in cnDue[t] \cup cnExec[t]
      BY <1>1, <2>1, <3>1 DEF RecurringStaysScheduled
    <3>3. QED
      BY <2>3, <3>1, <3>2
  <2>4. QED
    BY <2>2, <2>3
<1>12. WriteBack'
  <2>1. CASE cnAdding' = {}
    BY <2>1 DEF WriteBack
  <2>2. CASE cnAdding' = {<<s, k, job>>} /\ job.here /\ job.next # Never /\ cnState[s] # "new"
               /\ (k \in OneTime => ~Begun(k))
    BY <1>2, <1>4, <2>2 DEF WriteBack, WellFormed
  <2>3. CASE cnAdding' = cnAdding /\
               (k \in OneTime /\ job.here =>
                   cnMem[s][k].here /\ job.at = cnMem[s][k].at /\ cnExec' = cnExec)
    <3> SUFFICES ASSUME NEW a \in cnAdding
                 PROVE  /\ WellFormed(a[2], a[3]) /\ a[3].here /\ a[3].next # Never /\ cnState'[a[1]] # "new"
                        /\ a[2] \in OneTime /\ cnMem'[a[1]][a[2]].here =>
                             /\ a[3].at = cnMem'[a[1]][a[2]].at
                             /\ Running(a[1])' /\ Begun(a[2])' => a[2] \in cnDue'[a[1]] \cup cnExec'[a[1]]
      BY <2>3 DEF WriteBack, WellFormed
    <3> DEFINE t == a[1]
               j == a[2]
    <3>1. t \in CronServices /\ j \in CronJobs
      BY <1>1 DEF CnTypeOK
    <3>2. /\ WellFormed(j, a[3]) /\ a[3].here /\ a[3].next # Never /\ cnState[t] # "new"
          /\ j \in OneTime /\ cnMem[t][j].here =>
               /\ a[3].at = cnMem[t][j].at
               /\ Running(t) /\ Begun(j) => j \in cnDue[t] \cup cnExec[t]
      BY <1>1 DEF WriteBack
    <3> HIDE DEF t, j
    <3>3. ASSUME j \in OneTime, cnMem'[t][j].here
          PROVE  /\ cnMem[t][j].here /\ cnMem'[t][j].at = cnMem[t][j].at
                 /\ j \in cnExec[t] => j \in cnExec'[t]
      BY <1>2, <2>3, <3>1, <3>3
    <3>4. Running(t)' = Running(t) /\ Begun(j)' = Begun(j)
      BY <1>4, <3>1 DEF Running
    <3>5. /\ WellFormed(j, a[3]) /\ a[3].here /\ a[3].next # Never /\ cnState'[t] # "new"
          /\ j \in OneTime /\ cnMem'[t][j].here =>
               /\ a[3].at = cnMem'[t][j].at
               /\ Running(t)' /\ Begun(j)' => j \in cnDue'[t] \cup cnExec'[t]
      BY <3>2, <3>3, <3>4
    <3>6. QED
      BY <3>5 DEF t, j
  <2>4. QED
    BY <2>1, <2>2, <2>3
<1>13. QED
  BY <1>5, <1>6, <1>7, <1>8, <1>9, <1>10, <1>11, <1>12 DEF CnIInv

(* The inductive invariant holds at first.                                    *)
LEMMA CnInitIInv == CnInit => CnIInv
<1> SUFFICES ASSUME CnInit PROVE CnIInv
  OBVIOUS
<1>1. Absent \in CronRecord /\ Absent.on = FALSE /\ Absent.here = FALSE /\ Absent.next = Never
  BY CronAssumption DEF Absent, CronRecord, Never
<1> USE DEF CnInit
<1>2. Nothing \in [CronJobs -> CronRecord] /\ \A j \in CronJobs : Nothing[j] = Absent
  BY <1>1 DEF Nothing
<1>3. CnTypeOK
  BY <1>2, CronAssumption DEF CnTypeOK
<1>4. \A j \in CronJobs : ~Begun(j) /\ \A c \in Copies(j) : c = Absent
  BY <1>2 DEF Begun, Copies
<1>5. JobsWellFormed /\ SameTime /\ TimeHasCome /\ CollectedOnce /\ NotAgain
  BY <1>1, <1>4, CronAssumption DEF JobsWellFormed, WellFormed, SameTime, TimeHasCome, CollectedOnce, NotAgain
<1>6. InOrder /\ OneAtATime /\ WriteBack /\ OneTimeRunsOnce /\ RecurringStaysScheduled
  BY CronAssumption DEF InOrder, OneAtATime, WriteBack, OneTimeRunsOnce, RecurringStaysScheduled, Running
<1>7. QED
  BY <1>3, <1>5, <1>6 DEF CnIInv

(* The next run of a job of the tick: in the future or never. *)
LEMMA NextRuns ==
    ASSUME CnTypeOK, NEW j \in CronJobs, NEW job \in CronRecord
    PROVE  /\ ComputeNextRun(j, job) \in 0..Never
           /\ j \in OneTime => ComputeNextRun(j, job) \in {Never, job.at}
           /\ j \in OneTime /\ job.at <= cnClock => ComputeNextRun(j, job) = Never
           /\ j \notin OneTime => ComputeNextRun(j, job) # Never
<1>1. job.at \in 0..Never /\ cnClock \in 0..MaxCronClock
  BY DEF CronRecord, CnTypeOK
<1>2. QED
  BY <1>1, CronAssumption DEF ComputeNextRun, Never

(* A job is added enabled and due.                                            *)
LEMMA NewJobs ==
    ASSUME CnTypeOK, NEW j \in CronJobs
    PROVE  /\ NewJob(j) \in CronRecord /\ NewJob(j).on /\ NewJob(j).here
           /\ NewJob(j).next # Never /\ WellFormed(j, NewJob(j))
<1> DEFINE job == [on |-> TRUE, at |-> cnClock + 1, next |-> Never, here |-> TRUE]
           n == ComputeNextRun(j, job)
<1>1. cnClock \in 0..MaxCronClock
  BY DEF CnTypeOK
<1>2. cnClock + 1 \in 0..Never /\ Never \in 0..Never /\ cnClock + 1 > cnClock /\ cnClock + 1 # Never
  BY <1>1, CronAssumption DEF Never
<1>3. job \in CronRecord
  BY <1>2 DEF CronRecord
<1>4. n \in 0..Never /\ n # Never /\ (j \in OneTime => n = job.at)
  BY <1>1, <1>2 DEF ComputeNextRun
<1>5. NewJob(j) = [job EXCEPT !.next = n]
  BY DEF NewJob
<1>6. job.on /\ job.here
  OBVIOUS
<1> HIDE DEF job, n
<1>7. QED
  BY <1>3, <1>4, <1>5, <1>6 DEF CronRecord, WellFormed

(* A job with an unused id has not begun and no copy of it is there. *)
LEMMA UnusedJobs ==
    ASSUME CnTypeOK, NEW j \in CronJobs, Unused(j)
    PROVE  ~Begun(j) /\ \A c \in Copies(j) : ~c.here
  BY DEF Unused, Begun, Copies

(* At most one cron service runs.                                             *)
LEMMA OneRuns ==
    ASSUME InOrder, NEW s \in CronServices, NEW t \in CronServices, Running(s), Running(t)
    PROVE  s = t
<1>1. s \in Nat /\ t \in Nat
  BY CronAssumption
<1>2. ~(s < t) /\ ~(t < s)
  BY DEF InOrder, Running
<1>3. QED
  BY <1>1, <1>2

(* Every step preserves it.                                                   *)
LEMMA CnStepIInv == CnIInv /\ [CnNext]_cnVars => CnIInv'
<1> SUFFICES ASSUME CnIInv, [CnNext]_cnVars PROVE CnIInv'
  OBVIOUS
<1>a. /\ CnTypeOK /\ InOrder /\ OneAtATime /\ JobsWellFormed /\ SameTime /\ TimeHasCome
      /\ CollectedOnce /\ NotAgain /\ WriteBack /\ OneTimeRunsOnce /\ RecurringStaysScheduled
  BY DEF CnIInv
<1>b. /\ cnClock \in 0..MaxCronClock /\ cnEdits \in 0..MaxCronEdits
      /\ cnFile \in [CronJobs -> CronRecord] /\ cnMem \in [CronServices -> [CronJobs -> CronRecord]]
      /\ cnState \in [CronServices -> {"new", "running", "stopped", "gone"}]
      /\ cnDue \in [CronServices -> SUBSET CronJobs] /\ cnExec \in [CronServices -> SUBSET CronJobs]
      /\ cnAdding \subseteq CronServices \X CronJobs \X CronRecord /\ cnRuns \in [CronJobs -> Nat]
  BY <1>a DEF CnTypeOK
<1>c. /\ CronServices \subseteq Nat /\ OneTime \subseteq CronJobs
      /\ MaxCronClock \in Nat /\ MaxCronEdits \in Nat /\ Never = MaxCronClock + 2
  BY CronAssumption DEF Never
<1>d. Absent \in CronRecord /\ Absent.on = FALSE /\ Absent.here = FALSE /\ Absent.next = Never
  BY <1>c DEF Absent, CronRecord
<1>e. \A s \in CronServices, j \in CronJobs : cnMem[s][j] \in Copies(j) /\ cnFile[j] \in Copies(j)
  BY DEF Copies
\* Edits of one job
<1>1. ASSUME NEW s \in CronServices, NEW j \in CronJobs, NEW b \in BOOLEAN, CnAdd(s, j, b) PROVE CnIInv'
  <2>1. /\ Running(s) /\ cnEdits < MaxCronEdits /\ cnEdits' = cnEdits + 1 /\ Unused(j)
        /\ Save(s, [cnMem[s] EXCEPT ![j] = NewJob(j)])
        /\ cnAdding' = IF b THEN {<<s, j, NewJob(j)>>} ELSE {}
        /\ UNCHANGED <<cnClock, cnState, cnDue, cnExec, cnRuns>>
    BY <1>1 DEF CnAdd, Edit
  <2>2. ~Begun(j) /\ \A c \in Copies(j) : ~c.here
    BY <1>a, <2>1, UnusedJobs
  <2> DEFINE job == NewJob(j)
  <2>3. job \in CronRecord /\ job.on /\ job.here /\ job.next # Never /\ WellFormed(j, job)
    BY <1>a, NewJobs
  <2>4. Save(s, [cnMem[s] EXCEPT ![j] = job]) /\ (cnAdding' = {<<s, j, job>>} \/ cnAdding' = {})
    BY <2>1
  <2> HIDE DEF job
  <2>5. cnEdits' \in 0..MaxCronEdits
    BY <1>b, <1>c, <2>1
  <2>6. cnState[s] # "new" /\ cnAdding' \subseteq CronServices \X CronJobs \X CronRecord
    BY <2>1, <2>3, <2>4 DEF Running
  <2>7. QED
    BY <1>b, <2>1, <2>2, <2>3, <2>4, <2>5, <2>6, OneJobStep
<1>2. ASSUME NEW s \in CronServices, NEW j \in CronJobs, CnRemove(s, j) PROVE CnIInv'
  <2>1. /\ cnEdits < MaxCronEdits /\ cnEdits' = cnEdits + 1
        /\ Save(s, [cnMem[s] EXCEPT ![j] = Absent])
        /\ UNCHANGED <<cnClock, cnState, cnDue, cnExec, cnAdding, cnRuns>>
    BY <1>2 DEF CnRemove, Edit
  <2>2. cnEdits' \in 0..MaxCronEdits
    BY <1>b, <1>c, <2>1
  <2>3. WellFormed(j, Absent)
    BY <1>d DEF WellFormed
  <2>4. QED
    BY <1>b, <1>d, <2>1, <2>2, <2>3, OneJobStep
<1>3. ASSUME NEW s \in CronServices, NEW j \in CronJobs, NEW b \in BOOLEAN, CnEnable(s, j, b) PROVE CnIInv'
  <2> DEFINE old == cnMem[s][j]
             n == IF b THEN ComputeNextRun(j, old) ELSE Never
             job == [old EXCEPT !.on = b, !.next = n]
  <2>1. /\ cnEdits < MaxCronEdits /\ cnEdits' = cnEdits + 1 /\ old.here
        /\ Save(s, [cnMem[s] EXCEPT ![j].on = b, ![j].next = n])
        /\ UNCHANGED <<cnClock, cnState, cnDue, cnExec, cnAdding, cnRuns>>
    BY <1>3 DEF CnEnable, Edit
  <2>2. old \in CronRecord /\ old \in Copies(j)
    BY <1>b, <1>e
  <2>3. /\ n \in 0..Never /\ (j \in OneTime => n \in {Never, old.at})
        /\ (j \in OneTime /\ old.at <= cnClock => n = Never)
        /\ (j \notin OneTime /\ b => n # Never)
    BY <1>a, <1>c, <2>2, NextRuns
  <2>4. [cnMem[s] EXCEPT ![j].on = b, ![j].next = n] = [cnMem[s] EXCEPT ![j] = job]
    BY <1>b
  <2>5. Save(s, [cnMem[s] EXCEPT ![j] = job])
    BY <2>1, <2>4
  <2> HIDE DEF n
  <2>6. job \in CronRecord /\ job.on = b /\ job.next = n /\ job.at = old.at /\ job.here = old.here
    BY <2>2, <2>3 DEF CronRecord
  <2> HIDE DEF job
  <2>7. cnEdits' \in 0..MaxCronEdits
    BY <1>b, <1>c, <2>1
  <2>8. WellFormed(j, job)
    BY <2>1, <2>3, <2>6 DEF WellFormed
  <2>9. j \in OneTime /\ Begun(j) => job.next = Never
    BY <1>a, <2>1, <2>2, <2>3, <2>6 DEF TimeHasCome
  <2>10. j \notin OneTime /\ job.on => job.next # Never
    BY <2>3, <2>6
  <2>11. cnMem[s][j].here /\ job.at = cnMem[s][j].at
    BY <2>1, <2>6
  <2> HIDE DEF old
  <2>12. QED
    BY <1>b, <2>1, <2>5, <2>6, <2>7, <2>8, <2>9, <2>10, <2>11, OneJobStep
<1>4. ASSUME NEW s \in CronServices, NEW j \in CronJobs, CnUpdate(s, j) PROVE CnIInv'
  <2>1. PICK a \in cnAdding :
          /\ a[1] = s /\ a[2] = j
          /\ IF cnMem[s][j].here THEN Save(s, [cnMem[s] EXCEPT ![j] = a[3]])
                                 ELSE UNCHANGED <<cnMem, cnFile>>
    BY <1>4 DEF CnUpdate
  <2>2. /\ cnAdding' = {}
        /\ UNCHANGED <<cnClock, cnEdits, cnState, cnDue, cnExec, cnRuns>>
    BY <1>4 DEF CnUpdate
  <2> DEFINE job == a[3]
  <2>3. /\ job \in CronRecord /\ WellFormed(j, job) /\ job.here /\ job.next # Never
        /\ j \in OneTime /\ cnMem[s][j].here =>
             /\ job.at = cnMem[s][j].at
             /\ Running(s) /\ Begun(j) => j \in cnDue[s] \cup cnExec[s]
    BY <1>a, <1>b, <2>1 DEF WriteBack
  <2> HIDE DEF job
  <2>4. CASE cnMem[s][j].here
    <3>1. Save(s, [cnMem[s] EXCEPT ![j] = job])
      BY <2>1, <2>4 DEF job
    <3>2. QED
      BY <1>b, <2>2, <2>3, <2>4, <3>1, OneJobStep
  <2>5. CASE ~cnMem[s][j].here
    <3>1. UNCHANGED <<cnMem, cnFile>>
      BY <2>1, <2>5
    <3>2. QED
      BY <1>a, <2>2, <3>1 DEF CnIInv, CnTypeOK, InOrder, OneAtATime, JobsWellFormed, SameTime,
         TimeHasCome, CollectedOnce, NotAgain, WriteBack, OneTimeRunsOnce, RecurringStaysScheduled,
         Copies, Begun, Running
  <2>6. QED
    BY <2>4, <2>5
<1>5. ASSUME NEW s \in CronServices, NEW j \in CronJobs, CnFinish(s, j) PROVE CnIInv'
  <2> DEFINE old == cnMem[s][j]
             n == ComputeNextRun(j, old)
             job == IF j \in OneTime THEN Absent ELSE [old EXCEPT !.next = n]
  <2>1. /\ j \in cnExec[s] /\ cnExec' = [cnExec EXCEPT ![s] = {}]
        /\ UNCHANGED <<cnClock, cnEdits, cnState, cnDue, cnAdding, cnRuns>>
    BY <1>5 DEF CnFinish
  <2>2. /\ cnExec' \in [CronServices -> SUBSET CronJobs]
        /\ \A t \in CronServices : cnExec'[t] \subseteq cnExec[t]
        /\ \A t \in CronServices : \A i \in cnExec[t] \ cnExec'[t] : t = s /\ i = j
    BY <1>a, <1>b, <2>1 DEF OneAtATime
  <2>3. old \in CronRecord /\ old \in Copies(j) /\ (old.on => old.here)
    BY <1>a, <1>b, <1>e DEF JobsWellFormed, WellFormed
  <2>4. n \in 0..Never /\ (j \notin OneTime => n # Never)
    BY <1>a, <2>3, NextRuns
  <2>5. CASE old.here
    <3>1. Save(s, [cnMem[s] EXCEPT ![j] = job])
      BY <1>5, <2>5 DEF CnFinish, AfterRun
    <3> HIDE DEF n
    <3>2. /\ job \in CronRecord /\ WellFormed(j, job)
          /\ j \in OneTime => ~job.on /\ ~job.here
          /\ j \notin OneTime => job.next # Never
      BY <1>d, <2>3, <2>4 DEF CronRecord, WellFormed
    <3> HIDE DEF job, old
    <3>3. QED
      BY <1>b, <2>1, <2>2, <3>1, <3>2, OneJobStep
  <2>6. CASE ~old.here
    <3>1. UNCHANGED <<cnMem, cnFile>>
      BY <1>5, <2>6 DEF CnFinish
    <3>2. /\ CnTypeOK' /\ InOrder' /\ JobsWellFormed' /\ SameTime' /\ TimeHasCome'
          /\ CollectedOnce' /\ OneTimeRunsOnce'
      BY <1>a, <2>1, <2>2, <3>1 DEF CnTypeOK, InOrder, JobsWellFormed, SameTime,
         TimeHasCome, CollectedOnce, OneTimeRunsOnce, Copies, Begun
    <3>3. OneAtATime'
      BY <1>a, <2>2 DEF OneAtATime
    <3>4. \A t \in CronServices, i \in CronJobs :
            cnMem[t][i].here /\ i \in cnExec[t] => i \in cnExec'[t]
      BY <2>2, <2>6
    <3>5. \A t \in CronServices, i \in CronJobs : cnMem[t][i].on => cnMem[t][i].here
      BY <1>a, <1>e DEF JobsWellFormed, WellFormed
    <3>6. NotAgain'
      BY <1>a, <1>c, <2>1, <3>1, <3>4, <3>5 DEF NotAgain, Running, Begun
    <3>7. RecurringStaysScheduled'
      BY <1>a, <1>c, <2>1, <3>1, <3>4, <3>5 DEF RecurringStaysScheduled, Running
    <3>8. WriteBack'
      <4> SUFFICES ASSUME NEW a \in cnAdding
                   PROVE  a[2] \in OneTime /\ cnMem[a[1]][a[2]].here =>
                            (Running(a[1]) /\ Begun(a[2]) => a[2] \in cnDue[a[1]] \cup cnExec'[a[1]])
        BY <1>a, <2>1, <3>1 DEF WriteBack, Running, Begun, WellFormed
      <4>1. a[1] \in CronServices /\ a[2] \in CronJobs
        BY <1>b
      <4>2. QED
        BY <1>a, <3>4, <4>1 DEF WriteBack
    <3>9. QED
      BY <3>2, <3>3, <3>6, <3>7, <3>8 DEF CnIInv
  <2>7. QED
    BY <2>5, <2>6
\* Steps of the loop and of the process
<1>6. ASSUME NEW s \in CronServices, CnStart(s) PROVE CnIInv'
  <2> DEFINE Job(j) == IF cnFile[j].on THEN [cnFile[j] EXCEPT !.next = ComputeNextRun(j, cnFile[j])]
                       ELSE cnFile[j]
             jobs == [j \in CronJobs |-> Job(j)]
  <2>1. /\ cnState[s] = "new" /\ \A t \in CronServices : t < s => cnState[t] \in {"stopped", "gone"}
        /\ cnState' = [cnState EXCEPT ![s] = "running"]
        /\ cnMem' = [cnMem EXCEPT ![s] = jobs] /\ cnFile' \in {jobs, cnFile}
        /\ UNCHANGED <<cnClock, cnEdits, cnDue, cnExec, cnAdding, cnRuns>>
    BY <1>6 DEF CnStart, Save
  <2>2. ASSUME NEW j \in CronJobs
        PROVE  /\ Job(j) \in CronRecord /\ WellFormed(j, Job(j)) /\ Job(j).on = cnFile[j].on
               /\ Job(j).here = cnFile[j].here /\ Job(j).at = cnFile[j].at
               /\ j \in OneTime /\ Job(j).on /\ cnFile[j].at <= cnClock => Job(j).next = Never
               /\ j \notin OneTime /\ Job(j).on => Job(j).next # Never
    <3> DEFINE old == cnFile[j]
               n == ComputeNextRun(j, old)
    <3>1. old \in CronRecord /\ WellFormed(j, old)
      BY <1>a, <1>b, <1>e DEF JobsWellFormed
    <3>2. /\ n \in 0..Never /\ (j \in OneTime => n \in {Never, old.at})
          /\ (j \in OneTime /\ old.at <= cnClock => n = Never) /\ (j \notin OneTime => n # Never)
      BY <1>a, <3>1, NextRuns
    <3>3. Job(j) = IF old.on THEN [old EXCEPT !.next = n] ELSE old
      OBVIOUS
    <3> HIDE DEF n, old, Job
    <3>4. /\ Job(j) \in CronRecord /\ WellFormed(j, Job(j)) /\ Job(j).on = old.on
          /\ Job(j).here = old.here /\ Job(j).at = old.at
          /\ j \in OneTime /\ Job(j).on /\ old.at <= cnClock => Job(j).next = Never
          /\ j \notin OneTime /\ Job(j).on => Job(j).next # Never
      BY <3>1, <3>2, <3>3 DEF CronRecord, WellFormed
    <3>5. QED
      BY <3>4 DEF old
  <2> HIDE DEF Job
  <2>3. jobs \in [CronJobs -> CronRecord] /\ \A j \in CronJobs : jobs[j] = Job(j)
    BY <2>2
  <2> HIDE DEF jobs
  <2>4. /\ cnMem' \in [CronServices -> [CronJobs -> CronRecord]] /\ cnFile' \in [CronJobs -> CronRecord]
        /\ \A j \in CronJobs : cnMem'[s][j] = Job(j)
        /\ \A t \in CronServices : t # s => cnMem'[t] = cnMem[t]
        /\ cnState' \in [CronServices -> {"new", "running", "stopped", "gone"}]
        /\ cnState'[s] = "running" /\ \A t \in CronServices : t # s => cnState'[t] = cnState[t]
    BY <1>b, <2>1, <2>3
  <2>5. CnTypeOK'
    BY <1>b, <2>1, <2>4 DEF CnTypeOK
  <2>6. ASSUME NEW j \in CronJobs, NEW c \in Copies(j)' PROVE c = Job(j) \/ c \in Copies(j)
    <3>1. CASE c = cnFile'[j]
      BY <1>e, <2>1, <2>3, <3>1
    <3>2. CASE \E t \in CronServices : c = cnMem'[t][j]
      BY <1>e, <2>4, <3>2
    <3>3. QED
      BY <2>6, <3>1, <3>2 DEF Copies
  <2>7. \A j \in CronJobs : Begun(j)' = Begun(j)
    BY <2>1 DEF Begun
  <2>8. InOrder'
    <3> SUFFICES ASSUME NEW t \in CronServices, NEW u \in CronServices, t < u, cnState'[u] # "new"
                 PROVE  cnState'[t] \in {"stopped", "gone"}
      BY DEF InOrder
    <3>1. CASE u = s
      BY <1>c, <2>1, <2>4, <3>1
    <3>2. CASE u # s
      BY <1>a, <2>1, <2>4, <3>2 DEF InOrder
    <3>3. QED
      BY <3>1, <3>2
  <2>9. JobsWellFormed'
    <3> SUFFICES ASSUME NEW j \in CronJobs, NEW c \in Copies(j)' PROVE WellFormed(j, c)
      BY DEF JobsWellFormed, WellFormed
    <3>1. QED
      BY <1>a, <2>2, <2>6 DEF JobsWellFormed
  <2>10. SameTime' /\ TimeHasCome'
    <3>1. \A j \in OneTime : \A c \in Copies(j)' :
             c.here => \E d \in Copies(j) : d.here /\ d.at = c.at
      BY <1>c, <1>e, <2>2, <2>6
    <3>2. cnClock' \in Nat /\ cnClock' >= cnClock
      BY <1>b, <1>c, <2>1
    <3>3. QED
      BY <1>a, <1>c, <2>7, <3>1, <3>2, TimesKept
  <2>11. OneAtATime' /\ CollectedOnce' /\ OneTimeRunsOnce'
    BY <1>a, <2>1 DEF OneAtATime, CollectedOnce, OneTimeRunsOnce
  <2>12. NotAgain'
    <3> SUFFICES ASSUME NEW t \in CronServices, NEW j \in OneTime, Running(t)', Begun(j)',
                        cnMem'[t][j].on, cnMem'[t][j].next # Never
                 PROVE  j \in cnDue[t] \cup cnExec[t]
      BY <2>1 DEF NotAgain
    <3>1. j \in CronJobs /\ Begun(j)
      BY <1>c, <2>7
    <3>2. CASE t = s
      <4>1. cnFile[j].on /\ cnFile[j].at > cnClock
        BY <1>b, <1>c, <2>2, <2>4, <3>1, <3>2 DEF CronRecord
      <4>2. cnFile[j].here
        BY <1>a, <1>e, <3>1, <4>1 DEF JobsWellFormed, WellFormed
      <4>3. cnFile[j].at <= cnClock /\ cnFile[j].at \in Nat /\ cnClock \in Nat
        BY <1>a, <1>b, <1>c, <1>e, <3>1, <4>2 DEF TimeHasCome, CronRecord
      <4>4. QED
        BY <4>1, <4>3
    <3>3. CASE t # s
      BY <1>a, <2>4, <3>1, <3>3 DEF NotAgain, Running
    <3>4. QED
      BY <3>2, <3>3
  <2>13. RecurringStaysScheduled'
    <3> SUFFICES ASSUME NEW t \in CronServices, NEW j \in CronJobs \ OneTime, Running(t)',
                        cnMem'[t][j].on
                 PROVE  cnMem'[t][j].next # Never \/ j \in cnDue[t] \cup cnExec[t]
      BY <2>1 DEF RecurringStaysScheduled
    <3>1. CASE t = s
      BY <2>2, <2>4, <3>1
    <3>2. CASE t # s
      BY <1>a, <2>4, <3>2 DEF RecurringStaysScheduled, Running
    <3>3. QED
      BY <3>1, <3>2
  <2>14. WriteBack'
    <3> SUFFICES ASSUME NEW a \in cnAdding
                 PROVE  /\ WellFormed(a[2], a[3]) /\ a[3].here /\ a[3].next # Never /\ cnState'[a[1]] # "new"
                        /\ a[2] \in OneTime /\ cnMem'[a[1]][a[2]].here =>
                             /\ a[3].at = cnMem'[a[1]][a[2]].at
                             /\ Running(a[1])' /\ Begun(a[2])' => a[2] \in cnDue[a[1]] \cup cnExec[a[1]]
      BY <2>1 DEF WriteBack, WellFormed
    <3>1. a[1] \in CronServices /\ a[2] \in CronJobs /\ a[1] # s
      BY <1>a, <1>b, <2>1 DEF WriteBack
    <3>2. cnState'[a[1]] = cnState[a[1]] /\ cnMem'[a[1]] = cnMem[a[1]] /\ Begun(a[2])' = Begun(a[2])
      BY <2>4, <2>7, <3>1
    <3>3. QED
      BY <1>a, <3>2 DEF WriteBack, Running
  <2>15. QED
    BY <2>5, <2>8, <2>9, <2>10, <2>11, <2>12, <2>13, <2>14 DEF CnIInv
<1>7. ASSUME NEW s \in CronServices, CnStop(s) PROVE CnIInv'
  <2>1. /\ Running(s) /\ cnState' = [cnState EXCEPT ![s] = "stopped"]
        /\ UNCHANGED <<cnClock, cnEdits, cnFile, cnMem, cnDue, cnExec, cnAdding, cnRuns>>
    BY <1>7 DEF CnStop
  <2>2. /\ cnState' \in [CronServices -> {"new", "running", "stopped", "gone"}]
        /\ \A t \in CronServices : Running(t)' => Running(t)
        /\ \A t \in CronServices : cnState'[t] = "new" <=> cnState[t] = "new"
        /\ \A t \in CronServices : cnState[t] \in {"stopped", "gone"} => cnState'[t] \in {"stopped", "gone"}
    BY <1>b, <2>1 DEF Running
  <2>3. \A j \in CronJobs : Begun(j)' = Begun(j) /\ Copies(j)' = Copies(j)
    BY <2>1 DEF Begun, Copies
  <2>4. CnTypeOK' /\ OneAtATime' /\ CollectedOnce' /\ OneTimeRunsOnce'
    BY <1>a, <2>1, <2>2 DEF CnTypeOK, OneAtATime, CollectedOnce, OneTimeRunsOnce
  <2>5. JobsWellFormed' /\ SameTime' /\ TimeHasCome'
    BY <1>a, <1>c, <2>1, <2>3 DEF JobsWellFormed, SameTime, TimeHasCome, WellFormed
  <2>6. InOrder'
    BY <1>a, <2>2 DEF InOrder
  <2>7. NotAgain'
    BY <1>a, <1>c, <2>1, <2>2, <2>3 DEF NotAgain
  <2>8. RecurringStaysScheduled'
    BY <1>a, <2>1, <2>2 DEF RecurringStaysScheduled
  <2>9. WriteBack'
    <3> SUFFICES ASSUME NEW a \in cnAdding
                 PROVE  /\ cnState'[a[1]] # "new" /\ (Running(a[1])' => Running(a[1]))
                        /\ Begun(a[2])' = Begun(a[2])
      BY <1>a, <2>1 DEF WriteBack, WellFormed
    <3>1. a[1] \in CronServices /\ a[2] \in CronJobs
      BY <1>b
    <3>2. QED
      BY <1>a, <2>2, <2>3, <3>1 DEF WriteBack
  <2>10. QED
    BY <2>4, <2>5, <2>6, <2>7, <2>8, <2>9 DEF CnIInv
<1>8. ASSUME NEW s \in CronServices, CnCheckJobs(s) PROVE CnIInv'
  <2> DEFINE Job(j) == IF j \in DueJobs(s) THEN [cnMem[s][j] EXCEPT !.next = Never] ELSE cnMem[s][j]
             jobs == [j \in CronJobs |-> Job(j)]
  <2>1. /\ Running(s) /\ cnDue[s] = {} /\ cnExec[s] = {}
        /\ cnDue' = [cnDue EXCEPT ![s] = DueJobs(s)]
        /\ cnMem' = [cnMem EXCEPT ![s] = jobs] /\ cnFile' \in {jobs, cnFile}
        /\ UNCHANGED <<cnClock, cnEdits, cnState, cnExec, cnAdding, cnRuns>>
    BY <1>8 DEF CnCheckJobs, Save
  <2>2. /\ DueJobs(s) \subseteq CronJobs
        /\ \A j \in CronJobs : j \in DueJobs(s) <=> cnMem[s][j].on /\ cnMem[s][j].next <= cnClock
    BY DEF DueJobs
  <2>3. ASSUME NEW j \in CronJobs
        PROVE  /\ Job(j) \in CronRecord /\ WellFormed(j, Job(j)) /\ Job(j).on = cnMem[s][j].on
               /\ Job(j).here = cnMem[s][j].here /\ Job(j).at = cnMem[s][j].at
               /\ Job(j).next # Never => j \notin DueJobs(s) /\ Job(j) = cnMem[s][j]
               /\ j \notin DueJobs(s) => Job(j) = cnMem[s][j]
    <3> DEFINE old == cnMem[s][j]
    <3>1. old \in CronRecord /\ WellFormed(j, old)
      BY <1>a, <1>b, <1>e DEF JobsWellFormed
    <3>2. Job(j) = (IF j \in DueJobs(s) THEN [old EXCEPT !.next = Never] ELSE old) /\ Never \in 0..Never
      BY <1>c
    <3> HIDE DEF old, Job
    <3>3. /\ Job(j) \in CronRecord /\ WellFormed(j, Job(j)) /\ Job(j).on = old.on
          /\ Job(j).here = old.here /\ Job(j).at = old.at
          /\ Job(j).next # Never => j \notin DueJobs(s) /\ Job(j) = old
          /\ j \notin DueJobs(s) => Job(j) = old
      BY <3>1, <3>2 DEF CronRecord, WellFormed
    <3>4. QED
      BY <3>3 DEF old
  <2> HIDE DEF Job
  <2>4. jobs \in [CronJobs -> CronRecord] /\ \A j \in CronJobs : jobs[j] = Job(j)
    BY <2>3
  <2> HIDE DEF jobs
  <2>5. /\ cnMem' \in [CronServices -> [CronJobs -> CronRecord]] /\ cnFile' \in [CronJobs -> CronRecord]
        /\ \A j \in CronJobs : cnMem'[s][j] = Job(j)
        /\ \A t \in CronServices : t # s => cnMem'[t] = cnMem[t]
        /\ cnDue' \in [CronServices -> SUBSET CronJobs]
        /\ cnDue'[s] = DueJobs(s) /\ \A t \in CronServices : t # s => cnDue'[t] = cnDue[t]
    BY <1>b, <2>1, <2>2, <2>4
  <2>6. CnTypeOK'
    BY <1>b, <2>1, <2>5 DEF CnTypeOK
  <2>7. ASSUME NEW j \in CronJobs, NEW c \in Copies(j)' PROVE c = Job(j) \/ c \in Copies(j)
    <3>1. CASE c = cnFile'[j]
      BY <1>e, <2>1, <2>4, <3>1
    <3>2. CASE \E t \in CronServices : c = cnMem'[t][j]
      BY <1>e, <2>5, <3>2
    <3>3. QED
      BY <2>7, <3>1, <3>2 DEF Copies
  <2>8. ASSUME NEW j \in CronJobs PROVE Begun(j)' <=> Begun(j) \/ j \in DueJobs(s)
    BY <2>1, <2>5 DEF Begun
  <2>9. ASSUME NEW j \in OneTime, j \in DueJobs(s)
        PROVE  ~Begun(j) /\ cnMem[s][j].here /\ cnMem[s][j].at <= cnClock
    <3>1. cnMem[s][j].on /\ cnMem[s][j].next <= cnClock /\ cnMem[s][j] \in Copies(j) /\ j \in CronJobs
      BY <1>c, <1>e, <2>2, <2>9
    <3>2. cnMem[s][j].here /\ cnMem[s][j].next \in {Never, cnMem[s][j].at}
      BY <1>a, <3>1 DEF JobsWellFormed, WellFormed
    <3>3. cnMem[s][j].next # Never
      BY <1>b, <1>c, <3>1
    <3>4. ~Begun(j)
      BY <1>a, <2>1, <3>1, <3>3 DEF NotAgain
    <3>5. QED
      BY <3>1, <3>2, <3>3, <3>4
  <2>10. InOrder' /\ OneAtATime' /\ OneTimeRunsOnce'
    BY <1>a, <2>1 DEF InOrder, OneAtATime, OneTimeRunsOnce
  <2>11. JobsWellFormed'
    <3> SUFFICES ASSUME NEW j \in CronJobs, NEW c \in Copies(j)' PROVE WellFormed(j, c)
      BY DEF JobsWellFormed, WellFormed
    <3>1. QED
      BY <1>a, <2>3, <2>7 DEF JobsWellFormed
  <2>12. \A j \in OneTime : \A c \in Copies(j)' :
            c.here => \E d \in Copies(j) : d.here /\ d.at = c.at
    BY <1>c, <1>e, <2>3, <2>7
  <2>13. SameTime'
    BY <1>a, <2>12 DEF SameTime
  <2>14. TimeHasCome'
    <3> SUFFICES ASSUME NEW j \in OneTime, Begun(j)', NEW c \in Copies(j)', c.here
                 PROVE  c.at <= cnClock
      BY <2>1 DEF TimeHasCome
    <3>1. PICK d \in Copies(j) : d.here /\ d.at = c.at
      BY <2>12
    <3>2. CASE Begun(j)
      BY <1>a, <3>1, <3>2 DEF TimeHasCome
    <3>3. CASE j \in DueJobs(s)
      BY <1>a, <1>c, <1>e, <2>9, <3>1, <3>3 DEF SameTime
    <3>4. QED
      BY <1>c, <2>8, <3>2, <3>3
  <2>15. CollectedOnce'
    <3> SUFFICES ASSUME NEW j \in OneTime, NEW t \in CronServices, j \in cnDue'[t]
                 PROVE  cnRuns[j] = 0 /\ \A u \in CronServices : j \in cnDue'[u] => u = t
      BY <2>1 DEF CollectedOnce
    <3>1. CASE j \in DueJobs(s)
      <4>1. cnRuns[j] = 0 /\ \A u \in CronServices : j \notin cnDue[u]
        BY <2>9, <3>1 DEF Begun
      <4>2. QED
        BY <2>5, <4>1
    <3>2. CASE j \notin DueJobs(s)
      BY <1>a, <2>5, <3>2 DEF CollectedOnce
    <3>3. QED
      BY <3>1, <3>2
  <2>16. NotAgain'
    <3> SUFFICES ASSUME NEW t \in CronServices, NEW j \in OneTime, Running(t)', Begun(j)',
                        cnMem'[t][j].on, cnMem'[t][j].next # Never
                 PROVE  j \in cnDue'[t] \cup cnExec'[t]
      BY DEF NotAgain
    <3>1. t = s /\ j \in CronJobs
      BY <1>a, <1>c, <2>1, OneRuns DEF Running
    <3>2. j \notin DueJobs(s) /\ cnMem[s][j].on /\ cnMem[s][j].next # Never
      BY <2>3, <2>5, <3>1
    <3>3. Begun(j)
      BY <2>8, <3>1, <3>2
    <3>4. QED
      BY <1>a, <2>1, <3>2, <3>3 DEF NotAgain
  <2>17. RecurringStaysScheduled'
    <3> SUFFICES ASSUME NEW t \in CronServices, NEW j \in CronJobs \ OneTime, Running(t)',
                        cnMem'[t][j].on
                 PROVE  cnMem'[t][j].next # Never \/ j \in cnDue'[t] \cup cnExec'[t]
      BY DEF RecurringStaysScheduled
    <3>1. t = s
      BY <1>a, <2>1, OneRuns DEF Running
    <3>2. CASE j \in DueJobs(s)
      BY <2>5, <3>1, <3>2
    <3>3. CASE j \notin DueJobs(s)
      BY <1>a, <2>1, <2>3, <2>5, <3>1, <3>3 DEF RecurringStaysScheduled
    <3>4. QED
      BY <3>2, <3>3
  <2>18. WriteBack'
    <3> SUFFICES ASSUME NEW a \in cnAdding
                 PROVE  /\ WellFormed(a[2], a[3]) /\ a[3].here /\ a[3].next # Never /\ cnState[a[1]] # "new"
                        /\ a[2] \in OneTime /\ cnMem'[a[1]][a[2]].here =>
                             /\ a[3].at = cnMem'[a[1]][a[2]].at
                             /\ Running(a[1]) /\ Begun(a[2])' => a[2] \in cnDue'[a[1]] \cup cnExec[a[1]]
      BY <2>1 DEF WriteBack, WellFormed, Running
    <3>1. a[1] \in CronServices /\ a[2] \in CronJobs
      BY <1>b
    <3>2. cnMem'[a[1]][a[2]].here = cnMem[a[1]][a[2]].here /\ cnMem'[a[1]][a[2]].at = cnMem[a[1]][a[2]].at
      BY <2>3, <2>5, <3>1
    <3>3. ASSUME a[2] \in OneTime, cnMem[a[1]][a[2]].here, Running(a[1]), Begun(a[2])'
          PROVE  a[2] \in cnDue'[a[1]] \cup cnExec[a[1]]
      <4>1. a[1] = s
        BY <1>a, <2>1, <3>1, <3>3, OneRuns
      <4>2. CASE a[2] \in DueJobs(s)
        BY <2>5, <4>1, <4>2
      <4>3. CASE a[2] \notin DueJobs(s)
        BY <1>a, <2>1, <2>8, <3>1, <3>3, <4>1, <4>3 DEF WriteBack
      <4>4. QED
        BY <4>2, <4>3
    <3>4. QED
      BY <1>a, <3>2, <3>3 DEF WriteBack
  <2>19. QED
    BY <2>6, <2>10, <2>11, <2>13, <2>14, <2>15, <2>16, <2>17, <2>18 DEF CnIInv
<1>9. ASSUME NEW s \in CronServices, NEW k \in CronJobs, CnExecute(s, k) PROVE CnIInv'
  <2>1. /\ k \in cnDue[s] /\ cnExec[s] = {} /\ cnDue' = [cnDue EXCEPT ![s] = @ \ {k}]
        /\ IF cnMem[s][k].here THEN /\ cnExec' = [cnExec EXCEPT ![s] = {k}]
                                    /\ cnRuns' = [cnRuns EXCEPT ![k] = @ + 1]
                               ELSE UNCHANGED <<cnExec, cnRuns>>
        /\ UNCHANGED <<cnClock, cnEdits, cnFile, cnMem, cnState, cnAdding>>
    BY <1>9 DEF CnExecute
  <2>2. /\ cnDue' \in [CronServices -> SUBSET CronJobs] /\ cnExec' \in [CronServices -> SUBSET CronJobs]
        /\ \A t \in CronServices, j \in CronJobs :
             /\ j \in cnDue'[t] <=> j \in cnDue[t] /\ (t # s \/ j # k)
             /\ j \in cnExec[t] => j \in cnExec'[t]
             /\ j \in cnDue[t] \cup cnExec[t] /\ cnMem[t][j].here => j \in cnDue'[t] \cup cnExec'[t]
        /\ \A t \in CronServices : cnExec'[t] = cnExec[t] \/ (t = s /\ cnExec'[t] = {k})
    BY <1>b, <2>1
  <2>3. /\ cnRuns' \in [CronJobs -> Nat] /\ (cnMem[s][k].here => cnRuns'[k] = cnRuns[k] + 1)
        /\ (~cnMem[s][k].here => cnRuns'[k] = cnRuns[k])
        /\ \A j \in CronJobs : j # k => cnRuns'[j] = cnRuns[j]
    BY <1>b, <2>1
  <2>4. \A j \in CronJobs : Copies(j)' = Copies(j) /\ (Begun(j)' => Begun(j))
    <3> SUFFICES ASSUME NEW j \in CronJobs PROVE Copies(j)' = Copies(j) /\ (Begun(j)' => Begun(j))
      OBVIOUS
    <3>1. Copies(j)' = Copies(j)
      BY <2>1 DEF Copies
    <3>2. CASE j = k
      BY <2>1, <3>1, <3>2 DEF Begun
    <3>3. CASE j # k
      BY <2>2, <2>3, <3>1, <3>3 DEF Begun
    <3>4. QED
      BY <3>2, <3>3
  <2>5. CnTypeOK'
    BY <1>b, <2>1, <2>2, <2>3 DEF CnTypeOK
  <2>6. InOrder' /\ JobsWellFormed' /\ SameTime' /\ TimeHasCome'
    BY <1>a, <1>c, <2>1, <2>4 DEF InOrder, JobsWellFormed, WellFormed, SameTime, TimeHasCome
  <2>7. OneAtATime'
    BY <1>a, <2>2 DEF OneAtATime
  <2>8. CollectedOnce'
    <3> SUFFICES ASSUME NEW j \in OneTime, NEW t \in CronServices, j \in cnDue'[t]
                 PROVE  cnRuns'[j] = 0 /\ \A u \in CronServices : j \in cnDue'[u] => u = t
      BY DEF CollectedOnce
    <3>1. j \in CronJobs /\ j \in cnDue[t] /\ (t # s \/ j # k)
      BY <1>c, <2>2
    <3>2. cnRuns[j] = 0 /\ \A u \in CronServices : j \in cnDue[u] => u = t
      BY <1>a, <3>1 DEF CollectedOnce
    <3>3. j # k
      BY <2>1, <3>1, <3>2
    <3>4. QED
      BY <2>2, <2>3, <3>1, <3>2, <3>3
  <2>9. OneTimeRunsOnce'
    <3> SUFFICES ASSUME NEW j \in OneTime PROVE cnRuns'[j] <= 1
      BY DEF OneTimeRunsOnce
    <3>1. CASE j = k
      BY <1>a, <2>1, <2>3, <3>1 DEF CollectedOnce
    <3>2. CASE j # k
      BY <1>a, <1>c, <2>3, <3>2 DEF OneTimeRunsOnce
    <3>3. QED
      BY <3>1, <3>2
  <2>10. \A t \in CronServices, j \in CronJobs : cnMem[t][j].on => cnMem[t][j].here
    BY <1>a, <1>e DEF JobsWellFormed, WellFormed
  <2>11. NotAgain'
    <3> SUFFICES ASSUME NEW t \in CronServices, NEW j \in OneTime, Running(t), Begun(j)',
                        cnMem[t][j].on, cnMem[t][j].next # Never
                 PROVE  j \in cnDue'[t] \cup cnExec'[t]
      BY <2>1 DEF NotAgain, Running
    <3>1. j \in CronJobs /\ j \in cnDue[t] \cup cnExec[t]
      BY <1>a, <1>c, <2>4 DEF NotAgain
    <3>2. QED
      BY <2>2, <2>10, <3>1
  <2>12. RecurringStaysScheduled'
    <3> SUFFICES ASSUME NEW t \in CronServices, NEW j \in CronJobs \ OneTime, Running(t),
                        cnMem[t][j].on
                 PROVE  cnMem[t][j].next # Never \/ j \in cnDue'[t] \cup cnExec'[t]
      BY <2>1 DEF RecurringStaysScheduled, Running
    <3>1. QED
      BY <1>a, <2>2, <2>10 DEF RecurringStaysScheduled
  <2>13. WriteBack'
    <3> SUFFICES ASSUME NEW a \in cnAdding
                 PROVE  /\ WellFormed(a[2], a[3]) /\ a[3].here /\ a[3].next # Never /\ cnState[a[1]] # "new"
                        /\ a[2] \in OneTime /\ cnMem[a[1]][a[2]].here =>
                             /\ a[3].at = cnMem[a[1]][a[2]].at
                             /\ Running(a[1]) /\ Begun(a[2])' => a[2] \in cnDue'[a[1]] \cup cnExec'[a[1]]
      BY <2>1 DEF WriteBack, WellFormed, Running
    <3>1. a[1] \in CronServices /\ a[2] \in CronJobs
      BY <1>b
    <3>2. QED
      BY <1>a, <2>2, <2>4, <3>1 DEF WriteBack
  <2>14. QED
    BY <2>5, <2>6, <2>7, <2>8, <2>9, <2>11, <2>12, <2>13 DEF CnIInv
<1>10. ASSUME NEW k \in CronJobs, CnCommandLine(k) PROVE CnIInv'
  <2> DEFINE job == NewJob(k)
  <2>1. /\ cnEdits < MaxCronEdits /\ cnEdits' = cnEdits + 1 /\ Unused(k)
        /\ cnFile' = [cnFile EXCEPT ![k] = job]
        /\ UNCHANGED <<cnClock, cnMem, cnState, cnDue, cnExec, cnAdding, cnRuns>>
    BY <1>10 DEF CnCommandLine
  <2>2. ~Begun(k) /\ \A c \in Copies(k) : ~c.here
    BY <1>a, <2>1, UnusedJobs
  <2>3. job \in CronRecord /\ WellFormed(k, job)
    BY <1>a, NewJobs
  <2> HIDE DEF job
  <2>4. CnTypeOK'
    BY <1>b, <1>c, <2>1, <2>3 DEF CnTypeOK
  <2>5. /\ \A j \in CronJobs \ {k} : \A c \in Copies(j)' : c \in Copies(j)
        /\ \A c \in Copies(k)' : c = job \/ c \in Copies(k)
    BY <1>b, <2>1 DEF Copies
  <2>6. \A j \in CronJobs : Begun(j)' = Begun(j)
    BY <2>1 DEF Begun
  <2>7. InOrder' /\ OneAtATime' /\ CollectedOnce' /\ OneTimeRunsOnce' /\ RecurringStaysScheduled'
    BY <1>a, <2>1 DEF InOrder, OneAtATime, CollectedOnce, OneTimeRunsOnce, RecurringStaysScheduled, Running
  <2>8. JobsWellFormed'
    BY <1>a, <2>3, <2>5 DEF JobsWellFormed, WellFormed
  <2>9. SameTime'
    <3> SUFFICES ASSUME NEW j \in OneTime, NEW c \in Copies(j)', NEW d \in Copies(j)', c.here, d.here
                 PROVE  c.at = d.at
      BY DEF SameTime
    <3>1. CASE j = k
      BY <2>2, <2>5, <3>1
    <3>2. CASE j # k
      BY <1>a, <1>c, <2>5, <3>2 DEF SameTime
    <3>3. QED
      BY <3>1, <3>2
  <2>10. TimeHasCome'
    <3> SUFFICES ASSUME NEW j \in OneTime, Begun(j)', NEW c \in Copies(j)', c.here
                 PROVE  c.at <= cnClock
      BY <2>1 DEF TimeHasCome
    <3>1. j # k /\ Begun(j) /\ c \in Copies(j)
      BY <1>c, <2>2, <2>5, <2>6
    <3>2. QED
      BY <1>a, <3>1 DEF TimeHasCome
  <2>11. NotAgain'
    BY <1>a, <1>c, <2>1, <2>6 DEF NotAgain, Running
  <2>12. WriteBack'
    <3> SUFFICES ASSUME NEW a \in cnAdding PROVE Begun(a[2])' = Begun(a[2])
      BY <1>a, <2>1 DEF WriteBack, WellFormed, Running
    <3>1. QED
      BY <1>b, <2>6
  <2>13. QED
    BY <2>4, <2>7, <2>8, <2>9, <2>10, <2>11, <2>12 DEF CnIInv
<1>11. ASSUME CnCrash PROVE CnIInv'
  <2>1. /\ cnState' = [s \in CronServices |-> IF cnState[s] = "new" THEN "new" ELSE "gone"]
        /\ cnDue' = [s \in CronServices |-> {}] /\ cnExec' = [s \in CronServices |-> {}]
        /\ cnAdding' = {}
        /\ UNCHANGED <<cnClock, cnEdits, cnFile, cnMem, cnRuns>>
    BY <1>11 DEF CnCrash
  <2>2. \A s \in CronServices : ~Running(s)'
    BY <2>1 DEF Running
  <2>3. \A j \in CronJobs : Copies(j)' = Copies(j) /\ (Begun(j)' => Begun(j))
    BY <2>1 DEF Copies, Begun
  <2>4. CnTypeOK'
    BY <1>b, <2>1 DEF CnTypeOK
  <2>5. InOrder'
    BY <1>a, <2>1 DEF InOrder
  <2>6. JobsWellFormed' /\ SameTime' /\ TimeHasCome'
    BY <1>a, <1>c, <2>1, <2>3 DEF JobsWellFormed, WellFormed, SameTime, TimeHasCome
  <2>7. OneAtATime' /\ CollectedOnce' /\ OneTimeRunsOnce' /\ WriteBack'
    BY <1>a, <2>1 DEF OneAtATime, CollectedOnce, OneTimeRunsOnce, WriteBack
  <2>8. NotAgain' /\ RecurringStaysScheduled'
    BY <2>2 DEF NotAgain, RecurringStaysScheduled
  <2>9. QED
    BY <2>4, <2>5, <2>6, <2>7, <2>8 DEF CnIInv
<1>12. ASSUME CnTick PROVE CnIInv'
  <2>1. /\ cnClock < MaxCronClock /\ cnClock' = cnClock + 1
        /\ UNCHANGED <<cnEdits, cnFile, cnMem, cnState, cnDue, cnExec, cnAdding, cnRuns>>
    BY <1>12 DEF CnTick
  <2>2. cnClock' \in 0..MaxCronClock /\ cnClock' \in Nat /\ cnClock' >= cnClock
    BY <1>b, <1>c, <2>1
  <2>3. \A j \in CronJobs : Copies(j)' = Copies(j) /\ Begun(j)' = Begun(j)
    BY <2>1 DEF Copies, Begun
  <2>4. CnTypeOK'
    BY <1>b, <2>1, <2>2 DEF CnTypeOK
  <2>5. SameTime' /\ TimeHasCome'
    BY <1>a, <1>c, <2>2, <2>3, TimesKept
  <2>6. /\ InOrder' /\ OneAtATime' /\ JobsWellFormed' /\ CollectedOnce' /\ NotAgain' /\ WriteBack'
        /\ OneTimeRunsOnce' /\ RecurringStaysScheduled'
    BY <1>a, <2>1 DEF InOrder, OneAtATime, JobsWellFormed, WellFormed, CollectedOnce, NotAgain,
       WriteBack, OneTimeRunsOnce, RecurringStaysScheduled, Copies, Begun, Running
  <2>7. QED
    BY <2>4, <2>5, <2>6 DEF CnIInv
<1>13. CASE UNCHANGED cnVars
  BY <1>a, <1>13 DEF cnVars, CnIInv, CnTypeOK, InOrder, OneAtATime, JobsWellFormed, WellFormed, SameTime,
     TimeHasCome, CollectedOnce, NotAgain, WriteBack, OneTimeRunsOnce, RecurringStaysScheduled,
     Copies, Begun, Running
<1>14. QED
  BY <1>1, <1>2, <1>3, <1>4, <1>5, <1>6, <1>7, <1>8, <1>9, <1>10, <1>11, <1>12, <1>13 DEF CnNext

(* However services stop, crash and start, and saves fail: a one-time job is  *)
(* executed at most once, and an enabled recurring job stays scheduled.       *)
THEOREM CronCorrect == CnSpec => []CnInv
<1>1. CnIInv => CnInv
  BY DEF CnIInv, CnInv
<1>2. QED
  BY <1>1, CnInitIInv, CnStepIInv, PTL DEF CnSpec

(***************************************************************************)
(* The media store.  A download has one entry in all stores, and none once *)
(* its file is doomed; so an entry that is left has its file.              *)
(***************************************************************************)
MsStores == 1..MaxStores

(* What has an entry or is doomed was stored. *)
EntriesStored ==
  /\ \A s \in MsStores : \A e \in msRefs[s] : e.path \in Downloads => e.path \in msStored
  /\ \A f \in Downloads : f \in msDoomed => f \in msStored

(* A download has one entry at most, whatever stores there are. *)
OneEntry ==
  \A s, t \in MsStores : \A e \in msRefs[s], d \in msRefs[t] :
    e.path \in Downloads /\ e.path = d.path => s = t /\ e = d

(* A doomed download has no entry. *)
DoomedHasNone == \A s \in MsStores : \A e \in msRefs[s] : e.path \in Downloads => e.path \notin msDoomed

MsIInv == MsTypeOK /\ ResolvedExists /\ EntriesStored /\ OneEntry /\ DoomedHasNone

(* Every step preserves it.                                                   *)
LEMMA MsStepIInv == MsIInv /\ [MsNext]_msVars => MsIInv'
<1> SUFFICES ASSUME MsIInv, [MsNext]_msVars PROVE MsIInv'
  OBVIOUS
<1>a. MsTypeOK /\ ResolvedExists /\ EntriesStored /\ OneEntry /\ DoomedHasNone
  BY DEF MsIInv
<1>b. /\ msRefs \in [MsStores -> SUBSET Entry] /\ msNew \in MsStores
      /\ msCleaning \subseteq MsStores /\ msDoomed \subseteq MediaFiles
      /\ msDisk \subseteq MediaFiles /\ msStored \subseteq MediaFiles /\ msLast \in 0..MaxRefs
      /\ MaxRefs \in Nat /\ MaxStores \in Nat
  BY <1>a, MediaAssumption DEF MsTypeOK, MsStores
<1>1. ASSUME NEW s \in MsStores, NEW f \in MediaFiles, MsStore(s, f) PROVE MsIInv'
  <2> DEFINE new == [ref |-> msLast + 1, path |-> f, old |-> FALSE]
  <2>1. /\ msLast < MaxRefs /\ msLast' = msLast + 1 /\ (f \in Downloads => f \notin msStored)
        /\ msDisk' = msDisk \cup {f} /\ msStored' = msStored \cup {f}
        /\ msRefs' = [msRefs EXCEPT ![s] = @ \cup {new}]
        /\ UNCHANGED <<msNew, msCleaning, msDoomed>>
    BY <1>1 DEF MsStore
  <2>2. msLast' \in 0..MaxRefs /\ msLast + 1 \in 1..MaxRefs
    BY <1>b, <2>1
  <2>3. new \in Entry /\ new.path = f
    BY <2>2 DEF Entry
  <2> HIDE DEF new
  <2>4. /\ msRefs' \in [MsStores -> SUBSET Entry] /\ msRefs'[s] = msRefs[s] \cup {new}
        /\ \A t \in MsStores : t # s => msRefs'[t] = msRefs[t]
    BY <1>b, <2>1, <2>3
  <2>5. \A t \in MsStores : \A e \in msRefs'[t] : e \in msRefs[t] \/ (t = s /\ e = new)
    BY <2>4
  <2>6. \A t \in MsStores : \A e \in msRefs[t] : f \in Downloads => e.path # f
    BY <1>a, <2>1 DEF EntriesStored
  <2>7. MsTypeOK'
    BY <1>b, <2>1, <2>2, <2>4 DEF MsTypeOK, MsStores
  <2>8. ResolvedExists' /\ EntriesStored'
    BY <1>a, <2>1, <2>3, <2>5 DEF ResolvedExists, EntriesStored, MsStores
  <2>9. OneEntry'
    <3> SUFFICES ASSUME NEW t \in MsStores, NEW u \in MsStores, NEW e \in msRefs'[t], NEW d \in msRefs'[u],
                        e.path \in Downloads, e.path = d.path
                 PROVE  t = u /\ e = d
      BY DEF OneEntry
    <3>1. CASE f = e.path
      BY <2>5, <2>6, <3>1
    <3>2. CASE f # e.path
      BY <1>a, <2>3, <2>5, <3>2 DEF OneEntry
    <3>3. QED
      BY <3>1, <3>2
  <2>10. DoomedHasNone'
    BY <1>a, <2>1, <2>3, <2>5 DEF DoomedHasNone, EntriesStored
  <2>11. QED
    BY <2>7, <2>8, <2>9, <2>10 DEF MsIInv
<1>2. ASSUME NEW s \in MsStores, MsAge(s) PROVE MsIInv'
  <2>1. PICK o \in msRefs[s] : msRefs' = [msRefs EXCEPT ![s] = (@ \ {o}) \cup {[o EXCEPT !.old = TRUE]}]
    BY <1>2 DEF MsAge
  <2>2. UNCHANGED <<msNew, msCleaning, msDoomed, msDisk, msStored, msLast>>
    BY <1>2 DEF MsAge
  <2> DEFINE new == [o EXCEPT !.old = TRUE]
  <2>a. o \in Entry
    BY <1>b
  <2>3. o \in Entry /\ new \in Entry /\ new.path = o.path
    BY <2>a DEF Entry
  <2>4. msRefs' = [msRefs EXCEPT ![s] = (msRefs[s] \ {o}) \cup {new}]
    BY <2>1
  <2> HIDE DEF new
  <2>5. /\ msRefs' \in [MsStores -> SUBSET Entry] /\ msRefs'[s] = (msRefs[s] \ {o}) \cup {new}
        /\ \A t \in MsStores : t # s => msRefs'[t] = msRefs[t]
    BY <1>b, <2>3, <2>4
  <2>6. \A t \in MsStores : \A e \in msRefs'[t] : (e \in msRefs[t] /\ (t # s \/ e # o)) \/ (t = s /\ e = new)
    BY <2>5
  <2>7. \A t \in MsStores : \A e \in msRefs'[t] : \E d \in msRefs[t] : d.path = e.path
    BY <2>3, <2>6
  <2>8. MsTypeOK'
    BY <1>b, <2>2, <2>5 DEF MsTypeOK, MsStores
  <2>9. ResolvedExists' /\ EntriesStored' /\ DoomedHasNone'
    BY <1>a, <2>2, <2>7 DEF ResolvedExists, EntriesStored, DoomedHasNone, MsStores
  <2>10. OneEntry'
    <3> SUFFICES ASSUME NEW t \in MsStores, NEW u \in MsStores, NEW e \in msRefs'[t], NEW d \in msRefs'[u],
                        e.path \in Downloads, e.path = d.path
                 PROVE  t = u /\ e = d
      BY DEF OneEntry
    <3>1. CASE (t = s /\ e = new) /\ ~(u = s /\ d = new)
      <4>1. d \in msRefs[u] /\ (u # s \/ d # o) /\ d.path = o.path
        BY <2>3, <2>6, <3>1
      <4>2. u = s /\ d = o
        BY <1>a, <2>3, <3>1, <4>1 DEF OneEntry
      <4>3. QED
        BY <4>1, <4>2
    <3>2. CASE ~(t = s /\ e = new) /\ (u = s /\ d = new)
      <4>1. e \in msRefs[t] /\ (t # s \/ e # o) /\ e.path = o.path
        BY <2>3, <2>6, <3>2
      <4>2. t = s /\ e = o
        BY <1>a, <2>3, <3>2, <4>1 DEF OneEntry
      <4>3. QED
        BY <4>1, <4>2
    <3>3. CASE ~(t = s /\ e = new) /\ ~(u = s /\ d = new)
      BY <1>a, <2>6, <3>3 DEF OneEntry
    <3>4. QED
      BY <3>1, <3>2, <3>3
  <2>11. QED
    BY <2>8, <2>9, <2>10 DEF MsIInv
<1>3. ASSUME NEW s \in MsStores, MsCollect(s) PROVE MsIInv'
  <2>1. /\ msRefs' = [msRefs EXCEPT ![s] = @ \ Expired(s)]
        /\ msDoomed' = msDoomed \cup {e.path : e \in Expired(s)}
        /\ UNCHANGED <<msNew, msCleaning, msDisk, msStored, msLast>>
    BY <1>3 DEF MsCollect
  <2>2. Expired(s) \subseteq msRefs[s] /\ Expired(s) \subseteq Entry
    BY <1>b DEF Expired
  <2>3. /\ msRefs' \in [MsStores -> SUBSET Entry] /\ msRefs'[s] = msRefs[s] \ Expired(s)
        /\ \A t \in MsStores : t # s => msRefs'[t] = msRefs[t]
    BY <1>b, <2>1
  <2>4. \A t \in MsStores : \A e \in msRefs'[t] : e \in msRefs[t] /\ (t # s \/ e \notin Expired(s))
    BY <2>3
  <2>5. msDoomed' \subseteq MediaFiles
    BY <1>b, <2>1, <2>2 DEF Entry
  <2>6. MsTypeOK'
    BY <1>b, <2>1, <2>3, <2>5 DEF MsTypeOK, MsStores
  <2>7. ResolvedExists' /\ OneEntry'
    BY <1>a, <2>1, <2>4 DEF ResolvedExists, OneEntry, MsStores
  <2>8. EntriesStored'
    BY <1>a, <2>1, <2>2, <2>4 DEF EntriesStored
  <2>9. DoomedHasNone'
    <3> SUFFICES ASSUME NEW t \in MsStores, NEW e \in msRefs'[t], e.path \in Downloads, e.path \in msDoomed'
                 PROVE  FALSE
      BY DEF DoomedHasNone
    <3>1. PICK d \in Expired(s) : d.path = e.path
      BY <1>a, <2>1, <2>4 DEF DoomedHasNone
    <3>2. t = s /\ e = d
      BY <1>a, <2>2, <2>4, <3>1 DEF OneEntry
    <3>3. QED
      BY <2>4, <3>2
  <2>10. QED
    BY <2>6, <2>7, <2>8, <2>9 DEF MsIInv
<1>4. ASSUME NEW f \in MediaFiles, MsDelete(f) PROVE MsIInv'
  <2>1. /\ f \in msDoomed /\ msDoomed' = msDoomed \ {f} /\ msDisk' \in {msDisk, msDisk \ {f}}
        /\ UNCHANGED <<msRefs, msNew, msCleaning, msStored, msLast>>
    BY <1>4 DEF MsDelete
  <2>2. QED
    BY <1>a, <2>1 DEF MsIInv, MsTypeOK, ResolvedExists, EntriesStored, OneEntry, DoomedHasNone, MsStores
<1>5. ASSUME MsReload PROVE MsIInv'
  <2>1. /\ msNew < MaxStores /\ msNew' = msNew + 1 /\ msCleaning' = {msNew + 1}
        /\ UNCHANGED <<msRefs, msDoomed, msDisk, msStored, msLast>>
    BY <1>5 DEF MsReload
  <2>2. msNew' \in MsStores /\ msCleaning' \subseteq MsStores
    BY <1>b, <2>1 DEF MsStores
  <2>3. QED
    BY <1>a, <2>1, <2>2 DEF MsIInv, MsTypeOK, ResolvedExists, EntriesStored, OneEntry, DoomedHasNone, MsStores
<1>6. CASE UNCHANGED msVars
  BY <1>a, <1>6 DEF msVars, MsIInv, MsTypeOK, ResolvedExists, EntriesStored, OneEntry, DoomedHasNone, MsStores
<1>7. QED
  BY <1>1, <1>2, <1>3, <1>4, <1>5, <1>6 DEF MsNext, MsStores

(* A reference to a download resolves to a file that is there, in every store *)
(* and at every moment of a cleanup.                                          *)
THEOREM MediaCorrect == MsSpec => []MsInv
<1>1. MsInit => MsIInv
  BY MediaAssumption DEF MsInit, MsIInv, MsTypeOK, ResolvedExists, EntriesStored, OneEntry, DoomedHasNone,
     MsStores, MediaFiles
<1>2. MsIInv => MsInv
  BY DEF MsIInv, MsInv
<1>3. QED
  BY <1>1, <1>2, MsStepIInv, PTL DEF MsSpec

(***************************************************************************)
(* Skills.  While only the tool installs, the holder of its mutex is the   *)
(* one operation under way: the directory is gone until it extracts, and   *)
(* then has what was extracted so far, all of it from that operation.      *)
(***************************************************************************)
OnlyTools == \A o \in SkOps : SkTool(o)
SkBusy == {"meta", "download", "extract"}

ToolsTakeTurns ==
  OnlyTools => \A o \in SkOps :
    /\ skOp[o].pc \in SkBusy \cup {"idle", "done"} /\ (skLock = o <=> skOp[o].pc \in SkBusy)
    /\ skOp[o].answer = "ok" => skOp[o].pc = "done"

OwnPart ==
  OnlyTools => \A o \in SkOps :
    /\ skOp[o].pc \in {"meta", "download"} => skDir = NoDir
    /\ skOp[o].pc = "extract" => /\ skOp[o].todo \subseteq skSource.files
                                 /\ DOMAIN skDir = skSource.files \ skOp[o].todo
                                 /\ \A f \in DOMAIN skDir : skDir[f] = o

WholeWhenFree ==
  OnlyTools /\ skLock = 0 =>
    \/ skDir \in {NoDir, [f \in SkFiles |-> 0]}
    \/ \E o \in SkOps : skOp[o].answer = "ok" /\ Whole(skDir, o)

SkIInv == /\ SkTypeOK /\ skSource \in [files : SUBSET SkFiles \ {{}}, blocked : BOOLEAN]
          /\ ToolsTakeTurns /\ OwnPart /\ WholeWhenFree

(* The directory of a skill that is not installed, and one that is empty.     *)
LEMMA NoDirs == DOMAIN NoDir = {"none"} /\ DOMAIN EmptyDir = {} /\ "none" \notin SkFiles
  BY DEF NoDir, EmptyDir, SkFiles

(* One file more leaves a well-typed directory. *)
LEMMA PutTyped ==
    ASSUME SkTypeOK, NEW f \in SkFiles, NEW o \in SkOps
    PROVE  /\ DOMAIN Put(skDir, f, o) \subseteq SkFiles
           /\ \A g \in DOMAIN Put(skDir, f, o) : Put(skDir, f, o)[g] \in SkOps \cup {0}
<1>1. /\ DOMAIN Put(skDir, f, o) = {f} \cup (DOMAIN skDir \ {"none"})
      /\ Put(skDir, f, o)[f] = o
      /\ \A g \in DOMAIN skDir \ {"none"} : g # f => Put(skDir, f, o)[g] = skDir[g]
  BY DEF Put
<1>2. CASE skDir = NoDir
  BY <1>1, <1>2, NoDirs
<1>3. CASE skDir # NoDir
  <2>1. DOMAIN skDir \subseteq SkFiles /\ \A g \in DOMAIN skDir : skDir[g] \in SkOps \cup {0}
    BY <1>3 DEF SkTypeOK
  <2>2. ASSUME NEW g \in DOMAIN Put(skDir, f, o) PROVE Put(skDir, f, o)[g] \in SkOps \cup {0}
    <3>1. CASE g = f
      BY <1>1, <3>1
    <3>2. CASE g # f
      BY <1>1, <2>1, <2>2, <3>2, NoDirs
    <3>3. QED
      BY <3>1, <3>2
  <2>3. QED
    BY <1>1, <2>1, <2>2
<1>4. QED
  BY <1>2, <1>3

SkRecords ==
  [kind : SkKinds,
   pc : {"idle", "meta", "download", "extract", "list", "files", "raw", "import", "save", "done"},
   todo : SUBSET SkFiles, known : BOOLEAN,
   answer : {"none", "ok", "exists", "not_found", "failed", "blocked"}]

(* Every step preserves it.                                                   *)
LEMMA SkStepIInv == SkIInv /\ [SkNext]_skVars => SkIInv'
<1> SUFFICES ASSUME SkIInv, [SkNext]_skVars PROVE SkIInv'
  OBVIOUS
<1>a. /\ SkTypeOK /\ skSource \in [files : SUBSET SkFiles \ {{}}, blocked : BOOLEAN]
      /\ ToolsTakeTurns /\ OwnPart /\ WholeWhenFree
  BY DEF SkIInv
<1>b. skOp \in [SkOps -> SkRecords] /\ skLock \in SkOps \cup {0} /\ 0 \notin SkOps
  BY <1>a, SkAssumption DEF SkTypeOK, SkRecords
\* An operation ends
<1>1. ASSUME NEW o \in SkOps, NEW a \in {"ok", "exists", "not_found", "failed", "blocked"}, SkAnswer(o, a)
      PROVE  /\ skOp' \in [SkOps -> SkRecords] /\ skOp'[o].kind = skOp[o].kind
             /\ skOp'[o].pc = "done" /\ skOp'[o].answer = a
             /\ \A p \in SkOps : p # o => skOp'[p] = skOp[p]
             /\ skLock' = IF skLock = o THEN 0 ELSE skLock
  <2>1. skOp' = [skOp EXCEPT ![o] = [skOp[o] EXCEPT !.pc = "done", !.answer = a]]
    BY <1>1, <1>b DEF SkAnswer
  <2>2. /\ [skOp[o] EXCEPT !.pc = "done", !.answer = a] \in SkRecords
        /\ [skOp[o] EXCEPT !.pc = "done", !.answer = a].pc = "done"
        /\ [skOp[o] EXCEPT !.pc = "done", !.answer = a].answer = a
        /\ [skOp[o] EXCEPT !.pc = "done", !.answer = a].kind = skOp[o].kind
    BY <1>b DEF SkRecords
  <2> DEFINE c == [skOp[o] EXCEPT !.pc = "done", !.answer = a]
  <2>3. c \in SkRecords /\ c.pc = "done" /\ c.answer = a /\ c.kind = skOp[o].kind
    BY <2>2
  <2>4. skOp' = [skOp EXCEPT ![o] = c] /\ skLock' = IF skLock = o THEN 0 ELSE skLock
    BY <1>1, <2>1 DEF SkAnswer
  <2> HIDE DEF c
  <2>5. QED
    BY <1>b, <2>3, <2>4
\* An operation goes on
<1>2. ASSUME NEW o \in SkOps, NEW pc \in {"meta", "download", "extract", "list", "files", "raw", "import", "save"},
             NEW todo \in SUBSET SkFiles, NEW known \in BOOLEAN,
             skOp' = [skOp EXCEPT ![o] = [skOp[o] EXCEPT !.pc = pc, !.todo = todo, !.known = known]]
      PROVE  /\ skOp' \in [SkOps -> SkRecords] /\ skOp'[o].kind = skOp[o].kind
             /\ skOp'[o].pc = pc /\ skOp'[o].todo = todo /\ skOp'[o].answer = skOp[o].answer
             /\ \A p \in SkOps : p # o => skOp'[p] = skOp[p]
  <2> DEFINE c == [skOp[o] EXCEPT !.pc = pc, !.todo = todo, !.known = known]
  <2>1. /\ c \in SkRecords /\ c.pc = pc /\ c.todo = todo /\ c.answer = skOp[o].answer
        /\ c.kind = skOp[o].kind
    BY <1>b DEF SkRecords
  <2>2. skOp' = [skOp EXCEPT ![o] = c]
    BY <1>2
  <2> HIDE DEF c
  <2>3. QED
    BY <1>b, <2>1, <2>2
<1>3. ASSUME NEW o \in SkOps, NEW pc \in {"extract", "files", "raw", "save"}, NEW todo \in SUBSET SkFiles,
             SkGoOn(o, pc, todo)
      PROVE  /\ skOp' \in [SkOps -> SkRecords] /\ skOp'[o].kind = skOp[o].kind
             /\ skOp'[o].pc = pc /\ skOp'[o].todo = todo /\ skOp'[o].answer = skOp[o].answer
             /\ \A p \in SkOps : p # o => skOp'[p] = skOp[p]
             /\ skLock' = skLock
  <2>1. skOp' = [skOp EXCEPT ![o] = [skOp[o] EXCEPT !.pc = pc, !.todo = todo, !.known = skOp[o].known]]
    BY <1>3, <1>b DEF SkGoOn, SkRecords
  <2>2. skOp[o].known \in BOOLEAN
    BY <1>b DEF SkRecords
  <2>3. skLock' = skLock
    BY <1>3 DEF SkGoOn
  <2>4. QED
    BY <1>2, <2>1, <2>2, <2>3
\* A step of one operation, which while only tools install is that of the holder
<1>4. ASSUME NEW o \in SkOps, skOp' \in [SkOps -> SkRecords], skOp'[o].kind = skOp[o].kind,
             \A p \in SkOps : p # o => skOp'[p] = skOp[p],
             skSource' = skSource, skLock' \in SkOps \cup {0},
             \/ skDir' = NoDir
             \/ /\ DOMAIN skDir' \subseteq SkFiles
                /\ \A f \in DOMAIN skDir' : skDir'[f] \in SkOps \cup {0},
             OnlyTools =>
               /\ skLock \in {0, o}
               /\ skOp'[o].pc \in SkBusy \cup {"done"} /\ (skOp'[o].answer = "ok" => skOp'[o].pc = "done")
               /\ skLock' = IF skOp'[o].pc \in SkBusy THEN o ELSE 0
               /\ skOp'[o].pc \in {"meta", "download"} => skDir' = NoDir
               /\ skOp'[o].pc = "extract" => /\ skOp'[o].todo \subseteq skSource.files
                                             /\ DOMAIN skDir' = skSource.files \ skOp'[o].todo
                                             /\ \A f \in DOMAIN skDir' : skDir'[f] = o
               /\ skOp'[o].pc = "done" =>
                    \/ skDir' = NoDir
                    \/ skDir' = skDir /\ skLock = 0 /\ skOp[o].answer # "ok"
                    \/ skOp'[o].answer = "ok" /\ Whole(skDir, o)'
      PROVE SkIInv'
  <2>1. SkTypeOK' /\ (skSource \in [files : SUBSET SkFiles \ {{}}, blocked : BOOLEAN])'
    BY <1>4, <1>a DEF SkTypeOK, SkRecords
  <2>2. OnlyTools' <=> OnlyTools
    BY <1>4 DEF OnlyTools, SkTool
  <2>3. ASSUME OnlyTools, NEW p \in SkOps, p # o PROVE skOp'[p].pc \in {"idle", "done"} /\ skLock' # p
    BY <1>4, <1>a, <1>b, <2>3 DEF ToolsTakeTurns, SkBusy
  <2>4. ToolsTakeTurns'
    <3> SUFFICES ASSUME OnlyTools, NEW p \in SkOps
                 PROVE  /\ skOp'[p].pc \in SkBusy \cup {"idle", "done"}
                        /\ skLock' = p <=> skOp'[p].pc \in SkBusy
                        /\ skOp'[p].answer = "ok" => skOp'[p].pc = "done"
      BY <2>2 DEF ToolsTakeTurns
    <3>1. CASE p = o
      BY <1>4, <1>b, <3>1
    <3>2. CASE p # o
      BY <1>4, <1>a, <2>3, <3>2 DEF ToolsTakeTurns, SkBusy
    <3>3. QED
      BY <3>1, <3>2
  <2>5. OwnPart'
    <3> SUFFICES ASSUME OnlyTools, NEW p \in SkOps
                 PROVE  /\ skOp'[p].pc \in {"meta", "download"} => skDir' = NoDir
                        /\ skOp'[p].pc = "extract" => /\ skOp'[p].todo \subseteq skSource'.files
                                                      /\ DOMAIN skDir' = skSource'.files \ skOp'[p].todo
                                                      /\ \A f \in DOMAIN skDir' : skDir'[f] = p
      BY <2>2 DEF OwnPart
    <3>1. CASE p = o
      BY <1>4, <3>1
    <3>2. CASE p # o
      BY <2>3, <3>2
    <3>3. QED
      BY <3>1, <3>2
  <2>6. WholeWhenFree'
    <3> SUFFICES ASSUME OnlyTools, skLock' = 0
                 PROVE  \/ skDir' \in {NoDir, [f \in SkFiles |-> 0]}
                        \/ \E p \in SkOps : skOp'[p].answer = "ok" /\ Whole(skDir, p)'
      BY <2>2 DEF WholeWhenFree, Whole
    <3>1. skOp'[o].pc = "done"
      BY <1>4, <1>b
    <3>2. CASE skDir' = NoDir
      BY <3>2
    <3>3. CASE skOp'[o].answer = "ok" /\ Whole(skDir, o)'
      BY <1>4, <3>3 DEF Whole
    <3>4. CASE skDir' = skDir /\ skLock = 0 /\ skOp[o].answer # "ok"
      <4>1. \/ skDir \in {NoDir, [f \in SkFiles |-> 0]}
            \/ \E p \in SkOps : skOp[p].answer = "ok" /\ Whole(skDir, p)
        BY <1>a, <3>4 DEF WholeWhenFree
      <4>2. ASSUME NEW p \in SkOps, skOp[p].answer = "ok", Whole(skDir, p)
            PROVE  skOp'[p].answer = "ok" /\ Whole(skDir, p)'
        BY <1>4, <3>4, <4>2 DEF Whole
      <4>3. QED
        BY <3>4, <4>1, <4>2
    <3>5. QED
      BY <1>4, <3>1, <3>2, <3>3, <3>4
  <2>7. QED
    BY <2>1, <2>4, <2>5, <2>6 DEF SkIInv
<1>5. \/ skDir = NoDir
      \/ DOMAIN skDir \subseteq SkFiles /\ \A f \in DOMAIN skDir : skDir[f] \in SkOps \cup {0}
  BY <1>a DEF SkTypeOK
<1>6. ASSUME NEW o \in SkOps, OnlyTools
      PROVE  /\ skOp[o].kind \in {"tool", "force"}
             /\ skOp[o].pc \in SkBusy \cup {"idle", "done"}
             /\ skLock = o <=> skOp[o].pc \in SkBusy
             /\ skOp[o].answer = "ok" => skOp[o].pc = "done"
             /\ skOp[o].pc \in {"meta", "download"} => skDir = NoDir
             /\ skOp[o].pc = "extract" => /\ skOp[o].todo \subseteq skSource.files
                                          /\ DOMAIN skDir = skSource.files \ skOp[o].todo
                                          /\ \A f \in DOMAIN skDir : skDir[f] = o
  BY <1>a, <1>6 DEF OnlyTools, SkTool, ToolsTakeTurns, OwnPart
<1>7. ASSUME NEW o \in SkOps, SkCheck(o) PROVE SkIInv'
  <2>1. skOp[o].pc = "idle" /\ skOp[o].kind \notin {"delete", "uninstall"} /\ (SkTool(o) => skLock = 0)
        /\ skSource' = skSource
    BY <1>7 DEF SkCheck
  <2>2. OnlyTools => SkTool(o) /\ skLock = 0 /\ skOp[o].answer # "ok"
    BY <1>6, <2>1 DEF OnlyTools
  <2>3. CASE skDir # NoDir /\ skOp[o].kind # "force"
    <3>1. SkAnswer(o, "exists") /\ UNCHANGED skDir
      BY <1>7, <2>3 DEF SkCheck
    <3>2. /\ skOp' \in [SkOps -> SkRecords] /\ skOp'[o].kind = skOp[o].kind
          /\ skOp'[o].pc = "done" /\ skOp'[o].answer = "exists"
          /\ \A p \in SkOps : p # o => skOp'[p] = skOp[p]
          /\ skLock' = IF skLock = o THEN 0 ELSE skLock
      BY <1>1, <3>1
    <3>3. QED
      BY <1>4, <1>5, <1>b, <2>1, <2>2, <3>1, <3>2 DEF SkBusy
  <2>4. CASE ~(skDir # NoDir /\ skOp[o].kind # "force")
    <3> DEFINE pc == IF SkFromRegistry(o) THEN "meta"
                     ELSE IF skOp[o].kind = "github" THEN "list" ELSE "import"
    <3>1. /\ skDir' = NoDir /\ skOp' = [skOp EXCEPT ![o].pc = pc]
          /\ skLock' = IF SkTool(o) THEN o ELSE skLock
      BY <1>7, <2>4 DEF SkCheck
    <3>2. pc \in {"meta", "list", "import"} /\ (SkTool(o) => pc = "meta")
      BY DEF SkFromRegistry
    <3> HIDE DEF pc
    <3>3. /\ skOp' = [skOp EXCEPT ![o] = [skOp[o] EXCEPT !.pc = pc, !.todo = skOp[o].todo,
                                                         !.known = skOp[o].known]]
          /\ skOp[o].todo \in SUBSET SkFiles /\ skOp[o].known \in BOOLEAN
      BY <1>b, <3>1 DEF SkRecords
    <3>4. /\ skOp' \in [SkOps -> SkRecords] /\ skOp'[o].kind = skOp[o].kind
          /\ skOp'[o].pc = pc /\ skOp'[o].answer = skOp[o].answer
          /\ \A p \in SkOps : p # o => skOp'[p] = skOp[p]
      BY <1>2, <3>2, <3>3
    <3>5. QED
      BY <1>4, <1>b, <2>1, <2>2, <3>1, <3>2, <3>4 DEF SkBusy
  <2>5. QED
    BY <2>3, <2>4
<1>8. ASSUME NEW o \in SkOps, SkMeta(o) PROVE SkIInv'
  <2>1. PICK known \in BOOLEAN : skOp' = [skOp EXCEPT ![o].pc = "download", ![o].known = known]
    BY <1>8 DEF SkMeta
  <2>2. skOp[o].pc = "meta" /\ UNCHANGED <<skDir, skSource, skLock>>
    BY <1>8 DEF SkMeta
  <2>3. /\ skOp' = [skOp EXCEPT ![o] = [skOp[o] EXCEPT !.pc = "download", !.todo = skOp[o].todo, !.known = known]]
        /\ skOp[o].todo \in SUBSET SkFiles
    BY <1>b, <2>1 DEF SkRecords
  <2>4. /\ skOp' \in [SkOps -> SkRecords] /\ skOp'[o].kind = skOp[o].kind
        /\ skOp'[o].pc = "download" /\ skOp'[o].answer = skOp[o].answer
        /\ \A p \in SkOps : p # o => skOp'[p] = skOp[p]
    BY <1>2, <2>3
  <2>5. OnlyTools => skLock = o /\ skDir = NoDir /\ skOp[o].answer # "ok"
    BY <1>6, <2>2 DEF SkBusy
  <2>6. QED
    BY <1>4, <1>5, <1>b, <2>2, <2>4, <2>5 DEF SkBusy
<1>9. ASSUME NEW o \in SkOps, SkDownload(o) PROVE SkIInv'
  <2>1. /\ skOp[o].pc = "download" /\ SkGoOn(o, "extract", skSource.files)
        /\ skDir' = IF skDir = NoDir THEN EmptyDir ELSE skDir
        /\ skSource' = skSource
    BY <1>9 DEF SkDownload
  <2>2. skSource.files \in SUBSET SkFiles
    BY <1>a
  <2>3. /\ skOp' \in [SkOps -> SkRecords] /\ skOp'[o].kind = skOp[o].kind
        /\ skOp'[o].pc = "extract" /\ skOp'[o].todo = skSource.files /\ skOp'[o].answer = skOp[o].answer
        /\ \A p \in SkOps : p # o => skOp'[p] = skOp[p]
        /\ skLock' = skLock
    BY <1>3, <2>1, <2>2
  <2>4. OnlyTools => skLock = o /\ DOMAIN skDir' = {} /\ skOp[o].answer # "ok"
    BY <1>6, <2>1, NoDirs DEF SkBusy
  <2>5. \/ skDir' = NoDir
        \/ DOMAIN skDir' \subseteq SkFiles /\ \A f \in DOMAIN skDir' : skDir'[f] \in SkOps \cup {0}
    BY <1>5, <2>1, NoDirs
  <2>6. QED
    BY <1>4, <1>b, <2>1, <2>3, <2>4, <2>5 DEF SkBusy
<1>10. ASSUME NEW o \in SkOps, NEW f \in SkFiles, SkExtract(o, f) PROVE SkIInv'
  <2>1. /\ skOp[o].pc = "extract" /\ f \in skOp[o].todo /\ skDir' = Put(skDir, f, o)
        /\ SkGoOn(o, "extract", skOp[o].todo \ {f}) /\ skSource' = skSource
    BY <1>10 DEF SkExtract
  <2>2. skOp[o].todo \ {f} \in SUBSET SkFiles
    BY <1>b DEF SkRecords
  <2>3. /\ skOp' \in [SkOps -> SkRecords] /\ skOp'[o].kind = skOp[o].kind
        /\ skOp'[o].pc = "extract" /\ skOp'[o].todo = skOp[o].todo \ {f}
        /\ skOp'[o].answer = skOp[o].answer
        /\ \A p \in SkOps : p # o => skOp'[p] = skOp[p]
        /\ skLock' = skLock
    BY <1>3, <2>1, <2>2
  <2>4. /\ DOMAIN skDir' \subseteq SkFiles
        /\ \A g \in DOMAIN skDir' : skDir'[g] \in SkOps \cup {0}
    BY <1>a, <2>1, PutTyped
  <2>5. ASSUME OnlyTools
        PROVE  /\ skLock = o /\ skOp[o].answer # "ok"
               /\ skOp[o].todo \ {f} \subseteq skSource.files
               /\ DOMAIN skDir' = skSource.files \ (skOp[o].todo \ {f})
               /\ \A g \in DOMAIN skDir' : skDir'[g] = o
    <3>1. /\ skLock = o /\ skOp[o].answer # "ok" /\ skOp[o].todo \subseteq skSource.files
          /\ DOMAIN skDir = skSource.files \ skOp[o].todo /\ \A g \in DOMAIN skDir : skDir[g] = o
      BY <1>6, <2>1, <2>5 DEF SkBusy
    <3>2. skSource.files \subseteq SkFiles
      BY <1>a
    <3>3. "none" \notin DOMAIN skDir
      BY <3>1, <3>2, NoDirs
    <3>4. /\ DOMAIN skDir' = {f} \cup (DOMAIN skDir \ {"none"}) /\ skDir'[f] = o
          /\ \A g \in DOMAIN skDir \ {"none"} : g # f => skDir'[g] = skDir[g]
      BY <2>1 DEF Put
    <3>5. QED
      BY <2>1, <3>1, <3>3, <3>4
  <2>6. QED
    BY <1>4, <1>b, <2>1, <2>3, <2>4, <2>5 DEF SkBusy
<1>11. ASSUME NEW o \in SkOps, SkFail(o) PROVE SkIInv'
  <2>1. /\ skOp[o].pc \in {"download", "extract"} /\ skDir' = NoDir /\ SkAnswer(o, "failed") /\ skSource' = skSource
    BY <1>11 DEF SkFail
  <2>2. /\ skOp' \in [SkOps -> SkRecords] /\ skOp'[o].kind = skOp[o].kind
        /\ skOp'[o].pc = "done" /\ skOp'[o].answer = "failed"
        /\ \A p \in SkOps : p # o => skOp'[p] = skOp[p]
        /\ skLock' = IF skLock = o THEN 0 ELSE skLock
    BY <1>1, <2>1
  <2>3. OnlyTools => skLock = o
    BY <1>6, <2>1 DEF SkBusy
  <2>4. QED
    BY <1>4, <1>b, <2>1, <2>2, <2>3 DEF SkBusy
<1>12. ASSUME NEW o \in SkOps, SkInstalled(o) PROVE SkIInv'
  <2>1. skOp[o].pc = "extract" /\ skOp[o].todo = {} /\ skSource' = skSource
    BY <1>12 DEF SkInstalled
  <2>2. PICK a \in {"blocked", "ok"} : SkAnswer(o, a) /\ skDir' = IF a = "blocked" THEN NoDir ELSE skDir
    BY <1>12 DEF SkInstalled
  <2>3. /\ skOp' \in [SkOps -> SkRecords] /\ skOp'[o].kind = skOp[o].kind
        /\ skOp'[o].pc = "done" /\ skOp'[o].answer = a
        /\ \A p \in SkOps : p # o => skOp'[p] = skOp[p]
        /\ skLock' = IF skLock = o THEN 0 ELSE skLock
    BY <1>1, <2>2
  <2>4. OnlyTools => skLock = o /\ (skDir' = NoDir \/ (a = "ok" /\ Whole(skDir, o)'))
    BY <1>6, <2>1, <2>2 DEF SkBusy, Whole
  <2>5. \/ skDir' = NoDir
        \/ DOMAIN skDir' \subseteq SkFiles /\ \A f \in DOMAIN skDir' : skDir'[f] \in SkOps \cup {0}
    BY <1>5, <2>2
  <2>6. QED
    BY <1>4, <1>b, <2>1, <2>3, <2>4, <2>5 DEF SkBusy
\* Those that are no tool
<1>13. ASSUME NEW o \in SkOps, SkRemove(o) PROVE SkIInv'
  <2>1. skOp[o].kind \in {"delete", "uninstall"} /\ skSource' = skSource
    BY <1>13 DEF SkRemove
  <2>2. PICK a \in {"not_found", "ok"} : SkAnswer(o, a) /\ skDir' \in {skDir, NoDir}
    BY <1>13 DEF SkRemove
  <2>3. /\ skOp' \in [SkOps -> SkRecords] /\ skOp'[o].kind = skOp[o].kind
        /\ \A p \in SkOps : p # o => skOp'[p] = skOp[p]
        /\ skLock' = IF skLock = o THEN 0 ELSE skLock
    BY <1>1, <2>2
  <2>4. ~OnlyTools
    BY <1>6, <2>1
  <2>5. QED
    BY <1>4, <1>5, <1>b, <2>1, <2>2, <2>3, <2>4
<1>14. ASSUME NEW o \in SkOps, SkList(o) \/ SkFilesDone(o) \/ SkRaw(o) \/ SkImport(o) \/ SkSave(o)
                                \/ \E f \in SkFiles : SkFile(o, f)
       PROVE SkIInv'
  <2>1. ~OnlyTools
    <3>1. skOp[o].pc \in {"list", "files", "raw", "import", "save"}
      BY <1>14 DEF SkList, SkFilesDone, SkRaw, SkImport, SkSave, SkFile
    <3>2. QED
      BY <1>6, <3>1 DEF SkBusy
  <2>2. \/ \E a \in {"ok", "failed"} : SkAnswer(o, a)
        \/ \E pc \in {"files", "raw", "save"}, todo \in SUBSET SkFiles : SkGoOn(o, pc, todo)
    <3>1. skSource.files \in SUBSET SkFiles /\ {} \in SUBSET SkFiles /\ \A f : skOp[o].todo \ {f} \in SUBSET SkFiles
      BY <1>a, <1>b DEF SkRecords
    <3>2. CASE SkList(o)
      BY <3>1, <3>2 DEF SkList
    <3>3. CASE SkFilesDone(o) \/ SkRaw(o) \/ SkSave(o)
      BY <3>3 DEF SkFilesDone, SkRaw, SkSave
    <3>4. CASE SkImport(o)
      BY <3>1, <3>4 DEF SkImport
    <3>5. CASE \E f \in SkFiles : SkFile(o, f)
      BY <3>1, <3>5 DEF SkFile
    <3>6. QED
      BY <1>14, <3>2, <3>3, <3>4, <3>5
  <2>3. /\ skOp' \in [SkOps -> SkRecords] /\ skOp'[o].kind = skOp[o].kind
        /\ \A p \in SkOps : p # o => skOp'[p] = skOp[p]
        /\ skLock' \in {0, skLock}
    <3>1. ASSUME NEW a \in {"ok", "failed"}, SkAnswer(o, a)
          PROVE  /\ skOp' \in [SkOps -> SkRecords] /\ skOp'[o].kind = skOp[o].kind
                 /\ \A p \in SkOps : p # o => skOp'[p] = skOp[p]
                 /\ skLock' \in {0, skLock}
      BY <1>1, <3>1
    <3>2. ASSUME NEW pc \in {"files", "raw", "save"}, NEW todo \in SUBSET SkFiles, SkGoOn(o, pc, todo)
          PROVE  /\ skOp' \in [SkOps -> SkRecords] /\ skOp'[o].kind = skOp[o].kind
                 /\ \A p \in SkOps : p # o => skOp'[p] = skOp[p]
                 /\ skLock' \in {0, skLock}
      BY <1>3, <3>2
    <3>3. QED
      BY <2>2, <3>1, <3>2
  <2>4. skSource' = skSource
    BY <1>14 DEF SkList, SkFilesDone, SkRaw, SkImport, SkSave, SkFile
  <2>5. \/ skDir' \in {skDir, NoDir, EmptyDir}
        \/ \E f \in SkFiles : skDir' = Put(skDir, f, o)
    BY <1>14 DEF SkList, SkFilesDone, SkRaw, SkImport, SkSave, SkFile, SkFiles
  <2>6. \/ skDir' = NoDir
        \/ DOMAIN skDir' \subseteq SkFiles /\ \A f \in DOMAIN skDir' : skDir'[f] \in SkOps \cup {0}
    <3>1. CASE skDir' \in {skDir, NoDir, EmptyDir}
      BY <1>5, <3>1, NoDirs
    <3>2. ASSUME NEW f \in SkFiles, skDir' = Put(skDir, f, o)
          PROVE  DOMAIN skDir' \subseteq SkFiles /\ \A g \in DOMAIN skDir' : skDir'[g] \in SkOps \cup {0}
      BY <1>a, <3>2, PutTyped
    <3>3. QED
      BY <2>5, <3>1, <3>2
  <2>7. QED
    BY <1>4, <1>b, <2>1, <2>3, <2>4, <2>6
<1>15. CASE UNCHANGED skVars
  BY <1>a, <1>15 DEF skVars, SkIInv, SkTypeOK, ToolsTakeTurns, OwnPart, WholeWhenFree, OnlyTools, SkTool, Whole
<1>16. QED
  BY <1>7, <1>8, <1>9, <1>10, <1>11, <1>12, <1>13, <1>14, <1>15 DEF SkNext

(* Whatever fails, the tool leaves the skill of before, none, or a whole one. *)
THEOREM SkillsCorrect == SkSpec => []SkInv
<1>1. SkInit => SkIInv
  <2> SUFFICES ASSUME SkInit PROVE SkIInv
    OBVIOUS
  <2>1. PICK kind \in [SkOps -> SkKinds] :
          skOp = [o \in SkOps |-> [kind |-> kind[o], pc |-> "idle", todo |-> {}, known |-> FALSE,
                                   answer |-> "none"]]
    BY DEF SkInit
  <2>2. /\ skOp \in [SkOps -> SkRecords]
        /\ \A o \in SkOps : skOp[o].pc = "idle" /\ skOp[o].answer = "none"
    BY <2>1 DEF SkRecords
  <2>3. /\ skDir \in {NoDir, [f \in SkFiles |-> 0]} /\ skLock = 0
        /\ skSource \in [files : SUBSET SkFiles \ {{}}, blocked : BOOLEAN]
    BY DEF SkInit
  <2>4. SkTypeOK
    BY <2>2, <2>3 DEF SkTypeOK, SkRecords
  <2>5. ToolsTakeTurns
    BY <2>2, <2>3, SkAssumption DEF ToolsTakeTurns, SkBusy
  <2>6. OwnPart /\ WholeWhenFree
    BY <2>2, <2>3 DEF OwnPart, WholeWhenFree
  <2>7. QED
    BY <2>3, <2>4, <2>5, <2>6 DEF SkIInv
<1>2. SkIInv => SkInv
  <2> SUFFICES ASSUME SkIInv, SkIdle, \A o \in SkOps : SkTool(o)
               PROVE  \/ skDir \in {NoDir, [f \in SkFiles |-> 0]}
                      \/ \E o \in SkOps : skOp[o].answer = "ok" /\ Whole(skDir, o)
    BY DEF SkIInv, SkInv, ToolInstallsAreWhole
  <2>1. OnlyTools /\ ToolsTakeTurns /\ WholeWhenFree /\ skLock \in SkOps \cup {0}
    BY DEF SkIInv, SkTypeOK, OnlyTools
  <2>2. skLock = 0
    BY <2>1 DEF ToolsTakeTurns, SkIdle, SkBusy
  <2>3. QED
    BY <2>1, <2>2 DEF WholeWhenFree
<1>3. QED
  BY <1>1, <1>2, SkStepIInv, PTL DEF SkSpec

(***************************************************************************)
(* Credentials.  What an operation is about to store keeps the account and *)
(* the refresh token; the operation of a flow has used up its code once it *)
(* has a token, and stored it before it says success.                      *)
(***************************************************************************)
CdMethods == {"none", "oauth", "token"}
CdKinds == {"none", "use", "logout", "logoutByAlias"} \cup Flowing \cup Directs
CdPcs == {"idle", "ask", "load", "save", "loadConfig", "saveConfig", "served"}

CdFlowRecords ==
  [status : {"none", "pending", "success", "error", "expired"}, prov : CdProviders,
   method : {"browser", "device_code"}, code : BOOLEAN, saved : BOOLEAN]

CdOpRecords ==
  [kind : CdKinds, prov : CdProviders, flow : CdFlows \cup {"none"}, pc : CdPcs,
   store : {<<>>} \cup [CdProviders -> CdCredentials], method : {<<>>} \cup [CdProviders -> CdMethods],
   cred : CdCredentials, result : {"none", "ok", "error", "pending"}]

CdTypes ==
  /\ cdStore \in [CdProviders -> CdCredentials] /\ cdMethod \in [CdProviders -> CdMethods]
  /\ cdFlow \in [CdFlows -> CdFlowRecords]
  /\ \A f \in CdFlows : cdFlow[f].method \in FlowMethods(cdFlow[f].prov)
  /\ cdOp \in [CdOps -> CdOpRecords] /\ cdAge \in [1..CdMaxTokens -> 0..2]
  /\ cdValid \subseteq 1..cdIssued /\ cdIssued \in 0..CdMaxTokens /\ cdBegun \in 0..CdMaxOps

(* A credential of p with its identity. *)
Identified(p, c) == /\ c.refresh > 0 => c.account
                    /\ p = "googleAntigravity" /\ c.token > 0 => c.refresh > 0

(* What an operation has done of what its place says. *)
CdAhead(k, flows) ==
  /\ k.kind \in Flowing => /\ k.flow \in CdFlows
                           /\ k.pc \in {"load", "save", "loadConfig", "saveConfig"} => ~flows[k.flow].code
                           /\ k.pc \in {"loadConfig", "saveConfig"} => flows[k.flow].saved
  /\ k.kind \in Directs => k.prov = DirectLogin(k.kind).prov
  /\ k.kind = "use" /\ k.pc = "ask" => k.cred.refresh > 0 /\ k.cred.account
  /\ k.pc \in {"load", "save"} => Identified(k.prov, k.cred)
  /\ k.pc = "save" => /\ k.store \in [CdProviders -> CdCredentials]
                      /\ \A p \in CdProviders : Identified(p, k.store[p])
  /\ k.pc = "saveConfig" => k.method \in [CdProviders -> CdMethods]

CdIInv == /\ CdTypes /\ SuccessIsStored
          /\ \A p \in CdProviders : Identified(p, cdStore[p])
          /\ \A o \in CdOps : CdAhead(cdOp[o], cdFlow)

(* What the direct ways to log in have in common.                             *)
LEMMA DirectFacts ==
    ASSUME NEW kind \in Directs
    PROVE  /\ DirectLogin(kind).prov \in CdProviders /\ DirectLogin(kind).method \in CdMethods
           /\ DirectLogin(kind).refresh \in BOOLEAN
           /\ DirectLogin(kind).prov = "googleAntigravity" => DirectLogin(kind).refresh
  BY DEF Directs, DirectLogin, Direct, LoginOpenAI, LoginAntigravity, LoginSetupToken, LoginPasteToken,
     LauncherToken, CdProviders, CdMethods

(* The record of an operation that is over.                                   *)
LEMMA IdleOps ==
    ASSUME NEW r \in {"none", "ok", "error", "pending"}, NEW flows
    PROVE  /\ IdleOp \in CdOpRecords /\ [IdleOp EXCEPT !.result = r] \in CdOpRecords
           /\ CdAhead([IdleOp EXCEPT !.result = r], flows)
           /\ NoCredential \in CdCredentials /\ \A p \in CdProviders : Identified(p, NoCredential)
           /\ IdleOp.kind = "none"
<1>1. NoCredential \in CdCredentials
  BY CdAssumption DEF NoCredential, CdCredentials
<1>2. \A p \in CdProviders : Identified(p, NoCredential)
  BY DEF Identified, NoCredential
<1>3. IdleOp \in CdOpRecords
  BY <1>1 DEF IdleOp, CdOpRecords, CdKinds, CdPcs, CdProviders
<1>4. [IdleOp EXCEPT !.result = r] \in CdOpRecords
  BY <1>3 DEF CdOpRecords
<1>5. [IdleOp EXCEPT !.result = r].kind = "none" /\ [IdleOp EXCEPT !.result = r].pc = "idle" /\ IdleOp.kind = "none"
  BY DEF IdleOp
<1>6. CdAhead([IdleOp EXCEPT !.result = r], flows)
  BY <1>5 DEF CdAhead, Flowing, Directs
<1>7. QED
  BY <1>1, <1>2, <1>3, <1>4, <1>5, <1>6

(* The flows never get their code back or forget what they stored, and only   *)
(* one that has stored its credential becomes a success.                      *)
FlowsGoOn ==
  /\ cdFlow' \in [CdFlows -> CdFlowRecords]
  /\ \A f \in CdFlows :
       /\ cdFlow'[f].method \in FlowMethods(cdFlow'[f].prov)
       /\ cdFlow'[f].code => cdFlow[f].code
       /\ cdFlow[f].saved => cdFlow'[f].saved
       /\ cdFlow'[f].status = "success" =>
            cdFlow[f].status = "success" \/ (cdFlow'[f].saved /\ ~cdFlow'[f].code)

(* An operation that leaves the flows alone lets them go on.                  *)
LEMMA FlowStays == CdTypes /\ cdFlow' = cdFlow => FlowsGoOn
  BY DEF FlowsGoOn, CdTypes

(* One flow gets another record. *)
LEMMA OneFlow ==
    ASSUME CdTypes, NEW f \in CdFlows, NEW g \in CdFlowRecords, cdFlow' = [cdFlow EXCEPT ![f] = g],
           g.method \in FlowMethods(g.prov), g.code => cdFlow[f].code, cdFlow[f].saved => g.saved,
           g.status = "success" => cdFlow[f].status = "success" \/ (g.saved /\ ~g.code)
    PROVE  FlowsGoOn /\ cdFlow'[f] = g
<1>1. cdFlow \in [CdFlows -> CdFlowRecords]
  BY DEF CdTypes
<1>2. cdFlow' \in [CdFlows -> CdFlowRecords] /\ cdFlow'[f] = g /\ \A h \in CdFlows : h # f => cdFlow'[h] = cdFlow[h]
  BY <1>1
<1>3. \A h \in CdFlows : cdFlow[h].method \in FlowMethods(cdFlow[h].prov)
  BY DEF CdTypes
<1>4. QED
  BY <1>2, <1>3 DEF FlowsGoOn

(* A status of a flow that is no success, or the success of a stored one.     *)
LEMMA FlowStatus ==
    ASSUME CdTypes, NEW f \in CdFlows, NEW st \in {"pending", "success", "error", "expired"},
           cdFlow' = [cdFlow EXCEPT ![f].status = st],
           st = "success" => cdFlow[f].saved /\ ~cdFlow[f].code
    PROVE  FlowsGoOn
<1> DEFINE g == [cdFlow[f] EXCEPT !.status = st]
<1>1. cdFlow[f] \in CdFlowRecords /\ cdFlow[f].method \in FlowMethods(cdFlow[f].prov)
  BY DEF CdTypes
<1>2. /\ g \in CdFlowRecords /\ g.status = st /\ g.method = cdFlow[f].method /\ g.prov = cdFlow[f].prov
      /\ g.code = cdFlow[f].code /\ g.saved = cdFlow[f].saved
  BY <1>1 DEF CdFlowRecords
<1>3. cdFlow' = [cdFlow EXCEPT ![f] = g]
  OBVIOUS
<1> HIDE DEF g
<1>4. QED
  BY <1>1, <1>2, <1>3, OneFlow

(* A step of one operation. *)
LEMMA OneOpStep ==
    ASSUME CdIInv, NEW o \in CdOps, NEW k \in CdOpRecords, cdOp' = [cdOp EXCEPT ![o] = k],
           FlowsGoOn, CdAhead(k, cdFlow'),
           cdStore' \in [CdProviders -> CdCredentials], \A p \in CdProviders : Identified(p, cdStore'[p]),
           cdMethod' \in [CdProviders -> CdMethods], cdAge' = cdAge, cdValid' \subseteq 1..cdIssued',
           cdIssued' \in 0..CdMaxTokens, cdBegun' \in 0..CdMaxOps
    PROVE  CdIInv'
<1>a. CdTypes /\ SuccessIsStored /\ \A q \in CdOps : CdAhead(cdOp[q], cdFlow)
  BY DEF CdIInv
<1>b. cdOp \in [CdOps -> CdOpRecords] /\ cdFlow \in [CdFlows -> CdFlowRecords]
  BY <1>a DEF CdTypes
<1>1. cdOp' \in [CdOps -> CdOpRecords] /\ cdOp'[o] = k /\ \A q \in CdOps : q # o => cdOp'[q] = cdOp[q]
  BY <1>b
<1>2. CdTypes'
  BY <1>a, <1>1 DEF CdTypes, FlowsGoOn
<1>3. SuccessIsStored'
  BY <1>a, <1>b DEF SuccessIsStored, FlowsGoOn, CdFlowRecords
<1>4. ASSUME NEW q \in CdOps PROVE CdAhead(cdOp'[q], cdFlow')
  <2>1. CASE q = o
    BY <1>1, <2>1
  <2>2. CASE q # o
    <3>1. cdOp'[q] = cdOp[q] /\ CdAhead(cdOp[q], cdFlow)
      BY <1>a, <1>1, <2>2
    <3>2. \A f \in CdFlows : (~cdFlow[f].code => ~cdFlow'[f].code) /\ (cdFlow[f].saved => cdFlow'[f].saved)
      BY DEF FlowsGoOn
    <3>3. CdAhead(cdOp[q], cdFlow')
      BY <3>1, <3>2 DEF CdAhead
    <3>4. QED
      BY <3>1, <3>3
  <2>3. QED
    BY <2>1, <2>2
<1>5. QED
  BY <1>2, <1>3, <1>4 DEF CdIInv

(* The end of a login shows in its flow: a failure, or the success of one     *)
(* that stored its credential.                                                *)
LEMMA Settled ==
    ASSUME CdIInv, NEW o \in CdOps, NEW st \in {"success", "error"}, cdFlow' = Settle(o, st),
           st = "success" => cdOp[o].pc = "saveConfig"
    PROVE  FlowsGoOn
<1>1. CdTypes /\ CdAhead(cdOp[o], cdFlow)
  BY DEF CdIInv
<1>2. CASE cdOp[o].kind \in Flowing
  <2>1. cdOp[o].flow \in CdFlows /\ (st = "success" => cdFlow[cdOp[o].flow].saved /\ ~cdFlow[cdOp[o].flow].code)
    BY <1>1, <1>2 DEF CdAhead
  <2>2. cdFlow' = [cdFlow EXCEPT ![cdOp[o].flow].status = st]
    BY <1>2 DEF Settle
  <2> DEFINE f == cdOp[o].flow
  <2>3. f \in CdFlows /\ (st = "success" => cdFlow[f].saved /\ ~cdFlow[f].code) /\ cdFlow' = [cdFlow EXCEPT ![f].status = st]
    BY <2>1, <2>2
  <2> HIDE DEF f
  <2>4. QED
    BY <1>1, <2>3, FlowStatus
<1>3. CASE cdOp[o].kind \notin Flowing
  BY <1>1, <1>3, FlowStays DEF Settle
<1>4. QED
  BY <1>2, <1>3

(* Every step preserves it.                                                   *)
LEMMA CdStepIInv == CdIInv /\ [CdNext]_cdVars => CdIInv'
<1> SUFFICES ASSUME CdIInv, [CdNext]_cdVars PROVE CdIInv'
  OBVIOUS
<1>a. /\ CdTypes /\ SuccessIsStored /\ \A p \in CdProviders : Identified(p, cdStore[p])
      /\ \A o \in CdOps : CdAhead(cdOp[o], cdFlow)
  BY DEF CdIInv
<1>b. /\ cdStore \in [CdProviders -> CdCredentials] /\ cdMethod \in [CdProviders -> CdMethods]
      /\ cdFlow \in [CdFlows -> CdFlowRecords] /\ cdOp \in [CdOps -> CdOpRecords]
      /\ cdAge \in [1..CdMaxTokens -> 0..2] /\ cdValid \subseteq 1..cdIssued
      /\ cdIssued \in 0..CdMaxTokens /\ cdBegun \in 0..CdMaxOps
      /\ CdMaxOps \in Nat /\ CdMaxTokens \in Nat \ {0}
  BY <1>a, CdAssumption DEF CdTypes
\* The flows by themselves
<1>1. ASSUME FlowsGoOn, UNCHANGED <<cdStore, cdMethod, cdOp, cdValid, cdIssued, cdBegun>>,
             cdAge' \in [1..CdMaxTokens -> 0..2]
      PROVE  CdIInv'
  <2>1. CdTypes'
    BY <1>b, <1>1 DEF CdTypes, FlowsGoOn
  <2>2. SuccessIsStored'
    BY <1>a, <1>b, <1>1 DEF SuccessIsStored, FlowsGoOn, CdFlowRecords
  <2>3. \A f \in CdFlows : (~cdFlow[f].code => ~cdFlow'[f].code) /\ (cdFlow[f].saved => cdFlow'[f].saved)
    BY <1>1 DEF FlowsGoOn
  <2>4. ASSUME NEW q \in CdOps PROVE CdAhead(cdOp[q], cdFlow')
    <3>1. CdAhead(cdOp[q], cdFlow)
      BY <1>a
    <3>2. QED
      BY <2>3, <3>1 DEF CdAhead
  <2>5. QED
    BY <1>a, <1>1, <2>1, <2>2, <2>4 DEF CdIInv
<1>2. ASSUME NEW f \in CdFlows, NEW p \in CdProviders, NEW m \in FlowMethods(p), CdLogin(f, p, m) PROVE CdIInv'
  <2> DEFINE g == [cdFlow[f] EXCEPT !.status = "pending", !.prov = p, !.method = m]
  <2>1. m \in {"browser", "device_code"}
    BY DEF FlowMethods, CdProviders
  <2>2. /\ g \in CdFlowRecords /\ g.status = "pending" /\ g.prov = p /\ g.method = m
        /\ g.code = cdFlow[f].code /\ g.saved = cdFlow[f].saved
    BY <1>b, <2>1 DEF CdFlowRecords
  <2>3. cdFlow' = [cdFlow EXCEPT ![f] = g] /\ UNCHANGED <<cdStore, cdMethod, cdOp, cdAge, cdValid, cdIssued, cdBegun>>
    BY <1>2, <1>b DEF CdLogin
  <2> HIDE DEF g
  <2>4. FlowsGoOn
    BY <1>a, <2>2, <2>3, OneFlow
  <2>5. QED
    BY <1>1, <1>b, <2>3, <2>4
<1>3. ASSUME NEW f \in CdFlows, CdExpire(f) PROVE CdIInv'
  <2>1. /\ cdFlow' = [cdFlow EXCEPT ![f].status = "expired"]
        /\ UNCHANGED <<cdStore, cdMethod, cdOp, cdAge, cdValid, cdIssued, cdBegun>>
    BY <1>3 DEF CdExpire
  <2>2. FlowsGoOn
    BY <1>a, <2>1, FlowStatus
  <2>3. QED
    BY <1>1, <1>b, <2>1, <2>2
<1>4. ASSUME NEW t \in 1..CdMaxTokens, CdTokenAges(t) PROVE CdIInv'
  <2>1. /\ cdAge[t] < 2 /\ cdAge' = [cdAge EXCEPT ![t] = @ + 1]
        /\ UNCHANGED <<cdStore, cdMethod, cdFlow, cdOp, cdValid, cdIssued, cdBegun>>
    BY <1>4 DEF CdTokenAges
  <2>2. cdAge[t] + 1 \in 0..2
    BY <1>b, <2>1
  <2>3. cdAge' \in [1..CdMaxTokens -> 0..2]
    BY <1>b, <2>1, <2>2
  <2>4. QED
    BY <1>1, <1>a, <2>1, <2>3, FlowStays
\* An operation begins
<1>5. ASSUME NEW o \in CdOps, NEW kind \in CdKinds, NEW p \in CdProviders, NEW f \in CdFlows \cup {"none"},
             NEW pc \in {"ask", "load", "served"}, NEW cred \in CdCredentials,
             CdBegin(o, kind, p, f, pc, cred),
             UNCHANGED <<cdStore, cdMethod, cdFlow, cdAge, cdValid, cdIssued>>,
             kind \in Flowing => f \in CdFlows /\ pc = "ask",
             kind \in Directs => p = DirectLogin(kind).prov,
             kind = "use" /\ pc = "ask" => cred.refresh > 0 /\ cred.account,
             pc = "load" => Identified(p, cred)
      PROVE  CdIInv'
  <2> DEFINE k == [IdleOp EXCEPT !.kind = kind, !.prov = p, !.flow = f, !.pc = pc, !.cred = cred]
  <2>1. cdBegun < CdMaxOps /\ cdBegun' = cdBegun + 1 /\ cdOp' = [cdOp EXCEPT ![o] = k]
    BY <1>5 DEF CdBegin
  <2>2. IdleOp \in CdOpRecords
    BY IdleOps
  <2>3. /\ k \in CdOpRecords /\ k.kind = kind /\ k.prov = p /\ k.flow = f /\ k.pc = pc /\ k.cred = cred
    BY <2>2 DEF CdOpRecords, CdPcs
  <2> HIDE DEF k
  <2>4. CdAhead(k, cdFlow')
    BY <1>5, <2>3 DEF CdAhead
  <2>5. cdBegun' \in 0..CdMaxOps
    BY <1>b, <2>1
  <2>6. FlowsGoOn
    BY <1>a, <1>5, FlowStays
  <2>7. QED
    BY <1>a, <1>b, <1>5, <2>1, <2>3, <2>4, <2>5, <2>6, OneOpStep
<1>c. NoCredential \in CdCredentials /\ \A p \in CdProviders : Identified(p, NoCredential)
  BY IdleOps
<1>6. ASSUME NEW o \in CdOps, NEW f \in CdFlows, CdAnswer(o, f) PROVE CdIInv'
  <2> DEFINE kind == IF cdFlow[f].method = "browser" THEN "callback" ELSE "poll"
             p == cdFlow[f].prov
  <2>1. /\ CdBegin(o, kind, p, f, "ask", NoCredential)
        /\ UNCHANGED <<cdStore, cdMethod, cdFlow, cdAge, cdValid, cdIssued>>
    BY <1>6 DEF CdAnswer
  <2>2. p \in CdProviders
    BY <1>b DEF CdFlowRecords
  <2>3. kind \in CdKinds /\ kind \in Flowing /\ kind \notin Directs /\ kind # "use"
    BY DEF CdKinds, Flowing, Directs
  <2> HIDE DEF kind, p
  <2>4. QED
    BY <1>5, <1>c, <2>1, <2>2, <2>3
<1>7. ASSUME NEW o \in CdOps, NEW kind \in Directs, CdDirect(o, kind) PROVE CdIInv'
  <2> DEFINE p == DirectLogin(kind).prov
  <2>1. /\ CdBegin(o, kind, p, "none", "ask", NoCredential)
        /\ UNCHANGED <<cdStore, cdMethod, cdFlow, cdAge, cdValid, cdIssued>>
    BY <1>7 DEF CdDirect
  <2>2. p \in CdProviders
    BY DirectFacts
  <2>3. kind \in CdKinds /\ kind \notin Flowing /\ kind # "use"
    BY DEF CdKinds, Flowing, Directs
  <2>4. p = DirectLogin(kind).prov
    OBVIOUS
  <2> HIDE DEF p
  <2>5. QED
    BY <1>5, <1>c, <2>1, <2>2, <2>3, <2>4
<1>8. ASSUME NEW o \in CdOps, NEW p \in CdProviders, NEW alias \in BOOLEAN, CdLogout(o, p, alias) PROVE CdIInv'
  <2> DEFINE kind == IF alias THEN "logoutByAlias" ELSE "logout"
  <2>1. /\ CdBegin(o, kind, p, "none", "load", NoCredential)
        /\ UNCHANGED <<cdStore, cdMethod, cdFlow, cdAge, cdValid, cdIssued>>
    BY <1>8 DEF CdLogout
  <2>2. kind \in CdKinds /\ kind \notin Flowing /\ kind # "use" /\ kind \notin Directs
    BY DEF CdKinds, Flowing, Directs
  <2> HIDE DEF kind
  <2>3. QED
    BY <1>5, <1>c, <2>1, <2>2
<1>9. ASSUME NEW o \in CdOps, NEW p \in CdProviders, CdUse(o, p) PROVE CdIInv'
  <2> DEFINE c == cdStore[p]
             due == c.token > 0 /\ cdAge[c.token] > 0
             pc == IF due /\ c.refresh > 0 THEN "ask" ELSE "served"
  <2>1. /\ CdBegin(o, "use", p, "none", pc, c)
        /\ UNCHANGED <<cdStore, cdMethod, cdFlow, cdAge, cdValid, cdIssued>>
    BY <1>9 DEF CdUse
  <2>2. c \in CdCredentials /\ Identified(p, c)
    BY <1>a, <1>b
  <2>3. pc \in {"ask", "served"} /\ (pc = "ask" => c.refresh > 0)
    OBVIOUS
  <2> HIDE DEF c, pc
  <2>4. pc = "ask" => c.refresh > 0 /\ c.account
    BY <2>2, <2>3 DEF Identified
  <2>5. "use" \in CdKinds /\ "use" \notin Flowing /\ "use" \notin Directs
    BY DEF CdKinds, Flowing, Directs
  <2>6. QED
    BY <1>5, <2>1, <2>2, <2>3, <2>4, <2>5
\* An operation ends
<1>10. ASSUME NEW o \in CdOps, NEW r \in {"none", "ok", "error", "pending"}, CdEnd(o, r), FlowsGoOn,
              cdMethod' \in [CdProviders -> CdMethods], UNCHANGED <<cdStore, cdAge, cdValid, cdIssued, cdBegun>>
       PROVE  CdIInv'
  <2>1. cdOp' = [cdOp EXCEPT ![o] = [IdleOp EXCEPT !.result = r]]
    BY <1>10 DEF CdEnd
  <2> DEFINE k == [IdleOp EXCEPT !.result = r]
  <2>2. k \in CdOpRecords /\ CdAhead(k, cdFlow') /\ cdOp' = [cdOp EXCEPT ![o] = k]
    BY <2>1, IdleOps
  <2> HIDE DEF k
  <2>3. QED
    BY <1>a, <1>b, <1>10, <2>2, OneOpStep
<1>11. ASSUME NEW o \in CdOps, CdRefused(o) PROVE CdIInv'
  <2>1. UNCHANGED <<cdStore, cdMethod, cdAge, cdValid, cdIssued, cdBegun>>
    BY <1>11 DEF CdRefused
  <2>2. CASE Fail(o)
    <3>1. CdEnd(o, "error") /\ cdFlow' = Settle(o, "error")
      BY <2>2 DEF Fail
    <3>2. FlowsGoOn
      BY <3>1, Settled
    <3>3. QED
      BY <1>10, <1>b, <2>1, <3>1, <3>2
  <2>3. CASE CdEnd(o, "pending") /\ UNCHANGED cdFlow
    BY <1>10, <1>a, <1>b, <2>1, <2>3, FlowStays
  <2>4. QED
    BY <1>11, <2>2, <2>3 DEF CdRefused
<1>12. ASSUME NEW o \in CdOps, CdFileFails(o) PROVE CdIInv'
  <2>1. UNCHANGED <<cdStore, cdMethod, cdAge, cdValid, cdIssued, cdBegun>>
    BY <1>12 DEF CdFileFails
  <2>2. CASE Fail(o)
    <3>1. CdEnd(o, "error") /\ cdFlow' = Settle(o, "error")
      BY <2>2 DEF Fail
    <3>2. FlowsGoOn
      BY <3>1, Settled
    <3>3. QED
      BY <1>10, <1>b, <2>1, <3>1, <3>2
  <2>3. CASE CdEnd(o, "ok") /\ UNCHANGED cdFlow
    BY <1>10, <1>a, <1>b, <2>1, <2>3, FlowStays
  <2>4. QED
    BY <1>12, <2>2, <2>3 DEF CdFileFails
<1>13. ASSUME NEW o \in CdOps, CdServed(o) PROVE CdIInv'
  <2>1. PICK r \in {"error", "ok"} : CdEnd(o, r)
    BY <1>13 DEF CdServed
  <2>2. UNCHANGED <<cdStore, cdMethod, cdFlow, cdAge, cdValid, cdIssued, cdBegun>>
    BY <1>13 DEF CdServed
  <2>3. QED
    BY <1>10, <1>a, <1>b, <2>1, <2>2, FlowStays
<1>14. ASSUME NEW o \in CdOps, CdSaveConfig(o) PROVE CdIInv'
  <2> DEFINE k == cdOp[o]
             m == CASE k.kind \in Directs -> DirectLogin(k.kind).method [] k.kind \in Flowing -> "oauth"
                    [] OTHER -> "none"
  <2>1. /\ k.pc = "saveConfig" /\ CdEnd(o, "ok") /\ cdFlow' = Settle(o, "success")
        /\ cdMethod' = [k.method EXCEPT ![k.prov] = m]
        /\ UNCHANGED <<cdStore, cdAge, cdValid, cdIssued, cdBegun>>
    BY <1>14 DEF CdSaveConfig
  <2>2. FlowsGoOn
    BY <2>1, Settled
  <2>3. k.method \in [CdProviders -> CdMethods]
    BY <1>a, <2>1 DEF CdAhead
  <2>4. m \in CdMethods
    BY DirectFacts DEF CdMethods
  <2>5. cdMethod' \in [CdProviders -> CdMethods]
    BY <2>1, <2>3, <2>4
  <2>6. QED
    BY <1>10, <2>1, <2>2, <2>5
\* An operation goes on
<1>15. ASSUME NEW o \in CdOps, CdLoad(o) PROVE CdIInv'
  <2> DEFINE k == [cdOp[o] EXCEPT !.pc = "save", !.store = cdStore]
  <2>1. /\ cdOp[o].pc = "load" /\ cdOp' = [cdOp EXCEPT ![o] = k]
        /\ UNCHANGED <<cdStore, cdMethod, cdFlow, cdAge, cdValid, cdIssued, cdBegun>>
    BY <1>15 DEF CdLoad
  <2>2. cdOp[o] \in CdOpRecords /\ CdAhead(cdOp[o], cdFlow)
    BY <1>a, <1>b
  <2>3. /\ k \in CdOpRecords /\ k.kind = cdOp[o].kind /\ k.prov = cdOp[o].prov /\ k.flow = cdOp[o].flow
        /\ k.pc = "save" /\ k.cred = cdOp[o].cred /\ k.store = cdStore
    BY <1>b, <2>2 DEF CdOpRecords, CdPcs
  <2> HIDE DEF k
  <2>4. CdAhead(k, cdFlow')
    BY <1>a, <1>b, <2>1, <2>2, <2>3 DEF CdAhead
  <2>5. FlowsGoOn
    BY <1>a, <2>1, FlowStays
  <2>6. QED
    BY <1>a, <1>b, <2>1, <2>3, <2>4, <2>5, OneOpStep
<1>16. ASSUME NEW o \in CdOps, CdLoadConfig(o) PROVE CdIInv'
  <2> DEFINE k == [cdOp[o] EXCEPT !.pc = "saveConfig", !.method = cdMethod]
  <2>1. /\ cdOp[o].pc = "loadConfig" /\ cdOp' = [cdOp EXCEPT ![o] = k]
        /\ UNCHANGED <<cdStore, cdMethod, cdFlow, cdAge, cdValid, cdIssued, cdBegun>>
    BY <1>16 DEF CdLoadConfig
  <2>2. cdOp[o] \in CdOpRecords /\ CdAhead(cdOp[o], cdFlow)
    BY <1>a, <1>b
  <2>3. /\ k \in CdOpRecords /\ k.kind = cdOp[o].kind /\ k.prov = cdOp[o].prov /\ k.flow = cdOp[o].flow
        /\ k.pc = "saveConfig" /\ k.method = cdMethod
    BY <1>b, <2>2 DEF CdOpRecords, CdPcs
  <2> HIDE DEF k
  <2>4. CdAhead(k, cdFlow')
    BY <1>a, <1>b, <2>1, <2>2, <2>3 DEF CdAhead
  <2>5. FlowsGoOn
    BY <1>a, <2>1, FlowStays
  <2>6. QED
    BY <1>a, <1>b, <2>1, <2>3, <2>4, <2>5, OneOpStep
<1>17. ASSUME NEW o \in CdOps, CdSave(o) PROVE CdIInv'
  <2> DEFINE old == cdOp[o]
             after == IF old.kind = "use" THEN "served" ELSE "loadConfig"
             k == [old EXCEPT !.pc = after, !.store = <<>>]
  <2>1. /\ old.pc = "save" /\ cdOp' = [cdOp EXCEPT ![o] = k]
        /\ cdStore' = CASE old.kind = "logoutByAlias" -> old.store
                        [] OTHER -> [old.store EXCEPT ![old.prov] = old.cred]
        /\ cdFlow' = IF old.kind \in Flowing THEN [cdFlow EXCEPT ![old.flow].saved = TRUE] ELSE cdFlow
        /\ UNCHANGED <<cdMethod, cdAge, cdValid, cdIssued, cdBegun>>
    BY <1>17 DEF CdSave
  <2>2. old \in CdOpRecords /\ CdAhead(old, cdFlow)
    BY <1>a, <1>b
  <2>3. after \in {"served", "loadConfig"} /\ (old.kind \in Flowing => after = "loadConfig")
    BY DEF Flowing
  <2> HIDE DEF after
  <2>4. /\ k \in CdOpRecords /\ k.kind = old.kind /\ k.prov = old.prov /\ k.flow = old.flow /\ k.pc = after
    BY <2>2, <2>3 DEF CdOpRecords, CdPcs
  <2>5. /\ old.store \in [CdProviders -> CdCredentials] /\ \A p \in CdProviders : Identified(p, old.store[p])
        /\ old.prov \in CdProviders /\ old.cred \in CdCredentials /\ Identified(old.prov, old.cred)
        /\ old.kind \in Flowing => old.flow \in CdFlows /\ ~cdFlow[old.flow].code
        /\ old.kind \in Directs => old.prov = DirectLogin(old.kind).prov
    BY <2>1, <2>2 DEF CdAhead, CdOpRecords
  <2> HIDE DEF k, old
  <2>6. cdStore' \in [CdProviders -> CdCredentials] /\ \A p \in CdProviders : Identified(p, cdStore'[p])
    <3>1. CASE old.kind = "logoutByAlias"
      BY <2>1, <2>5, <3>1
    <3>2. CASE old.kind # "logoutByAlias"
      <4>1. cdStore' = [old.store EXCEPT ![old.prov] = old.cred]
        BY <2>1, <3>2
      <4>2. QED
        BY <2>5, <4>1
    <3>3. QED
      BY <3>1, <3>2
  <2>7. FlowsGoOn /\ (old.kind \in Flowing => cdFlow'[old.flow].saved /\ ~cdFlow'[old.flow].code)
    <3>1. CASE old.kind \in Flowing
      <4> DEFINE f == old.flow
                 g == [cdFlow[f] EXCEPT !.saved = TRUE]
      <4>1. f \in CdFlows /\ ~cdFlow[f].code /\ cdFlow' = [cdFlow EXCEPT ![f] = g]
        BY <2>1, <2>5, <3>1
      <4>2. cdFlow[f] \in CdFlowRecords /\ cdFlow[f].method \in FlowMethods(cdFlow[f].prov)
        BY <1>a, <1>b, <4>1 DEF CdTypes
      <4>3. /\ g \in CdFlowRecords /\ g.saved /\ g.code = cdFlow[f].code /\ g.method = cdFlow[f].method
            /\ g.prov = cdFlow[f].prov /\ g.status = cdFlow[f].status
        BY <4>2 DEF CdFlowRecords
      <4> HIDE DEF f, g
      <4>4. FlowsGoOn /\ cdFlow'[f] = g
        BY <1>a, <4>1, <4>2, <4>3, OneFlow
      <4>5. QED
        BY <4>1, <4>3, <4>4 DEF f
    <3>2. CASE old.kind \notin Flowing
      BY <1>a, <2>1, <3>2, FlowStays
    <3>3. QED
      BY <3>1, <3>2
  <2>8. CdAhead(k, cdFlow')
    BY <2>3, <2>4, <2>5, <2>7 DEF CdAhead
  <2>9. QED
    BY <1>a, <1>b, <2>1, <2>4, <2>6, <2>7, <2>8, OneOpStep
<1>18. ASSUME NEW o \in CdOps, NEW rotates \in BOOLEAN, CdAsked(o, rotates) PROVE CdIInv'
  <2> DEFINE old == cdOp[o]
             new == cdIssued + 1
             refreshed == old.kind \in Directs => DirectLogin(old.kind).refresh
             cred == IF old.kind = "use" THEN Refreshed(old.cred, new, rotates)
                     ELSE [token |-> new, refresh |-> IF refreshed THEN new ELSE 0, account |-> refreshed]
             k == [old EXCEPT !.pc = "load", !.cred = cred]
  <2>1. /\ old.pc = "ask" /\ new <= CdMaxTokens /\ cdIssued' = new
        /\ cdOp' = [cdOp EXCEPT ![o] = k]
        /\ cdFlow' = IF old.kind \in Flowing THEN [cdFlow EXCEPT ![old.flow].code = FALSE] ELSE cdFlow
        /\ cdValid' = IF old.kind = "use" /\ rotates THEN (cdValid \ {old.cred.refresh}) \cup {new}
                      ELSE IF old.kind # "use" /\ cred.refresh > 0 THEN cdValid \cup {new} ELSE cdValid
        /\ UNCHANGED <<cdStore, cdMethod, cdAge, cdBegun>>
    BY <1>18 DEF CdAsked
  <2>2. old \in CdOpRecords /\ CdAhead(old, cdFlow)
    BY <1>a, <1>b
  <2>3. new \in 0..CdMaxTokens /\ new > 0
    BY <1>b, <2>1
  <2>4. /\ cdIssued' \in 0..CdMaxTokens /\ cdValid' \subseteq 1..cdIssued'
    <3>1. cdValid' \subseteq cdValid \cup {new}
      BY <2>1
    <3>2. cdValid \cup {new} \subseteq 1..new
      BY <1>b, <2>3
    <3>3. QED
      BY <2>1, <2>3, <3>1, <3>2
  <2>5. cred \in CdCredentials /\ Identified(old.prov, cred)
    <3>1. CASE old.kind = "use"
      <4>1. old.cred.refresh > 0 /\ old.cred.account /\ old.cred \in CdCredentials
        BY <2>1, <2>2, <3>1 DEF CdAhead, CdOpRecords
      <4>2. old.cred.refresh \in 0..CdMaxTokens /\ old.cred.account = TRUE
        BY <4>1 DEF CdCredentials
      <4> DEFINE n == IF rotates THEN new ELSE old.cred.refresh
      <4>3. n \in 0..CdMaxTokens /\ n > 0
        BY <2>3, <4>1, <4>2
      <4>4. cred = [token |-> new, refresh |-> n, account |-> old.cred.account]
        BY <3>1 DEF Refreshed
      <4> HIDE DEF n, new, cred
      <4>5. QED
        BY <2>3, <4>2, <4>3, <4>4 DEF CdCredentials, Identified
    <3>2. CASE old.kind # "use"
      <4> DEFINE n == IF refreshed THEN new ELSE 0
      <4>1. cred = [token |-> new, refresh |-> n, account |-> refreshed]
        BY <3>2
      <4>2. n \in 0..CdMaxTokens /\ (n > 0 <=> refreshed) /\ refreshed \in BOOLEAN
        BY <1>b, <2>3
      <4>3. old.prov = "googleAntigravity" => refreshed
        <5>1. CASE old.kind \in Directs
          BY <2>2, <5>1, DirectFacts DEF CdAhead
        <5>2. QED
          BY <5>1
      <4> HIDE DEF n, new, cred, refreshed
      <4>4. QED
        BY <2>3, <4>1, <4>2, <4>3 DEF CdCredentials, Identified
    <3>3. QED
      BY <3>1, <3>2
  <2> HIDE DEF new, cred
  <2>6. /\ k \in CdOpRecords /\ k.kind = old.kind /\ k.prov = old.prov /\ k.flow = old.flow
        /\ k.pc = "load" /\ k.cred = cred
    BY <2>2, <2>5 DEF CdOpRecords, CdPcs
  <2>7. /\ old.kind \in Flowing => old.flow \in CdFlows
        /\ old.kind \in Directs => old.prov = DirectLogin(old.kind).prov
    BY <2>2 DEF CdAhead
  <2> HIDE DEF k, old
  <2>8. FlowsGoOn /\ (old.kind \in Flowing => ~cdFlow'[old.flow].code)
    <3>1. CASE old.kind \in Flowing
      <4> DEFINE f == old.flow
                 g == [cdFlow[f] EXCEPT !.code = FALSE]
      <4>1. f \in CdFlows /\ cdFlow' = [cdFlow EXCEPT ![f] = g]
        BY <2>1, <2>7, <3>1
      <4>2. cdFlow[f] \in CdFlowRecords /\ cdFlow[f].method \in FlowMethods(cdFlow[f].prov)
        BY <1>a, <1>b, <4>1 DEF CdTypes
      <4>3. /\ g \in CdFlowRecords /\ ~g.code /\ g.saved = cdFlow[f].saved /\ g.method = cdFlow[f].method
            /\ g.prov = cdFlow[f].prov /\ g.status = cdFlow[f].status
        BY <4>2 DEF CdFlowRecords
      <4> HIDE DEF f, g
      <4>4. FlowsGoOn /\ cdFlow'[f] = g
        BY <1>a, <4>1, <4>2, <4>3, OneFlow
      <4>5. QED
        BY <4>3, <4>4 DEF f
    <3>2. CASE old.kind \notin Flowing
      BY <1>a, <2>1, <3>2, FlowStays
    <3>3. QED
      BY <3>1, <3>2
  <2>9. CdAhead(k, cdFlow')
    BY <2>5, <2>6, <2>7, <2>8 DEF CdAhead
  <2>10. QED
    BY <1>a, <1>b, <2>1, <2>4, <2>6, <2>8, <2>9, OneOpStep
<1>19. CASE UNCHANGED cdVars
  BY <1>1, <1>a, <1>b, <1>19, FlowStays DEF cdVars
<1>20. QED
  BY <1>2, <1>3, <1>4, <1>6, <1>7, <1>8, <1>9, <1>11, <1>12, <1>13, <1>14, <1>15, <1>16, <1>17, <1>18, <1>19
     DEF CdNext

(* A flow shows success only when its credential is stored, and a credential  *)
(* keeps its account and its refresh token through every refresh.             *)
THEOREM CredentialsCorrect == CdSpec => []CdInv
<1>1. CdInit => CdIInv
  <2> SUFFICES ASSUME CdInit PROVE CdIInv
    OBVIOUS
  <2>1. PICK before \in SUBSET CdProviders :
          /\ Cardinality(before) <= 1
          /\ cdStore = [p \in CdProviders |->
               IF p \in before THEN [token |-> 1, refresh |-> 1, account |-> TRUE] ELSE NoCredential]
          /\ cdMethod = [p \in CdProviders |-> IF p \in before THEN "oauth" ELSE "none"]
          /\ cdIssued = Cardinality(before) /\ cdValid = 1..cdIssued
    BY DEF CdInit
  <2>2. IsFiniteSet(CdProviders)
    <3>1. IsFiniteSet({} \cup {"openai"})
      BY FS_EmptySet, FS_AddElement, Zenon
    <3>2. IsFiniteSet(({} \cup {"openai"}) \cup {"anthropic"})
      BY <3>1, FS_AddElement, Zenon
    <3>3. IsFiniteSet((({} \cup {"openai"}) \cup {"anthropic"}) \cup {"googleAntigravity"})
      BY <3>2, FS_AddElement, Zenon
    <3>4. CdProviders = (({} \cup {"openai"}) \cup {"anthropic"}) \cup {"googleAntigravity"}
      BY DEF CdProviders
    <3>5. QED
      BY <3>3, <3>4, Zenon
  <2>3. Cardinality(before) \in Nat
    BY <2>2, FS_Subset, FS_CardinalityType
  <2>4. cdIssued \in 0..CdMaxTokens /\ cdValid \subseteq 1..cdIssued
    BY <2>1, <2>3, CdAssumption
  <2>5. /\ NoCredential \in CdCredentials /\ \A p \in CdProviders : Identified(p, NoCredential)
        /\ IdleOp \in CdOpRecords
    BY IdleOps
  <2> DEFINE first == [token |-> 1, refresh |-> 1, account |-> TRUE]
  <2>6. first \in CdCredentials /\ \A p \in CdProviders : Identified(p, first)
    BY CdAssumption DEF CdCredentials, Identified
  <2>7. cdStore = [p \in CdProviders |-> IF p \in before THEN first ELSE NoCredential]
    BY <2>1
  <2> HIDE DEF first
  <2>8. cdStore \in [CdProviders -> CdCredentials] /\ \A p \in CdProviders : Identified(p, cdStore[p])
    BY <2>5, <2>6, <2>7
  <2>9. cdMethod \in [CdProviders -> CdMethods]
    BY <2>1 DEF CdMethods
  <2>10. /\ cdFlow \in [CdFlows -> CdFlowRecords]
         /\ \A f \in CdFlows : cdFlow[f].method \in FlowMethods(cdFlow[f].prov) /\ cdFlow[f].status = "none"
    BY DEF CdInit, CdFlowRecords, FlowMethods, CdProviders
  <2>11. cdOp = [o \in CdOps |-> IdleOp] /\ cdAge = [t \in 1..CdMaxTokens |-> 0] /\ cdBegun = 0
    BY DEF CdInit
  <2>12. \A o \in CdOps : CdAhead(cdOp[o], cdFlow)
    BY <2>11 DEF IdleOp, CdAhead, Flowing, Directs
  <2>13. CdTypes
    BY <2>4, <2>5, <2>8, <2>9, <2>10, <2>11, CdAssumption DEF CdTypes
  <2>14. SuccessIsStored
    BY <2>10 DEF SuccessIsStored
  <2>15. QED
    BY <2>8, <2>12, <2>13, <2>14 DEF CdIInv
<1>2. CdIInv => CdInv
  <2> SUFFICES ASSUME CdIInv PROVE CdInv
    OBVIOUS
  <2>1. CdTypes /\ SuccessIsStored /\ \A p \in CdProviders : Identified(p, cdStore[p])
    BY DEF CdIInv
  <2>2. CdTypeOK
    BY <2>1 DEF CdTypes, CdTypeOK, CdMethods, CdFlowRecords, CdOpRecords
  <2>3. IdentityIsKept
    BY <2>1 DEF IdentityIsKept, Identified, CdProviders
  <2>4. QED
    BY <2>1, <2>2, <2>3 DEF CdInv
<1>3. QED
  BY <1>1, <1>2, CdStepIInv, PTL DEF CdSpec

----------------------------------------------------------------------------
(* The launcher of the web console.                                           *)

(* Its children: types, and who told whom to stop.                            *)
RunRecords == [st : {"none", "booting", "serving", "deaf", "ended", "gone"},
               term : BOOLEAN, wait : {"none", "waiting", "cleared", "done"},
               probe : {"none", "waiting", "asking", "done"}, crossed : BOOLEAN]
RequestRecords ==
  [pc : LgOps \cup {"sleeping", "done"},
   answer : {"none", "ok", "failed", "already_running", "not_running", "not_ready"}]

(* The restarts that sleep hold only the handle of a child that was told to   *)
(* stop, or that was started while one of them slept.                         *)
SleepersToldIt ==
  (\E r \in LgRequests : lgReq[r].pc = "sleeping") /\ LgAlive(lgCmd)
    => lgRun[lgCmd].term \/ lgRun[lgCmd].crossed

ProcessesOK ==
  /\ lgCmd \in 0..LgMaxRuns
  /\ lgRun \in [LgRuns -> RunRecords]
  /\ lgReq \in [LgRequests -> RequestRecords]
  /\ OrphansAreStopping /\ SleepersToldIt

LgEvents == {"starting", "running", "stopped"}

(* The events of the page.                                                    *)
PageOK ==
  /\ lgPage \in [pc : {"none", "logs", "subscribed", "open"}, queue : Seq(LgEvents),
                 shown : LgEvents \cup {"none"}]
  /\ Len(lgPage.queue) <= LgBuffer

(* Types of the log and of its page. *)
LogTypes ==
  /\ lgLog \in [run : Nat, total : Nat, lines : Seq(Nat), ever : Nat]
  /\ lgPoll \in [pc : {"off", "idle", "offset"}, offset : Nat, run : Nat, last : Nat,
                 ordered : BOOLEAN]

(* The slot of the i-th line since the last reset.                            *)
LgSlot(i) == ((i - 1) % LgCapacity) + 1

(* The buffer holds the newest lines, each in its slot: the i-th line since   *)
(* the reset is number ever - total + i of all lines there were.              *)
RingHoldsTheNewest ==
  /\ lgLog.total <= lgLog.ever
  /\ Len(lgLog.lines) = IF lgLog.total <= LgCapacity THEN lgLog.total ELSE LgCapacity
  /\ \A i \in 1..lgLog.total :
       i + LgCapacity > lgLog.total
         => lgLog.lines[LgSlot(i)] = (lgLog.ever - lgLog.total) + i

(* What the page has shown comes before every line its next poll can bring:   *)
(* those after its offset, or all of them when it is to see a new run.        *)
ShownIsBehind ==
  /\ lgPoll.last <= lgLog.ever /\ lgPoll.run <= lgLog.run
  /\ lgPoll.last <= (lgLog.ever - lgLog.total)
       + (IF lgPoll.pc = "idle" /\ lgPoll.run # lgLog.run THEN 0 ELSE lgPoll.offset)

LogOK == LogTypes /\ RingHoldsTheNewest /\ ShownIsBehind /\ lgPoll.ordered

LgIInv == ProcessesOK /\ PageOK /\ LogOK

----------------------------------------------------------------------------
(* Arithmetic of the ring.                                                    *)
LEMMA Products ==
    ASSUME NEW x \in Nat, NEW y \in Nat
    PROVE  x * y \in Nat
  OBVIOUS

(* Division with remainder.                                                   *)
LEMMA Division ==
    ASSUME NEW a \in Nat, NEW c \in Nat \ {0}
    PROVE  \E q \in Nat : a = c * q + (a % c) /\ a % c \in 0..(c - 1)
<1> DEFINE q == a \div c
<1>1. q \in Nat
  OBVIOUS
<1>2. a % c = a - c * q /\ a % c \in 0..(c-1)
  OBVIOUS
<1> HIDE DEF q
<1>3. c * q \in Nat
  BY <1>1, Products
<1>4. a = c * q + (a % c)
  BY <1>2, <1>3
<1>5. QED
  BY <1>1, <1>2, <1>4

(* The remainder is unique.                                                  *)
LEMMA Remainder ==
    ASSUME NEW a \in Nat, NEW c \in Nat \ {0}, NEW q \in Nat, NEW r \in 0..(c-1), a = c * q + r
    PROVE  a % c = r
  OBVIOUS

(* A remainder is its own remainder.                                          *)
LEMMA SmallRemainder ==
    ASSUME NEW c \in Nat \ {0}, NEW r \in 0..(c - 1)
    PROVE  r % c = r
<1>1. c * 0 = 0
  OBVIOUS
<1>2. QED
  BY <1>1, Remainder

(* Multiples of c are at least c apart.                                       *)
LEMMA Multiples ==
    ASSUME NEW q \in Int, NEW c \in Nat \ {0}, NEW p \in Int, p < q
    PROVE  c * q - c * p >= c
<1>1. q - p >= 1
  OBVIOUS
<1>2. q - p - 1 >= 0 /\ c >= 0
  OBVIOUS
<1>3. c * (q - p - 1) >= 0
  BY <1>2
<1>4. c * (q-p-1) = c*q - c*p - c
  OBVIOUS
<1>5. QED
  BY <1>3, <1>4

(* Numbers less than c apart have different remainders.                       *)
LEMMA OtherSlot ==
    ASSUME NEW a \in Nat, NEW b \in Nat, NEW c \in Nat \ {0}, a < b, b < a + c
    PROVE  a % c # b % c
<1> SUFFICES ASSUME a % c = b % c PROVE FALSE
  OBVIOUS
<1>1. PICK q \in Nat : a = c * q + (a % c) /\ a % c \in 0..(c - 1)
  BY Division
<1>2. PICK p \in Nat : b = c * p + (b % c) /\ b % c \in 0..(c - 1)
  BY Division
<1> DEFINE x == c * q
           y == c * p
           r == a % c
<1>3. x \in Nat /\ y \in Nat /\ r \in Nat /\ a = x + r /\ b = y + r
  BY <1>1, <1>2
<1>4. q < p => y - x >= c
  BY Multiples
<1>5. p < q => x - y >= c
  BY Multiples
<1>6. p = q => x = y
  OBVIOUS
<1> HIDE DEF x, y, r
<1>7. QED
  BY <1>3, <1>4, <1>5, <1>6

(* A remainder may be taken before an addition.                               *)
LEMMA RemainderOfSum ==
    ASSUME NEW a \in Nat, NEW b \in Nat, NEW c \in Nat \ {0}
    PROVE  ((a % c) + b) % c = (a + b) % c
<1>1. PICK q \in Nat : a = c * q + (a % c) /\ a % c \in 0..(c - 1)
  BY Division
<1> DEFINE s == (a % c) + b
<1>2. s \in Nat
  BY <1>1
<1> HIDE DEF s
<1>3. PICK p \in Nat : s = c * p + (s % c) /\ s % c \in 0..(c - 1)
  BY <1>2, Division
<1> DEFINE x == c * q
           y == c * p
           z == c * (q + p)
<1>4. x + y = z /\ q + p \in Nat
  <2>1. c * (q + p) = c * q + c * p
    OBVIOUS
  <2> QED
    BY <2>1 DEF x, y, z
<1>5. x \in Nat /\ y \in Nat /\ z \in Nat
  <2>1. q + p \in Nat /\ c \in Nat
    OBVIOUS
  <2>2. c * q \in Nat /\ c * p \in Nat
    BY Products
  <2>3. c * (q + p) \in Nat
    BY <2>1, Products
  <2> QED
    BY <2>2, <2>3 DEF x, y, z
<1>6. a = x + (a % c) /\ s = y + (s % c) /\ s = (a % c) + b /\ a % c \in Nat /\ s % c \in Nat
  BY <1>1, <1>3 DEF s
<1> HIDE DEF x, y, z
<1>7. a + b = z + (s % c)
  BY <1>4, <1>5, <1>6
<1>8. (a + b) % c = s % c
  <2>1. a + b = c * (q + p) + (s % c)
    BY <1>7, Zenon DEF z
  <2>2. a + b \in Nat
    OBVIOUS
  <2> DEFINE w == q + p
              rr == s % c
  <2>3. w \in Nat /\ rr \in 0..(c - 1) /\ a + b = c * w + rr
    BY <1>3, <1>4, <2>1
  <2> HIDE DEF w, rr
  <2>4. (a + b) % c = rr
    BY <2>2, <2>3, Remainder
  <2> QED
    BY <2>4 DEF rr
<1>9. QED
  BY <1>8 DEF s

----------------------------------------------------------------------------
(* A line of a child, with or without room for it.                            *)
LEMMA RingTakesLine ==
    ASSUME LogTypes, RingHoldsTheNewest, NEW n, LgLine(n)
    PROVE  /\ lgLog' \in [run : Nat, total : Nat, lines : Seq(Nat), ever : Nat]
           /\ RingHoldsTheNewest'
           /\ lgLog'.run = lgLog.run /\ lgLog'.ever = lgLog.ever + 1 /\ lgLog'.total = lgLog.total + 1
<1> DEFINE total == lgLog.total
           ever == lgLog.ever
           lines == lgLog.lines
           slot == (lgLog.total % LgCapacity) + 1
           after == IF Len(lines) < LgCapacity THEN Append(lines, ever + 1)
                    ELSE [lines EXCEPT ![slot] = ever + 1]
<1>1. /\ lgLog \in [run : Nat, total : Nat, lines : Seq(Nat), ever : Nat]
      /\ total \in Nat /\ ever \in Nat /\ lines \in Seq(Nat) /\ LgCapacity \in Nat \ {0}
  BY LgAssumption DEF LogTypes
<1>2. /\ total <= ever /\ Len(lines) = IF total <= LgCapacity THEN total ELSE LgCapacity
      /\ \A i \in 1..total : i + LgCapacity > total => lines[LgSlot(i)] = (ever - total) + i
  BY DEF RingHoldsTheNewest
<1>3. lgLog' = [lgLog EXCEPT !.ever = ever + 1, !.total = total + 1, !.lines = after]
  BY <1>1 DEF LgLine
<1>4. slot = LgSlot(total + 1) /\ slot \in 1..LgCapacity
  BY <1>1 DEF LgSlot
<1> HIDE DEF slot, total, ever, lines
<1>5. /\ after \in Seq(Nat)
      /\ Len(after) = IF total + 1 <= LgCapacity THEN total + 1 ELSE LgCapacity
      /\ \A i \in 1..(total + 1) :
           i + LgCapacity > total + 1 => after[LgSlot(i)] = (ever - total) + i
  <2>1. CASE total < LgCapacity
    <3>1. after = Append(lines, ever + 1) /\ Len(lines) = total
      BY <1>1, <1>2, <2>1
    <3>2. /\ after \in Seq(Nat) /\ Len(after) = total + 1
          /\ \A i \in 1..total : after[i] = lines[i]
          /\ after[total + 1] = ever + 1
      <4> DEFINE line == ever + 1
      <4>1. line \in Nat /\ after = Append(lines, line)
        BY <1>1, <3>1
      <4> HIDE DEF line, after
      <4>2. /\ Append(lines, line) \in Seq(Nat) /\ Len(Append(lines, line)) = Len(lines) + 1
            /\ \A i \in 1..Len(lines) : Append(lines, line)[i] = lines[i]
            /\ Append(lines, line)[Len(lines) + 1] = line
        BY <1>1, <4>1, AppendProperties
      <4>3. QED
        BY <3>1, <4>1, <4>2 DEF line
    <3>3. ASSUME NEW i \in 1..(total + 1) PROVE after[LgSlot(i)] = (ever - total) + i
      <4>1. i - 1 \in 0..(LgCapacity - 1)
        BY <1>1, <2>1
      <4>2. (i - 1) % LgCapacity = i - 1
        BY <1>1, <4>1, SmallRemainder
      <4>3. LgSlot(i) = i
        BY <4>2 DEF LgSlot
      <4>4. CASE i = total + 1
        BY <1>1, <3>2, <4>3, <4>4
      <4>5. CASE i \in 1..total
        <5>1. lines[i] = (ever - total) + i
          BY <1>1, <1>2, <2>1, <4>3, <4>5
        <5>2. QED
          BY <3>2, <4>3, <4>5, <5>1
      <4>6. i = total + 1 \/ i \in 1..total
        BY <1>1
      <4>7. QED
        BY <4>4, <4>5, <4>6
    <3>4. total + 1 <= LgCapacity
      BY <1>1, <2>1
    <3>5. QED
      BY <3>2, <3>3, <3>4
  <2>2. CASE ~(total < LgCapacity)
    <3>1. after = [lines EXCEPT ![slot] = ever + 1] /\ Len(lines) = LgCapacity
      BY <1>1, <1>2, <2>2
    <3>2. ever + 1 \in Nat /\ slot \in 1..Len(lines)
      BY <1>1, <1>4, <3>1
    <3>3. /\ after \in Seq(Nat) /\ Len(after) = LgCapacity
          /\ \A k \in 1..Len(lines) : after[k] = IF k = slot THEN ever + 1 ELSE lines[k]
      BY <1>1, <3>1, <3>2, ExceptSeq
    <3>4. ASSUME NEW i \in 1..(total + 1), i + LgCapacity > total + 1
          PROVE  after[LgSlot(i)] = (ever - total) + i
      <4>1. LgSlot(i) \in 1..Len(lines)
        BY <1>1, <3>1 DEF LgSlot
      <4>2. CASE i = total + 1
        BY <1>1, <1>4, <3>3, <4>1, <4>2
      <4>3. CASE i \in 1..total
        <5>1. i - 1 \in Nat /\ i - 1 < total /\ total < (i - 1) + LgCapacity
          BY <1>1, <3>4, <4>3
        <5>2. (i - 1) % LgCapacity # total % LgCapacity
          BY <1>1, <5>1, OtherSlot
        <5>3. (i - 1) % LgCapacity \in Nat /\ total % LgCapacity \in Nat
          BY <1>1, <5>1
        <5>4. LgSlot(i) # slot
          BY <5>2, <5>3 DEF LgSlot, slot, total
        <5>5. lines[LgSlot(i)] = (ever - total) + i
          BY <1>1, <1>2, <3>4, <4>3
        <5>6. QED
          BY <3>3, <4>1, <5>4, <5>5
      <4>4. i = total + 1 \/ i \in 1..total
        BY <1>1
      <4>5. QED
        BY <4>2, <4>3, <4>4
    <3>5. ~(total + 1 <= LgCapacity)
      BY <1>1, <2>2
    <3>6. QED
      BY <3>3, <3>4, <3>5
  <2>3. QED
    BY <2>1, <2>2
<1> HIDE DEF after
<1>6. /\ lgLog'.run = lgLog.run /\ lgLog'.ever = ever + 1 /\ lgLog'.total = total + 1
      /\ lgLog'.lines = after
      /\ lgLog' \in [run : Nat, total : Nat, lines : Seq(Nat), ever : Nat]
  <2>1. total + 1 \in Nat /\ ever + 1 \in Nat
    BY <1>1
  <2>2. lgLog.run \in Nat
    BY <1>1
  <2>3. QED
    BY <1>1, <1>3, <1>5, <2>1, <2>2
<1>7. total + 1 <= ever + 1 /\ (ever + 1) - (total + 1) = ever - total
  BY <1>1, <1>2
<1>8. RingHoldsTheNewest'
  BY <1>5, <1>6, <1>7 DEF RingHoldsTheNewest, LgSlot, total, ever
<1>9. QED
  BY <1>6, <1>8 DEF total, ever

(* What LinesSince returns: the lines up to the newest, in order, no more of  *)
(* them than came after the offset.                                           *)
LEMMA LinesReturned ==
    ASSUME LogTypes, RingHoldsTheNewest, NEW offset \in Nat
    PROVE  /\ LinesSince(offset) \in Seq(Nat)
           /\ Len(LinesSince(offset)) > 0 => Len(LinesSince(offset)) + offset <= lgLog.total
           /\ \A i \in 1..Len(LinesSince(offset)) :
                LinesSince(offset)[i] = (lgLog.ever - Len(LinesSince(offset))) + i
<1> DEFINE total == lgLog.total
           ever == lgLog.ever
           lines == lgLog.lines
           new == total - offset
           count == IF new > Len(lines) THEN Len(lines) ELSE new
           start == (total - count) % LgCapacity
           from == (Len(lines) - count) + 1
           ring == [i \in 1..count |-> lines[((start + i - 1) % LgCapacity) + 1]]
           L == LinesSince(offset)
<1>1. /\ total \in Nat /\ ever \in Nat /\ lines \in Seq(Nat) /\ LgCapacity \in Nat \ {0}
      /\ total <= ever /\ Len(lines) = IF total <= LgCapacity THEN total ELSE LgCapacity
      /\ \A i \in 1..total : i + LgCapacity > total => lines[LgSlot(i)] = (ever - total) + i
  BY LgAssumption DEF LogTypes, RingHoldsTheNewest
<1>a. L = IF offset >= total THEN <<>>
          ELSE IF total <= LgCapacity THEN SubSeq(lines, from, Len(lines)) ELSE ring
  BY DEF LinesSince
<1> HIDE DEF L, total, ever, lines, new, start
<1>2. CASE offset >= total
  <2>1. L = <<>>
    BY <1>2, <1>a
  <2>2. L \in Seq(Nat) /\ Len(L) = 0
    BY <2>1
  <2>3. QED
    BY <2>2 DEF L, total, ever
<1>3. CASE ~(offset >= total)
  <2>1. count \in 1..Len(lines) /\ count <= total /\ count + offset <= total /\ count <= LgCapacity
    BY <1>1, <1>3 DEF new
  <2> HIDE DEF count
  <2>a. Len(lines) \in Nat /\ count \in Nat
    BY <1>1, <2>1
  <2>2. \A i \in 1..count : /\ (total - count) + i \in 1..total
                            /\ ((total - count) + i) + LgCapacity > total
    BY <1>1, <2>1, <2>a
  <2>3. \A i \in 1..count : lines[LgSlot((total - count) + i)] = (ever - count) + i
    <3> SUFFICES ASSUME NEW i \in 1..count PROVE lines[LgSlot((total - count) + i)] = (ever - count) + i
      OBVIOUS
    <3> DEFINE k == (total - count) + i
    <3>1. k \in 1..total /\ k + LgCapacity > total
      BY <2>2
    <3>2. lines[LgSlot(k)] = (ever - total) + k
      BY <1>1, <3>1
    <3>3. (ever - total) + k = (ever - count) + i
      BY <1>1, <2>1
    <3>4. QED
      BY <3>2, <3>3
  <2>4. CASE total <= LgCapacity
    <3>1. L = SubSeq(lines, from, Len(lines))
      BY <1>a, <1>3, <2>4
    <3>2. /\ from \in Int /\ Len(lines) \in Int /\ Len(lines) = total /\ from <= Len(lines)
          /\ \A i \in from..Len(lines) : i \in 1..Len(lines)
          /\ (Len(lines) - from) + 1 = count
      BY <1>1, <2>1, <2>4, <2>a
    <3>b. \A i \in from..Len(lines) : lines[i] \in Nat
      BY <1>1, <3>2, ElementOfSeq
    <3>c. \A i \in 1..count : (from + i) - 1 = (total - count) + i
      BY <2>a, <3>2, <1>1
    <3> HIDE DEF from
    <3>3. /\ L \in Seq(Nat) /\ Len(L) = count
          /\ \A i \in 1..count : L[i] = lines[(total - count) + i]
      <4>1. /\ L \in Seq(Nat) /\ Len(L) = count
            /\ \A i \in 1..count : L[i] = lines[(from + i) - 1]
        BY <3>1, <3>2, <3>b, SubSeqProperties
      <4>2. QED
        BY <3>c, <4>1
    <3>4. ASSUME NEW i \in 1..count PROVE LgSlot((total - count) + i) = (total - count) + i
      <4>1. ((total - count) + i) - 1 \in 0..(LgCapacity - 1)
        BY <1>1, <2>1, <2>2, <2>4, <2>a
      <4>2. (((total - count) + i) - 1) % LgCapacity = ((total - count) + i) - 1
        BY <1>1, <4>1, SmallRemainder
      <4>3. QED
        BY <1>1, <2>a, <4>2 DEF LgSlot
    <3>5. \A i \in 1..count : L[i] = (ever - count) + i
      BY <2>3, <3>3, <3>4
    <3>6. QED
      BY <2>1, <3>3, <3>5 DEF L, total, ever
  <2>5. CASE ~(total <= LgCapacity)
    <3>1. L = ring
      BY <1>a, <1>3, <2>5
    <3>2. ASSUME NEW i \in 1..count
          PROVE  ((start + i - 1) % LgCapacity) + 1 = LgSlot((total - count) + i)
      <4>1. total - count \in Nat /\ i - 1 \in Nat
        BY <1>1, <2>1, <2>a
      <4>2. (((total - count) % LgCapacity) + (i - 1)) % LgCapacity = ((total - count) + (i - 1)) % LgCapacity
        BY <1>1, <4>1, RemainderOfSum
      <4>3. /\ start \in Nat /\ start + i - 1 = start + (i - 1)
            /\ ((total - count) + i) - 1 = (total - count) + (i - 1)
        <5> DEFINE a == total - count
        <5>1. a \in Nat /\ a % LgCapacity \in Nat
          BY <1>1, <4>1
        <5> HIDE DEF a
        <5>2. start + i - 1 = start + (i - 1) /\ (a + i) - 1 = a + (i - 1) /\ start \in Nat
          BY <5>1 DEF start, a
        <5>3. QED
          BY <5>2 DEF a
      <4>4. QED
        BY <4>2, <4>3 DEF LgSlot, start
    <3>3. \A i \in 1..count : L[i] = (ever - count) + i
      BY <2>3, <3>1, <3>2
    <3>4. \A i \in 1..count : (ever - count) + i \in Nat
      BY <1>1, <2>1, <2>a
    <3>5. L \in [1..count -> Nat]
      BY <3>1, <3>3, <3>4
    <3>6. L \in Seq(Nat) /\ Len(L) = count
      BY <2>a, <3>5
    <3>7. QED
      BY <2>1, <3>3, <3>6 DEF L, total, ever
  <2>6. QED
    BY <2>4, <2>5
<1>4. QED
  BY <1>2, <1>3

(* One element before a sequence.                                            *)
LEMMA Prefixed ==
    ASSUME NEW x \in Nat, NEW s \in Seq(Nat)
    PROVE  /\ <<x>> \o s \in Seq(Nat) /\ Len(<<x>> \o s) = 1 + Len(s)
           /\ (<<x>> \o s)[1] = x
           /\ \A i \in 1..Len(s) : (<<x>> \o s)[i + 1] = s[i]
<1> DEFINE one == <<x>>
<1>1. one \in Seq(Nat) /\ Len(one) = 1 /\ one[1] = x
  OBVIOUS
<1> HIDE DEF one
<1>2. Len(s) \in Nat
  OBVIOUS
<1>3. one \o s \in Seq(Nat) /\ Len(one \o s) = 1 + Len(s)
  BY <1>1, ConcatProperties
<1>4. \A i \in 1..(Len(one) + Len(s)) : (one \o s)[i] = IF i <= Len(one) THEN one[i] ELSE s[i - Len(one)]
  BY <1>1, ConcatProperties, Zenon
<1>5. (one \o s)[1] = x
  BY <1>1, <1>2, <1>4
<1>6. \A i \in 1..Len(s) : (one \o s)[i + 1] = s[i]
  <2> SUFFICES ASSUME NEW i \in 1..Len(s) PROVE (one \o s)[i + 1] = s[i]
    OBVIOUS
  <2>1. i + 1 \in 1..(Len(one) + Len(s)) /\ ~(i + 1 <= Len(one)) /\ (i + 1) - Len(one) = i
    BY <1>1, <1>2
  <2>2. QED
    BY <1>4, <2>1
<1>7. QED
  BY <1>3, <1>5, <1>6 DEF one

(* A poll shows only lines that come after those it has shown.                *)
LEMMA PollShowsInOrder ==
    ASSUME LogTypes, RingHoldsTheNewest, ShownIsBehind, lgPoll.ordered, LgPollLines
    PROVE  /\ lgPoll' \in [pc : {"off", "idle", "offset"}, offset : Nat, run : Nat, last : Nat,
                           ordered : BOOLEAN]
           /\ ShownIsBehind' /\ lgPoll'.ordered
<1> DEFINE L == LinesSince(lgPoll.offset)
           both == <<lgPoll.last>> \o L
           inOrder == \A i \in 1..Len(L) : both[i] < both[i + 1]
           ever == lgLog.ever
           total == lgLog.total
           last == lgPoll.last
           offset == lgPoll.offset
<1>1. /\ ever \in Nat /\ total \in Nat /\ last \in Nat /\ offset \in Nat /\ total <= ever
      /\ lgLog.run \in Nat
  BY DEF LogTypes, RingHoldsTheNewest
<1>2. lgPoll.pc = "offset" /\ last <= ever /\ last <= (ever - total) + offset
  BY DEF LgPollLines, ShownIsBehind
<1>3. /\ L \in Seq(Nat)
      /\ Len(L) > 0 => Len(L) + offset <= total
      /\ \A i \in 1..Len(L) : L[i] = (ever - Len(L)) + i
  BY <1>1, LinesReturned
<1>4. /\ lgPoll' = [pc |-> "idle", offset |-> total, run |-> lgLog.run, last |-> both[Len(both)],
                    ordered |-> lgPoll.ordered /\ inOrder]
      /\ UNCHANGED lgLog
  BY DEF LgPollLines
<1> HIDE DEF L
<1>5. /\ both \in Seq(Nat) /\ Len(both) = 1 + Len(L) /\ both[1] = last
      /\ \A i \in 1..Len(L) : both[i + 1] = L[i]
  BY <1>1, <1>3, Prefixed
<1>7. Len(L) \in Nat
  BY <1>3
<1> HIDE DEF ever, total, last, offset
<1>8. both[1] = last /\ \A i \in 1..Len(L) : both[i + 1] = (ever - Len(L)) + i
  BY <1>3, <1>5
<1> HIDE DEF both
<1>9. inOrder
  <2> SUFFICES ASSUME NEW i \in 1..Len(L) PROVE both[i] < both[i + 1]
    OBVIOUS
  <2>1. both[i + 1] = (ever - Len(L)) + i /\ Len(L) + offset <= total
    <3>1. Len(L) > 0
      BY <1>7
    <3>2. QED
      BY <1>3, <1>8, <3>1
  <2>2. CASE i = 1
    BY <1>1, <1>2, <1>7, <1>8, <2>1, <2>2
  <2>3. CASE i # 1
    <3>1. i - 1 \in 1..Len(L) /\ (i - 1) + 1 = i
      BY <1>7, <2>3
    <3>2. both[i] = (ever - Len(L)) + (i - 1)
      BY <1>8, <3>1
    <3>3. QED
      BY <1>1, <1>7, <2>1, <3>2
  <2>4. QED
    BY <2>2, <2>3
<1>10. both[Len(both)] \in Nat /\ both[Len(both)] <= ever
  <2>1. CASE Len(L) = 0
    BY <1>1, <1>2, <1>5, <1>8, <2>1
  <2>2. CASE Len(L) # 0
    <3>1. both[Len(L) + 1] = (ever - Len(L)) + Len(L) /\ Len(both) = Len(L) + 1
      <4>1. Len(L) \in 1..Len(L)
        BY <1>7, <2>2
      <4>2. QED
        BY <1>5, <1>7, <1>8, <4>1
    <3>2. QED
      BY <1>1, <1>7, <3>1
  <2>3. QED
    BY <2>1, <2>2
<1> HIDE DEF inOrder
<1>11. /\ lgPoll'.pc = "idle" /\ lgPoll'.offset = total /\ lgPoll'.run = lgLog.run
       /\ lgPoll'.last = both[Len(both)] /\ lgPoll'.ordered = (lgPoll.ordered /\ inOrder)
       /\ lgPoll'.ordered = TRUE
  BY <1>4, <1>9
<1>12. (ever - total) + total = ever
  BY <1>1
<1>13. ShownIsBehind'
  BY <1>1, <1>4, <1>10, <1>11, <1>12 DEF ShownIsBehind, ever, total
<1>14. lgPoll' \in [pc : {"off", "idle", "offset"}, offset : Nat, run : Nat, last : Nat, ordered : BOOLEAN]
  BY <1>1, <1>4, <1>9, <1>10
<1>15. QED
  BY <1>11, <1>13, <1>14

(* The log is cleared, or a new run starts.                                   *)
LEMMA LogIsReset ==
    ASSUME LogOK, LogReset, UNCHANGED lgPoll
    PROVE  LogOK'
<1>1. /\ lgLog \in [run : Nat, total : Nat, lines : Seq(Nat), ever : Nat]
      /\ lgPoll \in [pc : {"off", "idle", "offset"}, offset : Nat, run : Nat, last : Nat, ordered : BOOLEAN]
      /\ RingHoldsTheNewest /\ ShownIsBehind /\ lgPoll.ordered
  BY DEF LogOK, LogTypes
<1>2. /\ lgLog'.run = lgLog.run + 1 /\ lgLog'.total = 0 /\ lgLog'.lines = <<>>
      /\ lgLog'.ever = lgLog.ever
      /\ lgLog' \in [run : Nat, total : Nat, lines : Seq(Nat), ever : Nat]
  <2>1. lgLog.run + 1 \in Nat /\ <<>> \in Seq(Nat) /\ 0 \in Nat
    BY <1>1
  <2>2. lgLog' = [lgLog EXCEPT !.run = lgLog.run + 1, !.total = 0, !.lines = <<>>]
    BY <1>1 DEF LogReset
  <2> DEFINE empty == <<>>
  <2> HIDE DEF empty
  <2>3. lgLog' = [lgLog EXCEPT !.run = lgLog.run + 1, !.total = 0, !.lines = empty] /\ empty \in Seq(Nat)
    BY <2>1, <2>2 DEF empty
  <2>4. /\ lgLog'.run = lgLog.run + 1 /\ lgLog'.total = 0 /\ lgLog'.lines = empty
        /\ lgLog'.ever = lgLog.ever
        /\ lgLog' \in [run : Nat, total : Nat, lines : Seq(Nat), ever : Nat]
    BY <1>1, <2>1, <2>3
  <2>5. QED
    BY <2>4 DEF empty
<1>3. RingHoldsTheNewest'
  <2>1. Len(lgLog'.lines) = 0 /\ lgLog.ever \in Nat
    BY <1>1, <1>2
  <2>2. 1..lgLog'.total = {} /\ 0 <= LgCapacity
    BY <1>2, LgAssumption
  <2>3. QED
    BY <1>2, <2>1, <2>2 DEF RingHoldsTheNewest
<1>4. ShownIsBehind'
  <2>1. /\ lgPoll.last \in Nat /\ lgPoll.run \in Nat /\ lgLog.run \in Nat /\ lgLog.ever \in Nat
        /\ lgPoll.offset \in Nat /\ lgPoll.last <= lgLog.ever /\ lgPoll.run <= lgLog.run
    BY <1>1 DEF ShownIsBehind
  <2>2. lgPoll.last <= (lgLog.ever - 0) + 0 /\ lgPoll.last <= (lgLog.ever - 0) + lgPoll.offset
    BY <2>1
  <2>3. lgPoll.run <= lgLog.run + 1
    BY <2>1
  <2>4. QED
    BY <1>2, <2>1, <2>2, <2>3 DEF ShownIsBehind
<1>5. QED
  BY <1>1, <1>2, <1>3, <1>4 DEF LogOK, LogTypes

(* The log and its page, through every step.                                  *)
LEMMA LogSteps ==
    ASSUME LogOK, [LgNext]_lgVars
    PROVE  LogOK'
<1>1. LogOK
  OBVIOUS
<1>2. /\ lgLog \in [run : Nat, total : Nat, lines : Seq(Nat), ever : Nat]
      /\ lgPoll \in [pc : {"off", "idle", "offset"}, offset : Nat, run : Nat, last : Nat, ordered : BOOLEAN]
      /\ RingHoldsTheNewest /\ ShownIsBehind /\ lgPoll.ordered /\ LogTypes
  BY <1>1 DEF LogOK, LogTypes
<1>3. CASE UNCHANGED <<lgLog, lgPoll>>
  BY <1>1, <1>3 DEF LogOK, LogTypes, RingHoldsTheNewest, ShownIsBehind
<1>4. CASE LogReset /\ UNCHANGED lgPoll
  BY <1>1, <1>4, LogIsReset
<1>5. ASSUME NEW n \in LgRuns, LgLine(n) PROVE LogOK'
  <2>1. /\ lgLog' \in [run : Nat, total : Nat, lines : Seq(Nat), ever : Nat]
        /\ RingHoldsTheNewest'
        /\ lgLog'.run = lgLog.run /\ lgLog'.ever = lgLog.ever + 1 /\ lgLog'.total = lgLog.total + 1
    BY <1>2, <1>5, RingTakesLine
  <2>2. UNCHANGED lgPoll
    BY <1>5 DEF LgLine
  <2>3. lgLog.ever \in Nat /\ lgLog.total \in Nat /\ lgPoll.last \in Nat /\ lgPoll.last <= lgLog.ever
    BY <1>2 DEF ShownIsBehind
  <2>4. (lgLog.ever + 1) - (lgLog.total + 1) = lgLog.ever - lgLog.total /\ lgPoll.last <= lgLog.ever + 1
    BY <2>3
  <2>5. ShownIsBehind'
    BY <1>2, <2>1, <2>2, <2>4 DEF ShownIsBehind
  <2>6. QED
    BY <1>2, <2>1, <2>2, <2>5 DEF LogOK, LogTypes
<1>6. CASE LgPollRun
  <2>1. UNCHANGED lgLog /\ lgPoll.pc = "idle"
    BY <1>6 DEF LgPollRun
  <2>2. RingHoldsTheNewest'
    BY <1>2, <2>1 DEF RingHoldsTheNewest
  <2>3. /\ lgPoll'.pc = "offset" /\ lgPoll'.run = lgPoll.run /\ lgPoll'.last = lgPoll.last
        /\ lgPoll'.offset = IF lgPoll.run # lgLog.run THEN 0 ELSE lgPoll.offset
        /\ lgPoll'.ordered = lgPoll.ordered
        /\ lgPoll' \in [pc : {"off", "idle", "offset"}, offset : Nat, run : Nat, last : Nat, ordered : BOOLEAN]
    BY <1>2, <1>6 DEF LgPollRun
  <2>4. ShownIsBehind'
    BY <1>2, <2>1, <2>3 DEF ShownIsBehind
  <2>5. QED
    BY <1>2, <2>1, <2>2, <2>3, <2>4 DEF LogOK, LogTypes
<1>7. CASE LgPollLines
  <2>1. /\ lgPoll' \in [pc : {"off", "idle", "offset"}, offset : Nat, run : Nat, last : Nat, ordered : BOOLEAN]
        /\ ShownIsBehind' /\ lgPoll'.ordered
    BY <1>2, <1>7, PollShowsInOrder
  <2>2. UNCHANGED lgLog
    BY <1>7 DEF LgPollLines
  <2>3. RingHoldsTheNewest'
    BY <1>2, <2>2 DEF RingHoldsTheNewest
  <2>4. QED
    BY <1>2, <2>1, <2>2, <2>3 DEF LogOK, LogTypes
<1>8. CASE UNCHANGED lgVars
  BY <1>3, <1>8 DEF lgVars
<1>9. ASSUME NEW r \in LgRequests, LgStart(r) PROVE LogOK'
  BY <1>3, <1>4, <1>9 DEF LgStart, StartLocked
<1>10. ASSUME NEW r \in LgRequests, LgStop(r) \/ LgRestart(r) \/ LgWake(r) PROVE LogOK'
  BY <1>3, <1>10 DEF LgStop, LgRestart, LgWake
<1>11. ASSUME NEW n \in LgRuns,
              \/ LgServe(n) \/ LgEnd(n) \/ LgWaited(n) \/ LgCleared(n) \/ LgTellStopped(n)
              \/ LgProbe(n) \/ LgHealth(n)
       PROVE  LogOK'
  BY <1>3, <1>11 DEF LgServe, LgEnd, LgWaited, LgCleared, LgTellStopped, LgProbe, LgHealth
<1>12. CASE LgSubscribe \/ LgShowStatus \/ LgShowEvent \/ LgLeave
  BY <1>3, <1>12 DEF LgSubscribe, LgShowStatus, LgShowEvent, LgLeave
<1>13. CASE LgClearLogs
  BY <1>4, <1>13 DEF LgClearLogs
<1>14. QED
  BY <1>5, <1>6, <1>7, <1>8, <1>9, <1>10, <1>11, <1>12, <1>13 DEF LgNext

----------------------------------------------------------------------------
(* An event is queued for the page, or missed.                                *)
LEMMA PageQueues ==
    ASSUME PageOK, NEW e \in LgEvents, Broadcast(e)
    PROVE  PageOK'
<1> DEFINE q == lgPage.queue
<1>1. CASE lgPage' = lgPage
  BY <1>1 DEF PageOK
<1>2. CASE lgPage' # lgPage
  <2>1. q \in Seq(LgEvents) /\ Len(q) <= LgBuffer /\ Len(q) # LgBuffer /\ LgBuffer \in Nat
    BY <1>2, LgAssumption DEF PageOK, Broadcast
  <2>2. Append(q, e) \in Seq(LgEvents) /\ Len(Append(q, e)) = Len(q) + 1 /\ Len(q) \in Nat
    BY <2>1, AppendProperties, LenProperties
  <2> DEFINE longer == Append(q, e)
  <2>3. lgPage' = [lgPage EXCEPT !.queue = longer]
    BY <1>2 DEF PageOK, Broadcast
  <2> HIDE DEF longer, q
  <2>4. Len(longer) <= LgBuffer /\ longer \in Seq(LgEvents)
    BY <2>1, <2>2 DEF longer
  <2>5. lgPage' \in [pc : {"none", "logs", "subscribed", "open"}, queue : Seq(LgEvents),
                     shown : LgEvents \cup {"none"}]
    BY <2>3, <2>4 DEF PageOK
  <2>6. lgPage'.queue = longer
    BY <2>3 DEF PageOK
  <2>7. QED
    BY <2>4, <2>5, <2>6 DEF PageOK
<1>3. QED
  BY <1>1, <1>2

(* The page and its events, through every step.                               *)
LEMMA PageSteps ==
    ASSUME PageOK, [LgNext]_lgVars
    PROVE  PageOK'
<1>1. CASE UNCHANGED lgPage
  BY <1>1 DEF PageOK
<1>2. ASSUME NEW e \in LgEvents, Broadcast(e) PROVE PageOK'
  BY <1>2, PageQueues
<1>3. ASSUME NEW r \in LgRequests, LgStart(r) PROVE PageOK'
  <2>1. "starting" \in LgEvents
    BY DEF LgEvents
  <2>2. QED
    BY <1>1, <1>2, <1>3, <2>1 DEF LgStart, StartLocked
<1>4. ASSUME NEW r \in LgRequests, LgStop(r) \/ LgRestart(r) \/ LgWake(r) PROVE PageOK'
  BY <1>1, <1>4 DEF LgStop, LgRestart, LgWake
<1>5. ASSUME NEW n \in LgRuns,
             \/ LgServe(n) \/ LgEnd(n) \/ LgWaited(n) \/ LgCleared(n) \/ LgTellStopped(n)
             \/ LgProbe(n) \/ LgHealth(n) \/ LgLine(n)
      PROVE  PageOK'
  <2>1. "stopped" \in LgEvents /\ "running" \in LgEvents
    BY DEF LgEvents
  <2>2. QED
    BY <1>1, <1>2, <1>5, <2>1
       DEF LgServe, LgEnd, LgWaited, LgCleared, LgTellStopped, LgProbe, LgHealth, LgLine
<1>6. CASE LgSubscribe \/ LgShowStatus
  <2>1. /\ lgPage' \in [pc : {"none", "logs", "subscribed", "open"}, queue : Seq(LgEvents),
                        shown : LgEvents \cup {"none"}]
        /\ lgPage'.queue = lgPage.queue
    BY <1>6 DEF LgSubscribe, LgShowStatus, PageOK, LgEvents
  <2>2. QED
    BY <2>1 DEF PageOK
<1>7. CASE LgShowEvent
  <2> DEFINE q == lgPage.queue
             hd == Head(q)
             tl == Tail(q)
  <2>1. q \in Seq(LgEvents) /\ Len(q) <= LgBuffer /\ q # <<>> /\ LgBuffer \in Nat
    BY <1>7, LgAssumption DEF PageOK, LgShowEvent
  <2>2. hd \in LgEvents /\ tl \in Seq(LgEvents) /\ Len(tl) = Len(q) - 1 /\ Len(q) \in Nat
    BY <2>1, HeadTailProperties, LenProperties
  <2>3. lgPage' = [lgPage EXCEPT !.shown = hd, !.queue = tl]
    BY <1>7 DEF LgShowEvent, PageOK
  <2> HIDE DEF q, hd, tl
  <2>4. /\ lgPage' \in [pc : {"none", "logs", "subscribed", "open"}, queue : Seq(LgEvents),
                        shown : LgEvents \cup {"none"}]
        /\ lgPage'.queue = tl
    BY <2>2, <2>3 DEF PageOK
  <2>5. Len(tl) <= LgBuffer
    BY <2>1, <2>2
  <2>6. QED
    BY <2>4, <2>5 DEF PageOK
<1>8. CASE LgLeave
  <2>1. lgPage' = [pc |-> "none", queue |-> <<>>, shown |-> "none"] /\ LgBuffer \in Nat
    BY <1>8, LgAssumption DEF LgLeave
  <2>2. <<>> \in Seq(LgEvents) /\ Len(<<>>) = 0
    OBVIOUS
  <2>3. QED
    BY <2>1, <2>2 DEF PageOK
<1>9. CASE LgPollRun \/ LgPollLines \/ LgClearLogs
  BY <1>1, <1>9 DEF LgPollRun, LgPollLines, LgClearLogs
<1>10. CASE UNCHANGED lgVars
  BY <1>1, <1>10 DEF lgVars
<1>11. QED
  BY <1>3, <1>4, <1>5, <1>6, <1>7, <1>8, <1>9, <1>10 DEF LgNext

----------------------------------------------------------------------------
(* A step that starts no child: whoever lives lived before, none forgets what *)
(* it was told, and the launcher keeps its child, or forgets one that is told *)
(* to stop or dead.                                                           *)
LEMMA NoChildStarts ==
    ASSUME ProcessesOK, lgCmd' \in 0..LgMaxRuns, lgRun' \in [LgRuns -> RunRecords],
           lgReq' \in [LgRequests -> RequestRecords],
           \A n \in LgRuns : /\ LgAlive(n)' => LgAlive(n)
                             /\ lgRun[n].term \/ lgRun[n].crossed
                                  => lgRun[n].term' \/ lgRun[n].crossed',
           \/ lgCmd' = lgCmd
           \/ lgCmd' = 0 /\ (LgAlive(lgCmd) => lgRun[lgCmd].term \/ lgRun[lgCmd].crossed),
           \/ lgCmd' = 0
           \/ \A r \in LgRequests : lgReq'[r].pc = "sleeping" => lgReq[r].pc = "sleeping"
           \/ lgRun'[lgCmd].term
    PROVE  ProcessesOK'
<1>1. lgCmd = 0 \/ lgCmd \in LgRuns
  BY LgAssumption DEF ProcessesOK, LgRuns
<1>2. OrphansAreStopping'
  <2> SUFFICES ASSUME NEW n \in LgRuns, LgAlive(n)', n # lgCmd'
               PROVE  lgRun[n].term' \/ lgRun[n].crossed'
    BY DEF OrphansAreStopping
  <2>1. CASE n # lgCmd
    BY <2>1 DEF ProcessesOK, OrphansAreStopping
  <2>2. CASE n = lgCmd
    BY <2>2
  <2>3. QED
    BY <2>1, <2>2
<1>3. SleepersToldIt'
  <2> SUFFICES ASSUME \E r \in LgRequests : lgReq'[r].pc = "sleeping", LgAlive(lgCmd)', lgCmd' # 0
               PROVE  lgRun'[lgCmd'].term \/ lgRun'[lgCmd'].crossed
    BY DEF SleepersToldIt, LgAlive
  <2>1. lgCmd' = lgCmd /\ lgCmd \in LgRuns /\ LgAlive(lgCmd)
    BY <1>1
  <2>2. CASE lgRun'[lgCmd].term
    BY <2>1, <2>2
  <2>3. CASE \A r \in LgRequests : lgReq'[r].pc = "sleeping" => lgReq[r].pc = "sleeping"
    BY <2>1, <2>3 DEF ProcessesOK, SleepersToldIt
  <2>4. QED
    BY <2>1, <2>2, <2>3
<1>4. QED
  BY <1>2, <1>3 DEF ProcessesOK

(* A child is started: the launcher had none that lives.                      *)
LEMMA ChildStarts ==
    ASSUME ProcessesOK, NEW r \in LgRequests, lgReq[r].pc = "start", ~LgAlive(lgCmd), StartLocked(r)
    PROVE  ProcessesOK'
<1>1. /\ lgCmd \in 0..LgMaxRuns /\ lgRun \in [LgRuns -> RunRecords]
      /\ lgReq \in [LgRequests -> RequestRecords]
  BY DEF ProcessesOK
<1>2. PICK n \in LgRuns :
        /\ lgRun[n].st = "none"
        /\ \/ lgCmd' = 0 /\ LgAnswer(r, "failed") /\ UNCHANGED lgRun
           \/ /\ lgCmd' = n /\ LgAnswer(r, "ok")
              /\ lgRun' = [lgRun EXCEPT ![n] =
                   [st |-> "booting", term |-> FALSE, wait |-> "waiting", probe |-> "waiting",
                    crossed |-> \E q \in LgRequests : lgReq[q].pc = "sleeping"]]
  BY DEF StartLocked
<1>3. /\ lgReq' \in [LgRequests -> RequestRecords]
      /\ \A q \in LgRequests : lgReq'[q].pc = "sleeping" => lgReq[q].pc = "sleeping"
  BY <1>1, <1>2 DEF LgAnswer, RequestRecords
<1>4. CASE lgCmd' = 0 /\ UNCHANGED lgRun
  <2>1. \A m \in LgRuns : LgAlive(m)' => LgAlive(m)
    BY <1>4 DEF LgAlive
  <2>2. \A m \in LgRuns : lgRun[m].term \/ lgRun[m].crossed => lgRun[m].term' \/ lgRun[m].crossed'
    BY <1>4
  <2>3. lgCmd' \in 0..LgMaxRuns /\ lgRun' \in [LgRuns -> RunRecords]
    BY <1>1, <1>4, LgAssumption
  <2>4. QED
    BY <1>3, <1>4, <2>1, <2>2, <2>3, NoChildStarts
<1>5. ASSUME lgCmd' = n,
             lgRun' = [lgRun EXCEPT ![n] =
                [st |-> "booting", term |-> FALSE, wait |-> "waiting", probe |-> "waiting",
                 crossed |-> \E q \in LgRequests : lgReq[q].pc = "sleeping"]]
      PROVE  ProcessesOK'
  <2> DEFINE crossed == \E q \in LgRequests : lgReq[q].pc = "sleeping"
             child == [st |-> "booting", term |-> FALSE, wait |-> "waiting", probe |-> "waiting",
                       crossed |-> crossed]
  <2>1. crossed \in BOOLEAN
    OBVIOUS
  <2>2. child \in RunRecords /\ child.crossed = crossed
    BY <2>1 DEF RunRecords
  <2>3. lgRun' = [lgRun EXCEPT ![n] = child] /\ n # 0 /\ n \in 0..LgMaxRuns
    BY <1>5, LgAssumption DEF LgRuns
  <2>4. (\E q \in LgRequests : lgReq'[q].pc = "sleeping") => crossed
    BY <1>3
  <2> HIDE DEF child, crossed
  <2>5. /\ lgRun' \in [LgRuns -> RunRecords] /\ lgRun'[n] = child
        /\ \A m \in LgRuns : m # n => lgRun'[m] = lgRun[m]
    BY <1>1, <2>2, <2>3
  <2>6. \A m \in LgRuns : m # n /\ LgAlive(m)' => LgAlive(m) /\ m # lgCmd
    BY <2>5 DEF LgAlive
  <2>7. OrphansAreStopping'
    BY <1>5, <2>5, <2>6 DEF ProcessesOK, OrphansAreStopping
  <2>8. SleepersToldIt'
    BY <1>5, <2>2, <2>4, <2>5 DEF SleepersToldIt
  <2>9. QED
    BY <1>3, <1>5, <2>3, <2>5, <2>7, <2>8 DEF ProcessesOK
<1>6. QED
  BY <1>2, <1>4, <1>5

(* The children and the requests, through every step.                         *)
LEMMA ProcessSteps ==
    ASSUME ProcessesOK, [LgNext]_lgVars
    PROVE  ProcessesOK'
<1>1. /\ lgCmd \in 0..LgMaxRuns /\ lgRun \in [LgRuns -> RunRecords]
      /\ lgReq \in [LgRequests -> RequestRecords] /\ 0 \in 0..LgMaxRuns
  BY LgAssumption DEF ProcessesOK
<1>2. CASE UNCHANGED <<lgCmd, lgRun, lgReq>>
  BY <1>2 DEF ProcessesOK, OrphansAreStopping, SleepersToldIt, LgAlive
<1>3. ASSUME NEW n \in LgRuns, NEW run \in RunRecords, lgRun' = [lgRun EXCEPT ![n] = run],
             UNCHANGED lgReq, UNCHANGED lgCmd \/ (lgCmd = n /\ lgCmd' = 0 /\ ~LgAlive(n)),
             run.term = lgRun[n].term, run.crossed = lgRun[n].crossed,
             run.st \in {"booting", "serving", "deaf", "ended"} => LgAlive(n)
      PROVE  ProcessesOK'
  <2>1. /\ lgRun' \in [LgRuns -> RunRecords] /\ lgRun'[n] = run
        /\ \A m \in LgRuns : m # n => lgRun'[m] = lgRun[m]
    BY <1>1, <1>3
  <2>2. \A m \in LgRuns : LgAlive(m)' => LgAlive(m)
    BY <1>3, <2>1 DEF LgAlive
  <2>3. \A m \in LgRuns : lgRun[m].term \/ lgRun[m].crossed => lgRun[m].term' \/ lgRun[m].crossed'
    BY <1>3, <2>1
  <2>4. lgCmd' \in 0..LgMaxRuns
    BY <1>1, <1>3
  <2>5. lgReq' \in [LgRequests -> RequestRecords]
    BY <1>1, <1>3
  <2>6. QED
    BY <1>3, <2>1, <2>2, <2>3, <2>4, <2>5, NoChildStarts
<1>4. ASSUME NEW r \in LgRequests, LgStart(r) PROVE ProcessesOK'
  <2>1. CASE LgAlive(lgCmd) /\ LgAnswer(r, "already_running") /\ UNCHANGED <<lgCmd, lgRun>>
    <3>1. /\ lgReq' \in [LgRequests -> RequestRecords]
          /\ \A q \in LgRequests : lgReq'[q].pc = "sleeping" => lgReq[q].pc = "sleeping"
      BY <1>1, <2>1 DEF LgAnswer, RequestRecords
    <3>2. QED
      BY <1>1, <2>1, <3>1, NoChildStarts DEF LgAlive
  <2>2. CASE ~LgAlive(lgCmd) /\ lgCmd' = 0 /\ LgAnswer(r, "not_ready") /\ UNCHANGED lgRun
    <3>1. lgReq' \in [LgRequests -> RequestRecords]
      BY <1>1, <2>2 DEF LgAnswer, RequestRecords
    <3>2. \A m \in LgRuns : LgAlive(m)' => LgAlive(m)
      BY <2>2 DEF LgAlive
    <3>3. QED
      BY <1>1, <2>2, <3>1, <3>2, NoChildStarts
  <2>3. CASE ~LgAlive(lgCmd) /\ StartLocked(r)
    BY <1>4, <2>3, ChildStarts DEF LgStart
  <2>4. QED
    BY <1>4, <2>1, <2>2, <2>3 DEF LgStart
<1>5. ASSUME Signal(lgCmd), UNCHANGED lgCmd, lgReq' \in [LgRequests -> RequestRecords], LgAlive(lgCmd)
      PROVE  ProcessesOK'
  <2>1. lgCmd \in LgRuns
    BY <1>1, <1>5, LgAssumption DEF LgAlive, LgRuns
  <2>2. /\ lgRun' \in [LgRuns -> RunRecords] /\ lgRun'[lgCmd].term
        /\ \A m \in LgRuns : /\ lgRun'[m].st = lgRun[m].st /\ lgRun'[m].crossed = lgRun[m].crossed
                             /\ m # lgCmd => lgRun'[m].term = lgRun[m].term
    BY <1>1, <1>5, <2>1 DEF Signal, RunRecords
  <2>3. \A m \in LgRuns : LgAlive(m)' => LgAlive(m)
    BY <2>2 DEF LgAlive
  <2>4. \A m \in LgRuns : lgRun[m].term \/ lgRun[m].crossed => lgRun[m].term' \/ lgRun[m].crossed'
    BY <2>2
  <2>5. lgCmd' \in 0..LgMaxRuns
    BY <1>1, <1>5
  <2>6. QED
    BY <1>5, <2>2, <2>3, <2>4, <2>5, NoChildStarts
<1>6. ASSUME NEW r \in LgRequests, LgStop(r) PROVE ProcessesOK'
  <2>1. /\ lgReq' \in [LgRequests -> RequestRecords] /\ UNCHANGED lgCmd
        /\ \A q \in LgRequests : lgReq'[q].pc = "sleeping" => lgReq[q].pc = "sleeping"
    BY <1>1, <1>6 DEF LgStop, LgAnswer, RequestRecords
  <2>2. CASE LgAlive(lgCmd) /\ Signal(lgCmd)
    BY <1>5, <2>1, <2>2
  <2>3. CASE UNCHANGED lgRun
    BY <1>1, <2>1, <2>3, NoChildStarts DEF LgAlive
  <2>4. QED
    BY <1>6, <2>2, <2>3 DEF LgStop
<1>7. ASSUME NEW r \in LgRequests, LgRestart(r) PROVE ProcessesOK'
  <2>1. lgReq' \in [LgRequests -> RequestRecords]
    BY <1>1, <1>7 DEF LgRestart, RequestRecords, LgOps
  <2>2. CASE LgAlive(lgCmd) /\ Signal(lgCmd) /\ UNCHANGED lgCmd
    BY <1>5, <2>1, <2>2
  <2>3. CASE ~LgAlive(lgCmd) /\ lgCmd' = 0 /\ UNCHANGED lgRun
    <3>1. \A m \in LgRuns : LgAlive(m)' => LgAlive(m)
      BY <2>3 DEF LgAlive
    <3>2. QED
      BY <1>1, <2>1, <2>3, <3>1, NoChildStarts
  <2>4. QED
    BY <1>7, <2>2, <2>3 DEF LgRestart
<1>8. ASSUME NEW r \in LgRequests, LgWake(r) PROVE ProcessesOK'
  <2>1. /\ lgReq' \in [LgRequests -> RequestRecords] /\ lgCmd' = 0 /\ UNCHANGED lgRun
        /\ lgReq[r].pc = "sleeping"
    BY <1>1, <1>8 DEF LgWake, RequestRecords, LgOps
  <2>2. LgAlive(lgCmd) => lgRun[lgCmd].term \/ lgRun[lgCmd].crossed
    BY <2>1 DEF ProcessesOK, SleepersToldIt
  <2>3. \A m \in LgRuns : LgAlive(m)' => LgAlive(m)
    BY <2>1 DEF LgAlive
  <2>4. QED
    BY <1>1, <2>1, <2>2, <2>3, NoChildStarts
<1>9. ASSUME NEW n \in LgRuns, LgServe(n) \/ LgEnd(n) \/ LgWaited(n) PROVE ProcessesOK'
  <2>1. n # 0
    BY LgAssumption DEF LgRuns
  <2>2. PICK st \in {"serving", "deaf", "ended", "gone"} :
          /\ lgRun' = [lgRun EXCEPT ![n].st = st] /\ UNCHANGED <<lgCmd, lgReq>>
          /\ lgRun[n].st \in {"booting", "serving", "deaf", "ended"}
    BY <1>9 DEF LgServe, LgEnd, LgWaited
  <2> DEFINE run == [lgRun[n] EXCEPT !.st = st]
  <2>3. /\ run \in RunRecords /\ lgRun' = [lgRun EXCEPT ![n] = run]
        /\ run.term = lgRun[n].term /\ run.crossed = lgRun[n].crossed
    BY <1>1, <2>2 DEF RunRecords
  <2>4. LgAlive(n)
    BY <2>1, <2>2 DEF LgAlive
  <2> HIDE DEF run
  <2>5. QED
    BY <1>3, <2>2, <2>3, <2>4
<1>10. ASSUME NEW n \in LgRuns, LgCleared(n) \/ LgTellStopped(n) PROVE ProcessesOK'
  <2>1. n # 0
    BY LgAssumption DEF LgRuns
  <2>2. PICK w \in {"cleared", "done"} :
          /\ lgRun' = [lgRun EXCEPT ![n].wait = w] /\ UNCHANGED lgReq
          /\ UNCHANGED lgCmd \/ (lgCmd = n /\ lgCmd' = 0 /\ ~LgAlive(n))
    BY <1>10 DEF LgCleared, LgTellStopped, LgAlive
  <2> DEFINE run == [lgRun[n] EXCEPT !.wait = w]
  <2>3. /\ run \in RunRecords /\ lgRun' = [lgRun EXCEPT ![n] = run]
        /\ run.term = lgRun[n].term /\ run.crossed = lgRun[n].crossed /\ run.st = lgRun[n].st
    BY <1>1, <2>2 DEF RunRecords
  <2>4. run.st \in {"booting", "serving", "deaf", "ended"} => LgAlive(n)
    BY <2>1, <2>3 DEF LgAlive
  <2> HIDE DEF run
  <2>5. QED
    BY <1>3, <2>2, <2>3, <2>4
<1>11. ASSUME NEW n \in LgRuns, LgProbe(n) \/ LgHealth(n) PROVE ProcessesOK'
  <2>1. n # 0
    BY LgAssumption DEF LgRuns
  <2>2. PICK p \in {"waiting", "asking", "done"} :
          /\ lgRun' = [lgRun EXCEPT ![n].probe = p] /\ UNCHANGED <<lgCmd, lgReq>>
    BY <1>11 DEF LgProbe, LgHealth
  <2> DEFINE run == [lgRun[n] EXCEPT !.probe = p]
  <2>3. /\ run \in RunRecords /\ lgRun' = [lgRun EXCEPT ![n] = run]
        /\ run.term = lgRun[n].term /\ run.crossed = lgRun[n].crossed /\ run.st = lgRun[n].st
    BY <1>1, <2>2 DEF RunRecords
  <2>4. run.st \in {"booting", "serving", "deaf", "ended"} => LgAlive(n)
    BY <2>1, <2>3 DEF LgAlive
  <2> HIDE DEF run
  <2>5. QED
    BY <1>3, <2>2, <2>3, <2>4
<1>12. ASSUME NEW n \in LgRuns, LgLine(n) PROVE ProcessesOK'
  BY <1>2, <1>12 DEF LgLine
<1>13. CASE LgSubscribe \/ LgShowStatus \/ LgShowEvent \/ LgLeave
  BY <1>2, <1>13 DEF LgSubscribe, LgShowStatus, LgShowEvent, LgLeave
<1>14. CASE LgPollRun \/ LgPollLines \/ LgClearLogs
  BY <1>2, <1>14 DEF LgPollRun, LgPollLines, LgClearLogs
<1>15. CASE UNCHANGED lgVars
  BY <1>2, <1>15 DEF lgVars
<1>16. QED
  BY <1>4, <1>6, <1>7, <1>8, <1>9, <1>10, <1>11, <1>12, <1>13, <1>14, <1>15 DEF LgNext

(* TLC: LgInv.  Whatever the requests, the children and the page do, a child  *)
(* that lives and is not the launcher's was told to stop or crossed a restart,*)
(* and the page shows the lines of the log once and in order.                 *)
THEOREM LauncherCorrect == LgSpec => []LgInv
<1>1. LgInit => LgIInv
  <2> SUFFICES ASSUME LgInit PROVE LgIInv
    OBVIOUS
  <2>1. /\ lgCmd = 0 /\ lgRun = [n \in LgRuns |-> NoRun] /\ NoRun \in RunRecords
        /\ lgReq \in [LgRequests -> RequestRecords]
    BY DEF LgInit, NoRun, RunRecords, RequestRecords
  <2>2. lgCmd \in 0..LgMaxRuns /\ lgRun \in [LgRuns -> RunRecords]
    BY <2>1, LgAssumption
  <2>3. OrphansAreStopping /\ SleepersToldIt
    BY <2>1 DEF OrphansAreStopping, SleepersToldIt, LgAlive, NoRun
  <2>4. ProcessesOK
    BY <2>1, <2>2, <2>3 DEF ProcessesOK
  <2>5. PICK page \in {"none", "logs"} :
          /\ lgPage = [pc |-> page, queue |-> <<>>, shown |-> "none"]
          /\ lgPoll = [pc |-> IF page = "logs" THEN "idle" ELSE "off", offset |-> 0, run |-> 0,
                       last |-> 0, ordered |-> TRUE]
    BY DEF LgInit
  <2>6. <<>> \in Seq(LgEvents) /\ <<>> \in Seq(Nat) /\ Len(<<>>) = 0 /\ LgBuffer \in Nat /\ LgCapacity \in Nat
    BY LgAssumption
  <2>7. PageOK
    BY <2>5, <2>6 DEF PageOK
  <2>8. lgLog = [run |-> 0, total |-> 0, lines |-> <<>>, ever |-> 0]
    BY DEF LgInit
  <2>9. LogTypes
    BY <2>5, <2>6, <2>8 DEF LogTypes
  <2>10. RingHoldsTheNewest
    BY <2>6, <2>8 DEF RingHoldsTheNewest
  <2>11. ShownIsBehind /\ lgPoll.ordered
    BY <2>5, <2>8 DEF ShownIsBehind
  <2>12. QED
    BY <2>4, <2>7, <2>9, <2>10, <2>11 DEF LgIInv, LogOK
<1>2. LgIInv => LgInv
  <2> SUFFICES ASSUME LgIInv PROVE LgInv
    OBVIOUS
  <2>1. ProcessesOK /\ PageOK /\ LogTypes /\ RingHoldsTheNewest /\ lgPoll.ordered
    BY DEF LgIInv, LogOK
  <2>2. lgLog.total \in Nat /\ LgCapacity \in Nat
    BY <2>1, LgAssumption DEF LogTypes
  <2>3. Len(lgLog.lines) <= LgCapacity /\ Len(lgLog.lines) <= lgLog.total
    BY <2>1, <2>2 DEF RingHoldsTheNewest
  <2>4. LgTypeOK
    BY <2>1, <2>3 DEF LgTypeOK, ProcessesOK, PageOK, RunRecords, RequestRecords
  <2>5. QED
    BY <2>1, <2>4 DEF LgInv, ProcessesOK, LinesAreOrdered
<1>3. LgIInv /\ [LgNext]_lgVars => LgIInv'
  BY ProcessSteps, PageSteps, LogSteps DEF LgIInv
<1>4. QED
  BY <1>1, <1>2, <1>3, PTL DEF LgSpec

(***************************************************************************)
(* The files of the workspace.  Nobody sees the mark of a call before its  *)
(* rename, which is also its answer; so no text holds a mark twice, and a  *)
(* call that fails is in no file.                                          *)
(***************************************************************************)
Marks == WfCalls \cup {0}
Shows(t, m) == \E i \in DOMAIN t : t[i] = m
Distinct(t) == \A i, j \in DOMAIN t : t[i] = t[j] => i = j
WfLongest == Cardinality(WfCalls) + 1

CallRecords == [tool : WfTools, path : WfPaths, pc : WfRunning \cup {"done", "dead"},
                text : Seq(Marks), step : 0..5, result : {"none", "error", "written", "more", "end"}]

WfTypes ==
  /\ wfFs \in {"host", "sandbox", "whitelist"}
  /\ wfFile \in [WfPaths -> Seq(Marks)]
  /\ wfCall \in [WfCalls -> CallRecords]
  /\ wfTemp \subseteq WfCalls

(* Every text that is in a file, or may yet be written, has each mark once.   *)
MarksOnce ==
  /\ \A p \in WfPaths : wfFile[p] = WfAbsent \/ Distinct(wfFile[p])
  /\ \A c \in WfCalls : /\ Len(wfCall[c].text) <= WfLongest
                        /\ wfCall[c].pc \in {"opened", "edited"} => Distinct(wfCall[c].text)

(* The mark of a call that has not written is at most in its own text.        *)
UnseenBefore ==
  \A c \in WfCalls :
    /\ wfCall[c].result # "written" =>
         /\ \A p \in WfPaths : ~Shows(wfFile[p], c)
         /\ \A d \in WfCalls : Shows(wfCall[d].text, c) => d = c
    /\ wfCall[c].pc \in {"idle", "opened"} => ~Shows(wfCall[c].text, c)

(* A call answers when it is done; a write has steps left until it answers.   *)
CallsInOrder ==
  \A c \in WfCalls :
    /\ wfCall[c].result # "none" => wfCall[c].pc = "done"
    /\ wfCall[c].pc \in {"idle", "opened"} => wfCall[c].step = 0
    /\ wfCall[c].pc = "edited" => wfCall[c].step < Len(WriteSteps(wfCall[c].path))

WfIInv ==
  /\ WfTypes /\ MarksOnce /\ UnseenBefore /\ CallsInOrder
  /\ WholeFiles /\ TempsAreOwned

(* The marks are finitely many, so a text with each mark once is short.       *)
LEMMA ManyMarks ==
    /\ IsFiniteSet(Marks) /\ Cardinality(Marks) = WfLongest /\ WfLongest \in Nat /\ WfLongest >= 2
    /\ 0 \notin WfCalls
<1>1. IsFiniteSet(WfCalls) /\ 0 \notin WfCalls /\ WfCalls # {}
  BY WfAssumption
<1>2. Cardinality(WfCalls) \in Nat /\ Cardinality(WfCalls) # 0
  BY <1>1, FS_CardinalityType, FS_EmptySet
<1>3. IsFiniteSet(Marks) /\ Cardinality(Marks) = Cardinality(WfCalls) + 1
  BY <1>1, FS_AddElement DEF Marks
<1>4. QED
  BY <1>1, <1>2, <1>3 DEF WfLongest

(* A text in which no mark occurs twice is at most as long as there are       *)
(* marks.                                                                     *)
LEMMA DistinctIsShort ==
    ASSUME NEW t \in Seq(Marks), Distinct(t)
    PROVE  Len(t) <= WfLongest
<1>1. Len(t) \in Nat /\ t \in [1..Len(t) -> Marks]
  OBVIOUS
<1>2. IsFiniteSet(1..Len(t)) /\ Cardinality(1..Len(t)) = Len(t)
  BY <1>1, FS_Interval
<1>3. ~(Cardinality(Marks) < Len(t))
  <2> SUFFICES ASSUME Cardinality(Marks) < Cardinality(1..Len(t)) PROVE FALSE
    BY <1>2
  <2>1. PICK x, y \in 1..Len(t) : x # y /\ t[x] = t[y]
    BY <1>1, <1>2, ManyMarks, FS_PigeonHole, Zenon
  <2>2. QED
    BY <1>1, <2>1 DEF Distinct
<1>4. QED
  BY <1>1, <1>3, ManyMarks

(* A text of that length is one of the texts of the model.                    *)
LEMMA ShortIsText ==
    ASSUME NEW t \in Seq(Marks), Len(t) <= WfLongest
    PROVE  t \in WfText
<1>1. Len(t) \in 0..(Cardinality(WfCalls) + 1)
  BY ManyMarks DEF WfLongest
<1>2. t \in [1..Len(t) -> WfCalls \cup {0}]
  BY DEF Marks
<1>3. QED
  BY <1>1, <1>2 DEF WfText

(* An answer to the call c, or a step of it that renames nothing.             *)
LEMMA CallMoves ==
    ASSUME WfIInv, NEW c \in WfCalls, NEW k \in CallRecords, wfCall' = [wfCall EXCEPT ![c] = k],
           UNCHANGED <<wfFs, wfFile>>, wfCall[c].pc \notin {"done", "dead"},
           k.path = wfCall[c].path, k.result # "written",
           Len(k.text) <= WfLongest, k.pc \in {"opened", "edited"} => Distinct(k.text),
           \A m \in WfCalls : Shows(k.text, m) => m = c \/ wfCall[m].result = "written",
           k.pc \in {"idle", "opened"} => k.step = 0 /\ ~Shows(k.text, c),
           k.result # "none" => k.pc = "done",
           k.pc = "edited" => k.step < Len(WriteSteps(k.path)),
           wfTemp' \subseteq WfCalls, \A d \in wfTemp' : d # c => d \in wfTemp,
           c \in wfTemp' => k.pc \in {"edited", "dead"}
    PROVE  WfIInv'
<1>1. /\ wfCall \in [WfCalls -> CallRecords] /\ wfFile \in [WfPaths -> Seq(Marks)]
      /\ wfFs \in {"host", "sandbox", "whitelist"}
  BY DEF WfIInv, WfTypes
<1>2. /\ wfCall' \in [WfCalls -> CallRecords] /\ wfCall'[c] = k
      /\ \A d \in WfCalls : d # c => wfCall'[d] = wfCall[d]
  BY <1>1
<1>3. wfCall[c].result = "none"
  BY DEF WfIInv, CallsInOrder
<1>4. WfTypes'
  BY <1>1, <1>2 DEF WfTypes
<1>5. MarksOnce'
  BY <1>2 DEF WfIInv, MarksOnce
<1>6. UnseenBefore'
  <2> SUFFICES ASSUME NEW d \in WfCalls
               PROVE  /\ wfCall'[d].result # "written" =>
                           /\ \A p \in WfPaths : ~Shows(wfFile[p], d)
                           /\ \A e \in WfCalls : Shows(wfCall'[e].text, d) => e = d
                      /\ wfCall'[d].pc \in {"idle", "opened"} => ~Shows(wfCall'[d].text, d)
    BY DEF UnseenBefore, Shows
  <2>1. wfCall'[d].result # "written" <=> wfCall[d].result # "written"
    BY <1>2, <1>3
  <2>2. wfCall[d].result # "written" =>
          /\ \A p \in WfPaths : ~Shows(wfFile[p], d)
          /\ \A e \in WfCalls : Shows(wfCall[e].text, d) => e = d
    BY DEF WfIInv, UnseenBefore
  <2>3. ASSUME wfCall'[d].result # "written", NEW e \in WfCalls, Shows(wfCall'[e].text, d) PROVE e = d
    <3>1. CASE e = c
      BY <1>2, <2>1, <2>3, <3>1
    <3>2. CASE e # c
      BY <1>2, <2>1, <2>2, <2>3, <3>2
    <3>3. QED
      BY <3>1, <3>2
  <2>4. wfCall'[d].pc \in {"idle", "opened"} => ~Shows(wfCall'[d].text, d)
    BY <1>2 DEF WfIInv, UnseenBefore
  <2>5. QED
    BY <2>1, <2>2, <2>3, <2>4
<1>7. CallsInOrder'
  BY <1>2 DEF WfIInv, CallsInOrder, WriteSteps, ServedBy
<1>8. WholeFiles'
  BY <1>2, <1>3 DEF WfIInv, WholeFiles
<1>9. TempsAreOwned'
  BY <1>2 DEF WfIInv, TempsAreOwned
<1>10. QED
  BY <1>4, <1>5, <1>6, <1>7, <1>8, <1>9 DEF WfIInv

(* The rename: the text of the call becomes the file, and it answers.         *)
LEMMA TextBecomesFile ==
    ASSUME WfIInv, NEW c \in WfCalls, wfCall[c].pc = "edited", Answer(c, "written"),
           wfFile' = [wfFile EXCEPT ![wfCall[c].path] = wfCall[c].text],
           wfTemp' = wfTemp \ {c}, UNCHANGED wfFs
    PROVE  WfIInv'
<1> DEFINE p == wfCall[c].path
           t == wfCall[c].text
           k == [wfCall[c] EXCEPT !.pc = "done", !.result = "written"]
<1>1. /\ wfCall \in [WfCalls -> CallRecords] /\ wfFile \in [WfPaths -> Seq(Marks)]
      /\ wfFs \in {"host", "sandbox", "whitelist"} /\ wfTemp \subseteq WfCalls
  BY DEF WfIInv, WfTypes
<1>2. /\ k \in CallRecords /\ k.text = t /\ k.path = p /\ k.pc = "done" /\ k.result = "written"
      /\ k.step = wfCall[c].step
      /\ wfCall' = [wfCall EXCEPT ![c] = k] /\ p \in WfPaths /\ t \in Seq(Marks)
  BY <1>1 DEF Answer, CallRecords, WfRunning
<1> HIDE DEF k
<1>3. /\ wfCall' \in [WfCalls -> CallRecords] /\ wfCall'[c] = k
      /\ \A d \in WfCalls : d # c => wfCall'[d] = wfCall[d]
  BY <1>1, <1>2
<1>4. /\ wfFile' \in [WfPaths -> Seq(Marks)] /\ wfFile'[p] = t
      /\ \A q \in WfPaths : q # p => wfFile'[q] = wfFile[q]
  BY <1>1, <1>2
<1>5. /\ wfCall[c].result = "none" /\ Distinct(t)
      /\ \A d \in WfCalls : wfCall'[d].text = wfCall[d].text
  BY <1>2, <1>3 DEF WfIInv, CallsInOrder, MarksOnce
<1> HIDE DEF p, t
<1>6. WfTypes'
  BY <1>1, <1>3, <1>4 DEF WfTypes
<1>7. MarksOnce'
  <2>1. \A q \in WfPaths : wfFile'[q] = WfAbsent \/ Distinct(wfFile'[q])
    BY <1>4, <1>5 DEF WfIInv, MarksOnce
  <2>2. \A d \in WfCalls : /\ Len(wfCall'[d].text) <= WfLongest
                           /\ wfCall'[d].pc \in {"opened", "edited"} => Distinct(wfCall'[d].text)
    BY <1>2, <1>3, <1>5 DEF WfIInv, MarksOnce
  <2>3. QED
    BY <2>1, <2>2 DEF MarksOnce, Distinct
<1>8. UnseenBefore'
  <2>1. ASSUME NEW d \in WfCalls, wfCall'[d].result # "written"
        PROVE  /\ \A q \in WfPaths : ~Shows(wfFile'[q], d)
               /\ \A e \in WfCalls : Shows(wfCall'[e].text, d) => e = d
    <3>1. d # c /\ wfCall[d].result # "written"
      BY <1>2, <1>3, <2>1
    <3>2. /\ \A q \in WfPaths : ~Shows(wfFile[q], d)
          /\ \A e \in WfCalls : Shows(wfCall[e].text, d) => e = d
      BY <3>1 DEF WfIInv, UnseenBefore
    <3>3. ~Shows(t, d)
      BY <3>1, <3>2 DEF t
    <3>4. QED
      BY <1>4, <1>5, <3>2, <3>3
  <2>2. \A d \in WfCalls : wfCall'[d].pc \in {"idle", "opened"} => ~Shows(wfCall'[d].text, d)
    BY <1>2, <1>3 DEF WfIInv, UnseenBefore
  <2>3. QED
    BY <2>1, <2>2 DEF UnseenBefore, Shows
<1>9. CallsInOrder'
  BY <1>2, <1>3 DEF WfIInv, CallsInOrder, WriteSteps, ServedBy
<1>10. WholeFiles'
  <2> SUFFICES ASSUME NEW q \in WfPaths
               PROVE  \/ wfFile'[q] \in {WfAbsent, <<0>>}
                      \/ \E d \in WfCalls : /\ wfCall'[d].path = q /\ wfCall'[d].text = wfFile'[q]
                                            /\ wfCall'[d].result = "written"
    BY DEF WholeFiles
  <2>1. CASE q = p
    BY <1>2, <1>3, <1>4, <2>1
  <2>2. CASE q # p
    <3>1. \/ wfFile[q] \in {WfAbsent, <<0>>}
          \/ \E d \in WfCalls : /\ wfCall[d].path = q /\ wfCall[d].text = wfFile[q]
                                /\ wfCall[d].result = "written"
      BY DEF WfIInv, WholeFiles
    <3>2. QED
      BY <1>2, <1>3, <1>4, <1>5, <2>2, <3>1
  <2>3. QED
    BY <2>1, <2>2
<1>11. TempsAreOwned'
  BY <1>1, <1>3 DEF WfIInv, TempsAreOwned
<1>12. QED
  BY <1>6, <1>7, <1>8, <1>9, <1>10, <1>11 DEF WfIInv

(* What a call reads holds only marks of calls that have written.             *)
LEMMA WhatIsRead ==
    ASSUME WfIInv, NEW p \in WfPaths, NEW m \in WfCalls, Shows(wfFile[p], m)
    PROVE  wfCall[m].result = "written"
  BY DEF WfIInv, UnseenBefore

(* A write has steps, and its last is the rename.                             *)
LEMMA EnoughSteps ==
    \A p : /\ Len(WriteSteps(p)) \in {5, 6} /\ 0 < Len(WriteSteps(p))
           /\ WriteSteps(p)[Len(WriteSteps(p))] = "rename"
  BY DEF WriteSteps, HostWrite, SandboxWrite

(* WfOpen preserves the inductive invariant.                                  *)
LEMMA WfOpenIInv == ASSUME WfIInv, NEW c \in WfCalls, WfOpen(c) PROVE WfIInv'
<1> DEFINE p == wfCall[c].path
           t == wfFile[p]
<1>1. /\ wfCall \in [WfCalls -> CallRecords] /\ wfFile \in [WfPaths -> Seq(Marks)]
      /\ wfTemp \subseteq WfCalls /\ p \in WfPaths /\ t \in Seq(Marks)
  BY DEF WfIInv, WfTypes, CallRecords
<1>2. /\ wfCall[c].pc = "idle" /\ wfCall[c].result = "none" /\ c \notin wfTemp
      /\ UNCHANGED <<wfFs, wfFile, wfTemp>>
  BY DEF WfOpen, WfIInv, CallsInOrder, TempsAreOwned
<1>3. /\ Len(wfCall[c].text) <= WfLongest
      /\ \A m \in WfCalls : Shows(wfCall[c].text, m) => m = c \/ wfCall[m].result = "written"
  BY DEF WfIInv, MarksOnce, UnseenBefore
<1>4. CASE Answer(c, "error")
  <2> DEFINE k == [wfCall[c] EXCEPT !.pc = "done", !.result = "error"]
  <2>1. /\ k \in CallRecords /\ k.text = wfCall[c].text /\ k.path = p /\ k.pc = "done" /\ k.result = "error"
        /\ wfCall' = [wfCall EXCEPT ![c] = k]
    BY <1>1, <1>4 DEF Answer, CallRecords, WfRunning
  <2> HIDE DEF k
  <2>2. QED
    BY <1>1, <1>2, <1>3, <2>1, CallMoves
<1>5. CASE wfCall' = [wfCall EXCEPT ![c].pc = "edited", ![c].text = <<c>>]
  <2> DEFINE own == <<c>>
             k == [wfCall[c] EXCEPT !.pc = "edited", !.text = own]
  <2>1. own \in Seq(Marks) /\ Len(own) = 1 /\ DOMAIN own = 1..1 /\ own[1] = c
    BY DEF Marks
  <2>2. /\ wfCall' = [wfCall EXCEPT ![c] = k]
    BY <1>1, <1>5 DEF CallRecords
  <2> HIDE DEF own
  <2>3. /\ k \in CallRecords /\ k.text = own /\ k.path = p /\ k.pc = "edited"
        /\ k.result = "none" /\ k.step = wfCall[c].step
    BY <1>1, <1>2, <2>1 DEF CallRecords, WfRunning
  <2> HIDE DEF k
  <2>4. Distinct(own) /\ \A m \in WfCalls : Shows(own, m) => m = c
    BY <2>1 DEF Distinct, Shows
  <2>5. Len(own) <= WfLongest
    BY <2>1, ManyMarks
  <2>6. wfCall[c].step < Len(WriteSteps(p))
    <3>1. wfCall[c].step = 0
      BY <1>2 DEF WfIInv, CallsInOrder
    <3>2. 0 < Len(WriteSteps(p))
      BY EnoughSteps
    <3>3. QED
      BY <3>1, <3>2, Zenon
  <2>7. QED
    BY <1>1, <1>2, <2>2, <2>3, <2>4, <2>5, <2>6, CallMoves
<1>6. CASE wfFile[p] # WfAbsent /\ wfCall' = [wfCall EXCEPT ![c].pc = "opened", ![c].text = t]
  <2> DEFINE k == [wfCall[c] EXCEPT !.pc = "opened", !.text = t]
  <2>1. wfCall' = [wfCall EXCEPT ![c] = k]
    BY <1>1, <1>6 DEF CallRecords
  <2>2. /\ k \in CallRecords /\ k.text = t /\ k.path = p /\ k.pc = "opened"
        /\ k.result = "none" /\ k.step = 0
    BY <1>1, <1>2 DEF CallRecords, WfRunning, WfIInv, CallsInOrder
  <2> HIDE DEF k
  <2>3. Distinct(t)
    BY <1>1, <1>6 DEF WfIInv, MarksOnce
  <2>4. Len(t) <= WfLongest
    BY <1>1, <2>3, DistinctIsShort
  <2>5. \A m \in WfCalls : Shows(t, m) => wfCall[m].result = "written"
    BY <1>1, WhatIsRead
  <2> HIDE DEF t
  <2>6. ~Shows(t, c)
    BY <1>2, <2>5
  <2>7. QED
    BY <1>1, <1>2, <2>1, <2>2, <2>3, <2>4, <2>5, <2>6, CallMoves
<1>7. QED
  BY <1>4, <1>5, <1>6 DEF WfOpen

(* WfRead preserves the inductive invariant.                                  *)
LEMMA WfReadIInv ==
    ASSUME WfIInv, NEW c \in WfCalls, NEW offset \in Nat, WfRead(c, offset)
    PROVE  WfIInv'
<1> DEFINE t == wfCall[c].text
           end == Min({Len(t), offset + WfMaxRead})
           page == SubSeq(t, offset + 1, end)
           answer == IF end < Len(t) THEN "more" ELSE "end"
           k == [wfCall[c] EXCEPT !.pc = "done", !.text = page, !.result = answer]
<1>1. /\ wfCall \in [WfCalls -> CallRecords] /\ wfTemp \subseteq WfCalls /\ t \in Seq(Marks)
  BY DEF WfIInv, WfTypes, CallRecords
<1>2. /\ wfCall[c].pc = "opened" /\ c \notin wfTemp /\ UNCHANGED <<wfFs, wfFile, wfTemp>>
      /\ offset <= Len(t)
      /\ wfCall' = [wfCall EXCEPT ![c].pc = "done", ![c].text = page, ![c].result = answer]
  BY DEF WfRead, WfIInv, TempsAreOwned
<1>3. Len(t) \in Nat /\ offset + WfMaxRead \in Nat /\ Len(t) <= WfLongest
  BY <1>1, WfAssumption DEF WfIInv, MarksOnce
<1>4. end \in {Len(t), offset + WfMaxRead} /\ end <= Len(t)
  <2> DEFINE a == Len(t)
             b == offset + WfMaxRead
  <2> HIDE DEF a, b
  <2>1. a \in Nat /\ b \in Nat
    BY <1>3 DEF a, b
  <2>2. \E x \in {a, b} : \A y \in {a, b} : x <= y
    BY <2>1
  <2>3. Min({a, b}) \in {a, b} /\ \A y \in {a, b} : Min({a, b}) <= y
    BY <2>2 DEF Min
  <2>4. QED
    BY <2>3 DEF a, b
<1> HIDE DEF end
<1>5. end \in Nat
  BY <1>3, <1>4
<1>6. \A i \in (offset + 1)..end : t[i] \in Marks /\ i \in 1..Len(t)
  BY <1>1, <1>3, <1>4, <1>5
<1>7. /\ page \in Seq(Marks) /\ Len(page) = IF offset + 1 <= end THEN end - (offset + 1) + 1 ELSE 0
      /\ \A i \in 1..(end - (offset + 1) + 1) : page[i] = t[(offset + 1) + i - 1]
  <2>1. offset + 1 \in Int /\ end \in Int
    BY <1>5
  <2>2. QED
    BY <1>6, <2>1, SubSeqProperties
<1> HIDE DEF page
<1>8. Len(page) <= WfLongest
  BY <1>3, <1>4, <1>5, <1>7, ManyMarks
<1>9. \A m \in WfCalls : Shows(page, m) => Shows(t, m)
  <2> SUFFICES ASSUME NEW m \in WfCalls, NEW i \in DOMAIN page, page[i] = m PROVE Shows(t, m)
    BY DEF Shows
  <2>1. DOMAIN page = 1..Len(page) /\ Len(page) \in Nat
    BY <1>7
  <2>2. /\ i \in 1..(end - (offset + 1) + 1)
        /\ (offset + 1) + i - 1 \in (offset + 1)..end
    BY <1>5, <1>7, <2>1
  <2>3. t[(offset + 1) + i - 1] = m /\ (offset + 1) + i - 1 \in 1..Len(t)
    BY <1>6, <1>7, <2>2
  <2>4. DOMAIN t = 1..Len(t)
    BY <1>1
  <2>5. QED
    BY <2>3, <2>4 DEF Shows
<1>10. \A m \in WfCalls : Shows(t, m) => m = c \/ wfCall[m].result = "written"
  BY DEF WfIInv, UnseenBefore
<1>11. answer \in {"more", "end"}
  OBVIOUS
<1>12. wfCall' = [wfCall EXCEPT ![c] = k]
  BY <1>1, <1>2 DEF CallRecords
<1> HIDE DEF answer
<1>13. /\ k \in CallRecords /\ k.text = page /\ k.path = wfCall[c].path /\ k.pc = "done"
       /\ k.result = answer
  BY <1>1, <1>7, <1>11 DEF CallRecords, WfRunning
<1> HIDE DEF k, t
<1>14. QED
  BY <1>1, <1>2, <1>8, <1>9, <1>10, <1>11, <1>12, <1>13, CallMoves

(* The new text of an edit.                                                   *)
LEMMA EditedText ==
    ASSUME NEW t \in Seq(Marks), NEW c \in WfCalls, NEW old \in Marks, Distinct(t), ~Shows(t, c),
           ReplaceEdit(t, old, c) # <<>>
    PROVE  /\ ReplaceEdit(t, old, c) \in Seq(Marks) /\ Len(ReplaceEdit(t, old, c)) = Len(t)
           /\ Distinct(ReplaceEdit(t, old, c))
           /\ \A m \in WfCalls : Shows(ReplaceEdit(t, old, c), m) => m = c \/ Shows(t, m)
<1> DEFINE new == [i \in DOMAIN t |-> IF t[i] = old THEN c ELSE t[i]]
<1>1. ReplaceEdit(t, old, c) = new
  BY DEF ReplaceEdit
<1>2. Len(t) \in Nat /\ DOMAIN t = 1..Len(t) /\ t \in [1..Len(t) -> Marks] /\ c \in Marks
  BY DEF Marks
<1>3. new \in [1..Len(t) -> Marks]
  BY <1>2
<1>4. \A i \in 1..Len(t) : new[i] = IF t[i] = old THEN c ELSE t[i]
  BY <1>2
<1> HIDE DEF new
<1>5. new \in Seq(Marks) /\ Len(new) = Len(t) /\ DOMAIN new = 1..Len(t)
  BY <1>2, <1>3
<1>6. Distinct(new)
  BY <1>2, <1>4, <1>5 DEF Distinct, Shows
<1>7. \A m \in WfCalls : Shows(new, m) => m = c \/ Shows(t, m)
  BY <1>2, <1>4, <1>5 DEF Shows
<1>8. QED
  BY <1>1, <1>5, <1>6, <1>7

(* WfEdit preserves the inductive invariant.                                  *)
LEMMA WfEditIInv ==
    ASSUME WfIInv, NEW c \in WfCalls, NEW old \in Marks, WfEdit(c, old)
    PROVE  WfIInv'
<1> DEFINE t == wfCall[c].text
           new == ReplaceEdit(t, old, c)
<1>1. /\ wfCall \in [WfCalls -> CallRecords] /\ wfTemp \subseteq WfCalls /\ t \in Seq(Marks)
  BY DEF WfIInv, WfTypes, CallRecords
<1>2. /\ wfCall[c].pc = "opened" /\ wfCall[c].result = "none" /\ c \notin wfTemp
      /\ UNCHANGED <<wfFs, wfFile, wfTemp>>
  BY DEF WfEdit, WfIInv, CallsInOrder, TempsAreOwned
<1>3. /\ Len(t) <= WfLongest /\ Distinct(t) /\ ~Shows(t, c)
      /\ \A m \in WfCalls : Shows(t, m) => wfCall[m].result = "written"
  BY <1>2 DEF WfIInv, MarksOnce, UnseenBefore
<1>4. CASE Answer(c, "error")
  <2> DEFINE k == [wfCall[c] EXCEPT !.pc = "done", !.result = "error"]
  <2>1. /\ k \in CallRecords /\ k.text = t /\ k.path = wfCall[c].path /\ k.pc = "done"
        /\ k.result = "error" /\ wfCall' = [wfCall EXCEPT ![c] = k]
    BY <1>1, <1>4 DEF Answer, CallRecords, WfRunning
  <2> HIDE DEF k
  <2>2. QED
    BY <1>1, <1>2, <1>3, <2>1, CallMoves
<1>5. CASE new # <<>> /\ wfCall' = [wfCall EXCEPT ![c].pc = "edited", ![c].text = new]
  <2>1. /\ new \in Seq(Marks) /\ Len(new) = Len(t) /\ Distinct(new)
        /\ \A m \in WfCalls : Shows(new, m) => m = c \/ Shows(t, m)
    BY <1>1, <1>3, <1>5, EditedText
  <2> DEFINE k == [wfCall[c] EXCEPT !.pc = "edited", !.text = new]
  <2>2. wfCall' = [wfCall EXCEPT ![c] = k]
    BY <1>1, <1>5 DEF CallRecords
  <2> HIDE DEF new
  <2>3. /\ k \in CallRecords /\ k.text = new /\ k.path = wfCall[c].path /\ k.pc = "edited"
        /\ k.result = "none" /\ k.step = 0
    BY <1>1, <1>2, <2>1 DEF CallRecords, WfRunning, WfIInv, CallsInOrder
  <2>4. 0 < Len(WriteSteps(wfCall[c].path))
    BY EnoughSteps
  <2>5. k.step < Len(WriteSteps(k.path))
    BY <2>3, <2>4, Zenon
  <2> HIDE DEF k
  <2>6. QED
    BY <1>1, <1>2, <1>3, <2>1, <2>2, <2>3, <2>5, CallMoves
<1>6. QED
  BY <1>4, <1>5 DEF WfEdit

(* WfAppend preserves the inductive invariant.                                *)
LEMMA WfAppendIInv == ASSUME WfIInv, NEW c \in WfCalls, WfAppend(c) PROVE WfIInv'
<1> DEFINE t == wfCall[c].text
           new == Append(t, c)
           k == [wfCall[c] EXCEPT !.pc = "edited", !.text = new]
<1>1. /\ wfCall \in [WfCalls -> CallRecords] /\ wfTemp \subseteq WfCalls /\ t \in Seq(Marks)
      /\ c \in Marks
  BY DEF WfIInv, WfTypes, CallRecords, Marks
<1>2. /\ wfCall[c].pc = "opened" /\ wfCall[c].result = "none" /\ c \notin wfTemp
      /\ UNCHANGED <<wfFs, wfFile, wfTemp>>
  BY DEF WfAppend, WfIInv, CallsInOrder, TempsAreOwned
<1>3. /\ Distinct(t) /\ ~Shows(t, c)
      /\ \A m \in WfCalls : Shows(t, m) => wfCall[m].result = "written"
  BY <1>2 DEF WfIInv, MarksOnce, UnseenBefore
<1>4. wfCall' = [wfCall EXCEPT ![c] = k]
  BY <1>1 DEF WfAppend, CallRecords
<1> HIDE DEF t
<1>5. /\ new \in Seq(Marks) /\ Len(new) = Len(t) + 1 /\ new[Len(t) + 1] = c
      /\ \A i \in 1..Len(t) : new[i] = t[i]
  BY <1>1, AppendProperties
<1> HIDE DEF new
<1>6. DOMAIN t = 1..Len(t) /\ DOMAIN new = 1..(Len(t) + 1) /\ Len(t) \in Nat
  BY <1>1, <1>5
<1>7. Distinct(new)
  <2> SUFFICES ASSUME NEW i \in DOMAIN new, NEW j \in DOMAIN new, new[i] = new[j] PROVE i = j
    BY DEF Distinct
  <2>1. \A x \in DOMAIN new : x = Len(t) + 1 \/ x \in DOMAIN t
    BY <1>6
  <2>2. \A x \in DOMAIN t : new[x] = t[x] /\ t[x] # c
    BY <1>3, <1>5, <1>6 DEF Shows
  <2>3. QED
    BY <1>3, <1>5, <2>1, <2>2 DEF Distinct
<1>8. \A m \in WfCalls : Shows(new, m) => m = c \/ Shows(t, m)
  <2> SUFFICES ASSUME NEW m \in WfCalls, NEW i \in DOMAIN new, new[i] = m PROVE m = c \/ Shows(t, m)
    BY DEF Shows
  <2>1. i = Len(t) + 1 \/ i \in DOMAIN t
    BY <1>6
  <2>2. QED
    BY <1>5, <1>6, <2>1 DEF Shows
<1>9. Len(new) <= WfLongest
  BY <1>5, <1>7, DistinctIsShort
<1>10. /\ k \in CallRecords /\ k.text = new /\ k.path = wfCall[c].path /\ k.pc = "edited"
       /\ k.result = "none" /\ k.step = 0
  <2>1. wfCall[c].step = 0
    BY <1>2 DEF WfIInv, CallsInOrder
  <2>2. QED
    BY <1>1, <1>2, <1>5, <2>1 DEF CallRecords, WfRunning
<1>11. 0 < Len(WriteSteps(wfCall[c].path))
  BY EnoughSteps
<1>12. k.step < Len(WriteSteps(k.path))
  BY <1>10, <1>11, Zenon
<1> HIDE DEF k
<1>13. QED
  BY <1>1, <1>2, <1>3, <1>4, <1>7, <1>8, <1>9, <1>10, <1>12, CallMoves

(* WfWriteStep preserves the inductive invariant.                             *)
LEMMA WfWriteStepIInv == ASSUME WfIInv, NEW c \in WfCalls, WfWriteStep(c) PROVE WfIInv'
<1> DEFINE p == wfCall[c].path
           steps == WriteSteps(p)
           s == wfCall[c].step + 1
<1>1. /\ wfCall \in [WfCalls -> CallRecords] /\ wfTemp \subseteq WfCalls /\ wfCall[c].step \in 0..5
  BY DEF WfIInv, WfTypes, CallRecords
<1>2. /\ wfCall[c].pc = "edited" /\ wfCall[c].result = "none" /\ wfCall[c].step < Len(steps)
      /\ UNCHANGED wfFs
  BY DEF WfWriteStep, WfIInv, CallsInOrder
<1>3. /\ Len(steps) \in {5, 6} /\ steps[Len(steps)] = "rename"
      /\ \A i \in 1..Len(steps) : i < Len(steps) => steps[i] # "rename"
  BY EnoughSteps DEF WriteSteps, HostWrite, SandboxWrite
<1>4. CASE s = Len(steps)
  <2>1. steps[s] = "rename" /\ steps[s] # "create"
    BY <1>3, <1>4
  <2>2. /\ Answer(c, "written") /\ wfFile' = [wfFile EXCEPT ![p] = wfCall[c].text]
        /\ wfTemp' = wfTemp \ {c}
    BY <1>4, <2>1 DEF WfWriteStep
  <2>3. QED
    BY <1>2, <2>2, TextBecomesFile
<1>5. CASE s # Len(steps)
  <2>1. s \in 1..5 /\ s < Len(steps)
    BY <1>1, <1>2, <1>3, <1>5
  <2>2. steps[s] # "rename"
    BY <1>3, <2>1
  <2>3. /\ wfCall' = [wfCall EXCEPT ![c].step = s] /\ UNCHANGED wfFile
        /\ wfTemp' = wfTemp \cup {c} \/ UNCHANGED wfTemp
    BY <1>5, <2>2 DEF WfWriteStep
  <2> DEFINE k == [wfCall[c] EXCEPT !.step = s]
  <2>4. wfCall' = [wfCall EXCEPT ![c] = k]
    BY <2>3
  <2> HIDE DEF s
  <2>5. /\ k \in CallRecords /\ k.text = wfCall[c].text /\ k.path = p /\ k.pc = "edited"
        /\ k.result = "none" /\ k.step = s
    BY <1>1, <1>2, <2>1 DEF CallRecords
  <2> HIDE DEF k
  <2>6. /\ Len(k.text) <= WfLongest /\ Distinct(k.text)
        /\ \A m \in WfCalls : Shows(k.text, m) => m = c \/ wfCall[m].result = "written"
    BY <1>2, <2>5 DEF WfIInv, MarksOnce, UnseenBefore
  <2>7. wfTemp' \subseteq WfCalls /\ \A d \in wfTemp' : d # c => d \in wfTemp
    BY <1>1, <2>3
  <2>8. k.step < Len(WriteSteps(k.path))
    BY <2>1, <2>5
  <2> HIDE DEF p, steps
  <2>9. QED
    BY <1>2, <2>3, <2>4, <2>5, <2>6, <2>7, <2>8, CallMoves DEF p
<1>6. QED
  BY <1>4, <1>5

(* WfWriteFails preserves the inductive invariant.                            *)
LEMMA WfWriteFailsIInv == ASSUME WfIInv, NEW c \in WfCalls, WfWriteFails(c) PROVE WfIInv'
<1> DEFINE k == [wfCall[c] EXCEPT !.pc = "done", !.result = "error"]
<1>1. /\ wfCall \in [WfCalls -> CallRecords] /\ wfTemp \subseteq WfCalls
      /\ wfCall[c].pc = "edited" /\ Answer(c, "error")
      /\ wfTemp' = wfTemp \ {c} /\ UNCHANGED <<wfFs, wfFile>>
  BY DEF WfIInv, WfTypes, WfWriteFails
<1>2. /\ k \in CallRecords /\ k.text = wfCall[c].text /\ k.path = wfCall[c].path /\ k.pc = "done"
      /\ k.result = "error" /\ wfCall' = [wfCall EXCEPT ![c] = k]
  BY <1>1 DEF Answer, CallRecords, WfRunning
<1> HIDE DEF k
<1>3. wfCall[c].result = "none"
  BY <1>1 DEF WfIInv, CallsInOrder
<1>4. /\ Len(k.text) <= WfLongest
      /\ \A m \in WfCalls : Shows(k.text, m) => m = c \/ wfCall[m].result = "written"
  BY <1>2 DEF WfIInv, MarksOnce, UnseenBefore
<1>5. wfTemp' \subseteq WfCalls /\ c \notin wfTemp' /\ \A d \in wfTemp' : d # c => d \in wfTemp
  BY <1>1
<1>6. QED
  BY <1>1, <1>2, <1>4, <1>5, CallMoves

(* WfCrash preserves the inductive invariant.                                 *)
LEMMA WfCrashIInv == ASSUME WfIInv, WfCrash PROVE WfIInv'
<1>1. /\ wfCall \in [WfCalls -> CallRecords] /\ UNCHANGED <<wfFs, wfFile, wfTemp>>
      /\ wfCall' = [c \in WfCalls |-> IF wfCall[c].pc = "done" THEN wfCall[c]
                                      ELSE [wfCall[c] EXCEPT !.pc = "dead"]]
  BY DEF WfIInv, WfTypes, WfCrash
<1>2. \A c \in WfCalls :
        /\ wfCall'[c] \in CallRecords /\ wfCall'[c].text = wfCall[c].text /\ wfCall'[c].path = wfCall[c].path
        /\ wfCall'[c].result = wfCall[c].result /\ wfCall'[c].step = wfCall[c].step
        /\ wfCall'[c].pc = IF wfCall[c].pc = "done" THEN "done" ELSE "dead"
  BY <1>1 DEF CallRecords
<1>3. wfCall' \in [WfCalls -> CallRecords]
  BY <1>1, <1>2
<1>4. WfTypes'
  BY <1>1, <1>3 DEF WfIInv, WfTypes
<1>5. MarksOnce'
  BY <1>1, <1>2 DEF WfIInv, MarksOnce
<1>6. UnseenBefore'
  BY <1>1, <1>2 DEF WfIInv, UnseenBefore
<1>7. CallsInOrder'
  BY <1>1, <1>2 DEF WfIInv, CallsInOrder
<1>8. WholeFiles'
  BY <1>1, <1>2 DEF WfIInv, WholeFiles
<1>9. TempsAreOwned'
  BY <1>1, <1>2, <1>3 DEF WfIInv, WfTypes, TempsAreOwned
<1>10. QED
  BY <1>4, <1>5, <1>6, <1>7, <1>8, <1>9 DEF WfIInv

(* TLC: WfInv.  However many calls read and write a file at once, whatever    *)
(* step of a write fails and wherever the process ends, the file is what one  *)
(* call meant to write, and a call that failed left no trace in any file.     *)
THEOREM FilesCorrect == WfSpec => []WfInv
<1>1. WfInit => WfIInv
  <2> SUFFICES ASSUME WfInit PROVE WfIInv
    OBVIOUS
  <2>1. PICK there \in [WfPaths -> BOOLEAN] :
          wfFile = [p \in WfPaths |-> IF there[p] THEN <<0>> ELSE WfAbsent]
    BY DEF WfInit
  <2>2. PICK tool \in [WfCalls -> WfTools], path \in [WfCalls -> WfPaths] :
          wfCall = [c \in WfCalls |->
                      [tool |-> tool[c], path |-> path[c], pc |-> "idle", text |-> <<>>,
                       step |-> 0, result |-> "none"]]
    BY DEF WfInit
  <2> DEFINE zero == <<0>>
             empty == <<>>
  <2>3. zero \in Seq(Marks) /\ DOMAIN zero = {1} /\ zero[1] = 0 /\ WfAbsent \in Seq(Marks)
    BY DEF WfAbsent, Marks
  <2>4. empty \in Seq(Marks) /\ DOMAIN empty = {} /\ Len(empty) = 0
    OBVIOUS
  <2> HIDE DEF zero, empty
  <2>5. \A p \in WfPaths : wfFile[p] \in {zero, WfAbsent}
    BY <2>1 DEF zero
  <2>6. wfFile \in [WfPaths -> Seq(Marks)]
    <3>1. wfFile = [p \in WfPaths |-> wfFile[p]]
      BY <2>1
    <3>2. QED
      BY <2>3, <2>5, <3>1
  <2>7. \A c \in WfCalls : /\ wfCall[c] \in CallRecords /\ wfCall[c].pc = "idle" /\ wfCall[c].text = empty
                           /\ wfCall[c].step = 0 /\ wfCall[c].result = "none"
    BY <2>2, <2>4 DEF CallRecords, WfRunning, empty
  <2>8. wfCall \in [WfCalls -> CallRecords]
    BY <2>2, <2>7
  <2>9. WfTypes
    BY <2>6, <2>8 DEF WfInit, WfTypes
  <2>10. MarksOnce
    BY <2>3, <2>4, <2>5, <2>7, ManyMarks DEF MarksOnce, Distinct
  <2>11. \A p \in WfPaths, c \in WfCalls : ~Shows(wfFile[p], c)
    <3> SUFFICES ASSUME NEW p \in WfPaths, NEW c \in WfCalls, NEW i \in DOMAIN wfFile[p], wfFile[p][i] = c
                 PROVE  FALSE
      BY DEF Shows
    <3>1. wfFile[p][i] = 0
      BY <2>3, <2>5 DEF WfAbsent
    <3>2. QED
      BY <3>1, ManyMarks
  <2>12. \A c, d \in WfCalls : ~Shows(wfCall[d].text, c)
    BY <2>4, <2>7 DEF Shows
  <2>13. UnseenBefore
    BY <2>11, <2>12 DEF UnseenBefore
  <2>14. CallsInOrder
    BY <2>7 DEF CallsInOrder
  <2>15. WholeFiles
    BY <2>5 DEF WholeFiles, zero
  <2>16. TempsAreOwned
    BY DEF WfInit, TempsAreOwned
  <2>17. QED
    BY <2>9, <2>10, <2>13, <2>14, <2>15, <2>16 DEF WfIInv
<1>2. WfIInv => WfInv
  <2> SUFFICES ASSUME WfIInv PROVE WfInv
    OBVIOUS
  <2>1. WfTypes /\ MarksOnce /\ UnseenBefore /\ CallsInOrder /\ WholeFiles /\ TempsAreOwned
    BY DEF WfIInv
  <2>2. \A p \in WfPaths : wfFile[p] \in WfText
    <3> SUFFICES ASSUME NEW p \in WfPaths PROVE wfFile[p] \in WfText
      OBVIOUS
    <3>1. wfFile[p] \in Seq(Marks)
      BY <2>1 DEF WfTypes
    <3>2. CASE wfFile[p] = WfAbsent
      <4>1. Len(WfAbsent) = 2
        BY DEF WfAbsent
      <4>2. Len(wfFile[p]) <= WfLongest
        BY <3>2, <4>1, ManyMarks
      <4>3. QED
        BY <3>1, <4>2, ShortIsText
    <3>3. CASE Distinct(wfFile[p])
      BY <3>1, <3>3, DistinctIsShort, ShortIsText
    <3>4. QED
      BY <2>1, <3>2, <3>3 DEF MarksOnce
  <2>3. \A c \in WfCalls : wfCall[c] \in CallRecords /\ wfCall[c].text \in WfText
    BY <2>1, ShortIsText DEF WfTypes, MarksOnce, CallRecords
  <2>4. WfTypeOK
    BY <2>1, <2>2, <2>3 DEF WfTypeOK, WfTypes, CallRecords
  <2>5. FailedLeavesNothing
    <3> SUFFICES ASSUME NEW c \in WfCalls, wfCall[c].result = "error"
                 PROVE  c \notin wfTemp /\ \A p \in WfPaths : c \notin ToSet(wfFile[p])
      BY DEF FailedLeavesNothing
    <3>1. wfCall[c].pc = "done"
      BY <2>1 DEF CallsInOrder
    <3>2. c \notin wfTemp
      BY <2>1, <3>1 DEF TempsAreOwned
    <3>3. \A p \in WfPaths : ~Shows(wfFile[p], c)
      BY <2>1 DEF UnseenBefore
    <3>4. QED
      BY <3>2, <3>3 DEF Shows, ToSet
  <2>6. QED
    BY <2>1, <2>4, <2>5 DEF WfInv
<1>3. WfIInv /\ [WfNext]_wfVars => WfIInv'
  <2> SUFFICES ASSUME WfIInv, [WfNext]_wfVars PROVE WfIInv'
    OBVIOUS
  <2>1. ASSUME NEW c \in WfCalls, NEW offset \in 0..Cardinality(WfCalls), WfRead(c, offset) PROVE WfIInv'
    <3>1. offset \in Nat
      OBVIOUS
    <3>2. QED
      BY <2>1, <3>1, WfReadIInv
  <2>2. ASSUME NEW c \in WfCalls, NEW old \in WfCalls \cup {0}, WfEdit(c, old) PROVE WfIInv'
    BY <2>2, WfEditIInv DEF Marks
  <2>3. CASE UNCHANGED wfVars
    BY <2>3 DEF wfVars, WfIInv, WfTypes, MarksOnce, UnseenBefore, CallsInOrder, WholeFiles, TempsAreOwned,
                WriteSteps, ServedBy
  <2>4. QED
    BY <2>1, <2>2, <2>3, WfOpenIInv, WfAppendIInv, WfWriteStepIInv, WfWriteFailsIInv, WfCrashIInv DEF WfNext
<1>4. QED
  BY <1>1, <1>2, <1>3, PTL DEF WfSpec

(***************************************************************************)
(* Sub-agents.  A run is announced by its end, once, and from then on is   *)
(* in the notes or was told to a turn.  Callers were started before those  *)
(* they start, and whoever lives is listed as running or was cancelled.    *)
(***************************************************************************)
NotedAt(r, i) == i \in DOMAIN swNotes /\ swNotes[i] = r
ToldAt(r, i) == i \in DOMAIN swTold /\ swTold[i] = <<r, "turn">>
Noted(r) == \E i \in DOMAIN swNotes : swNotes[i] = r
TurnTold(r) == \E i \in DOMAIN swTold : swTold[i] = <<r, "turn">>
AnswerIsDue(run) == run.step = "over" /\ run.outcome = "answer"

SaidOnce ==
  /\ \A r \in Runs, i, j \in DOMAIN swNotes : swNotes[i] = r /\ swNotes[j] = r => i = j
  /\ \A r \in Runs, i, j \in DOMAIN swTold :
       swTold[i] = <<r, "turn">> /\ swTold[j] = <<r, "turn">> => i = j
  /\ \A r \in Runs : /\ ~(Noted(r) /\ TurnTold(r))
                     /\ Noted(r) \/ TurnTold(r) <=> AnswerIsDue(swRuns[r])

CallersFirst ==
  \A r \in Runs :
    /\ swParent[r] # MainAgent => swParent[r] < swNext
    /\ r >= swNext => swRuns[r].step = "none" /\ swParent[r] = MainAgent

ListedOrCancelled ==
  \A r \in Runs : /\ swRuns[r].status = "running" => Alive(r)
                  /\ Alive(r) => swRuns[r].status = "running" \/ r \in swKilled

SwIInv ==
  /\ SwTypeOK /\ SaidOnce /\ CallersFirst /\ ListedOrCancelled
  /\ swClosed <= swNext /\ ClosedRunsAreCancelled

(* The ancestors of r as the callers parent has them.                         *)
Up(parent, r) ==
  {a \in Runs : \A up \in SUBSET Runs :
     r \in up /\ (\A x \in up : parent[x] \in up \cup {MainAgent}) => a \in up}

(* Ancestors are in every set that has the run and its callers.               *)
LEMMA UpIsLeast ==
    ASSUME NEW parent, NEW r, NEW up \in SUBSET Runs, r \in up,
           \A x \in up : parent[x] \in up \cup {MainAgent}
    PROVE  Up(parent, r) \subseteq up
  BY DEF Up

(* Ancestors are runs, the run itself among them, and their callers are       *)
(* ancestors.                                                                 *)
LEMMA UpIsClosed ==
    ASSUME NEW parent \in [Runs -> 0..MaxRuns], NEW r \in Runs
    PROVE  /\ Up(parent, r) \in SUBSET Runs /\ r \in Up(parent, r)
           /\ \A x \in Up(parent, r) : parent[x] \in Up(parent, r) \cup {MainAgent}
<1>1. Up(parent, r) \in SUBSET Runs /\ r \in Up(parent, r)
  BY DEF Up
<1>2. ASSUME NEW x \in Up(parent, r), parent[x] # MainAgent PROVE parent[x] \in Up(parent, r)
  <2>1. x \in Runs /\ parent[x] \in Runs
    BY <1>1, <1>2, SwAssumption DEF Runs, MainAgent
  <2>2. ASSUME NEW up \in SUBSET Runs, r \in up, \A y \in up : parent[y] \in up \cup {MainAgent}
        PROVE  parent[x] \in up
    <3>1. x \in up
      BY <2>2, UpIsLeast
    <3>2. QED
      BY <1>2, <2>2, <3>1
  <2>3. QED
    BY <2>1, <2>2 DEF Up
<1>3. QED
  BY <1>1, <1>2

(* The ancestors of a run are it and those of its caller.                     *)
LEMMA UpOfCaller ==
    ASSUME NEW parent \in [Runs -> 0..MaxRuns], NEW r \in Runs
    PROVE  /\ parent[r] = MainAgent => Up(parent, r) = {r}
           /\ \A c \in Runs : parent[r] = c => Up(parent, r) = {r} \cup Up(parent, c)
<1>1. /\ Up(parent, r) \in SUBSET Runs /\ r \in Up(parent, r)
      /\ \A x \in Up(parent, r) : parent[x] \in Up(parent, r) \cup {MainAgent}
  BY UpIsClosed
<1>2. ASSUME parent[r] = MainAgent PROVE Up(parent, r) = {r}
  <2>1. Up(parent, r) \subseteq {r}
    <3> DEFINE up == {r}
    <3>1. up \in SUBSET Runs /\ r \in up /\ \A x \in up : parent[x] \in up \cup {MainAgent}
      BY <1>2
    <3> HIDE DEF up
    <3>2. Up(parent, r) \subseteq up
      BY <3>1, UpIsLeast
    <3>3. QED
      BY <3>2 DEF up
  <2>2. QED
    BY <1>1, <2>1
<1>3. ASSUME NEW c \in Runs, parent[r] = c PROVE Up(parent, r) = {r} \cup Up(parent, c)
  <2>1. /\ Up(parent, c) \in SUBSET Runs /\ c \in Up(parent, c)
        /\ \A x \in Up(parent, c) : parent[x] \in Up(parent, c) \cup {MainAgent}
    BY UpIsClosed
  <2>2. Up(parent, r) \subseteq {r} \cup Up(parent, c)
    <3> DEFINE up == {r} \cup Up(parent, c)
    <3>1. up \in SUBSET Runs /\ r \in up /\ \A x \in up : parent[x] \in up \cup {MainAgent}
      BY <1>3, <2>1
    <3> HIDE DEF up
    <3>2. Up(parent, r) \subseteq up
      BY <3>1, UpIsLeast
    <3>3. QED
      BY <3>2 DEF up
  <2>3. c # MainAgent
    BY SwAssumption DEF Runs, MainAgent
  <2>4. c \in Up(parent, r)
    BY <1>1, <1>3, <2>3
  <2>5. Up(parent, c) \subseteq Up(parent, r)
    BY <1>1, <2>4, UpIsLeast
  <2>6. QED
    BY <1>1, <2>2, <2>5
<1>4. QED
  BY <1>2, <1>3

(* A new run is nobody's ancestor, and changes nobody else's.                 *)
LEMMA UpOfOthers ==
    ASSUME NEW parent \in [Runs -> 0..MaxRuns], NEW new \in Runs, NEW c \in 0..MaxRuns, NEW r \in Runs,
           parent[new] = MainAgent, new \notin Up(parent, r)
    PROVE  Up([parent EXCEPT ![new] = c], r) = Up(parent, r)
<1> DEFINE after == [parent EXCEPT ![new] = c]
<1>1. after \in [Runs -> 0..MaxRuns] /\ \A x \in Runs : x # new => after[x] = parent[x]
  OBVIOUS
<1> HIDE DEF after
<1>2. /\ Up(parent, r) \in SUBSET Runs /\ r \in Up(parent, r)
      /\ \A x \in Up(parent, r) : parent[x] \in Up(parent, r) \cup {MainAgent}
  BY UpIsClosed
<1>3. /\ Up(after, r) \in SUBSET Runs /\ r \in Up(after, r)
      /\ \A x \in Up(after, r) : after[x] \in Up(after, r) \cup {MainAgent}
  BY <1>1, UpIsClosed
<1>4. Up(after, r) \subseteq Up(parent, r)
  <2>1. \A x \in Up(parent, r) : after[x] \in Up(parent, r) \cup {MainAgent}
    BY <1>1, <1>2
  <2>2. QED
    BY <1>2, <2>1, UpIsLeast
<1>5. Up(parent, r) \subseteq Up(after, r)
  <2>1. \A x \in Up(after, r) : parent[x] \in Up(after, r) \cup {MainAgent}
    BY <1>1, <1>3
  <2>2. QED
    BY <1>3, <2>1, UpIsLeast
<1>6. QED
  BY <1>4, <1>5 DEF after

(* The ancestors of a run that was started were started.                      *)
LEMMA AncestorsWereStarted ==
    ASSUME SwTypeOK, CallersFirst, NEW r \in Runs, r < swNext
    PROVE  \A a \in Up(swParent, r) : a < swNext
<1> DEFINE up == {x \in Runs : x < swNext}
<1>1. up \in SUBSET Runs /\ r \in up
  OBVIOUS
<1>2. ASSUME NEW x \in up PROVE swParent[x] \in up \cup {MainAgent}
  BY SwAssumption DEF SwTypeOK, CallersFirst, Runs, MainAgent
<1> HIDE DEF up
<1>3. Up(swParent, r) \subseteq up
  BY <1>1, <1>2, UpIsLeast
<1>4. QED
  BY <1>3 DEF up

(* The ancestors of the model are those of swParent.                          *)
LEMMA AncestorsUp == \A r : Ancestors(r) = Up(swParent, r)
  BY DEF Ancestors, Up

(* A context is done when an ancestor was cancelled.                          *)
LEMMA ContextUp == \A r : ContextDone(r) <=> \E a \in Up(swParent, r) : a \in swKilled
  BY AncestorsUp DEF ContextDone

(* ClosedRunsAreCancelled, of a state that is given.                          *)
CancelledIn(runs, parent, killed, closed) ==
  \A r \in Runs : runs[r].step \in {"chat", "tools", "ended"}
                    /\ (\E x \in Up(parent, r) : x < closed)
                  => \E a \in Up(parent, r) : a \in killed

(* The two forms of the invariant agree, of this state and of the next.       *)
LEMMA ClosedIn == ClosedRunsAreCancelled <=> CancelledIn(swRuns, swParent, swKilled, swClosed)
  BY AncestorsUp, ContextUp DEF ClosedRunsAreCancelled, CancelledIn, Alive

(* The same of the next state.                                                *)
LEMMA ClosedInNext ==
    ClosedRunsAreCancelled' <=> CancelledIn(swRuns', swParent', swKilled', swClosed')
  BY DEF ClosedRunsAreCancelled, CancelledIn, Alive, Ancestors, ContextDone, Up

----------------------------------------------------------------------------
(* A step of a run that changes neither what is announced nor who called it.  *)
LEMMA RunMoves ==
    ASSUME SwIInv, NEW r \in Runs, NEW run \in RunRecord, swRuns' = [swRuns EXCEPT ![r] = run],
           UNCHANGED <<swParent, swNext, swNotes, swTold, swKilled, swClosed>>,
           swRuns[r].step \in {"chat", "tools"}, run.step \in {"chat", "tools", "ended"},
           run.status = swRuns[r].status
    PROVE  SwIInv'
<1>1. /\ swRuns \in [Runs -> RunRecord] /\ swRuns' \in [Runs -> RunRecord] /\ swRuns'[r] = run
      /\ \A q \in Runs : q # r => swRuns'[q] = swRuns[q]
  BY DEF SwIInv, SwTypeOK
<1>2. SwTypeOK'
  BY <1>1 DEF SwIInv, SwTypeOK
<1>3. SaidOnce'
  <2>1. \A q \in Runs : AnswerIsDue(swRuns'[q]) <=> AnswerIsDue(swRuns[q])
    BY <1>1 DEF AnswerIsDue
  <2>2. QED
    BY <2>1 DEF SwIInv, SaidOnce, Noted, TurnTold
<1>4. CallersFirst'
  BY <1>1 DEF SwIInv, CallersFirst
<1>5. ListedOrCancelled'
  BY <1>1 DEF SwIInv, ListedOrCancelled, Alive
<1>6. CancelledIn(swRuns', swParent', swKilled', swClosed')
  BY <1>1, ClosedIn DEF SwIInv, CancelledIn
<1>7. ClosedRunsAreCancelled'
  BY <1>6, ClosedInNext
<1>8. (swClosed <= swNext)'
  BY DEF SwIInv
<1>9. QED
  BY <1>2, <1>3, <1>4, <1>5, <1>7, <1>8 DEF SwIInv

(* SwChat preserves the inductive invariant.                                  *)
LEMMA SwChatIInv ==
    ASSUME SwIInv, NEW r \in Runs, NEW reply \in {"tools", "answer", "error"}, SwChat(r, reply)
    PROVE  SwIInv'
<1> DEFINE step == IF reply = "tools" THEN "tools" ELSE "ended"
           outcome == IF reply = "tools" THEN "none" ELSE reply
           run == [swRuns[r] EXCEPT !.step = step, !.outcome = outcome]
<1>1. swRuns \in [Runs -> RunRecord] /\ swRuns[r].step = "chat"
  BY DEF SwIInv, SwTypeOK, SwChat
<1>2. step \in {"tools", "ended"} /\ outcome \in {"none", "answer", "error"}
  OBVIOUS
<1>3. swRuns' = [swRuns EXCEPT ![r] = run]
  BY <1>1 DEF SwChat
<1> HIDE DEF step, outcome
<1>4. run \in RunRecord /\ run.step = step /\ run.status = swRuns[r].status
  BY <1>1, <1>2 DEF RunRecord, Outcomes
<1> HIDE DEF run
<1>5. QED
  BY <1>1, <1>2, <1>3, <1>4, RunMoves DEF SwChat

(* SwToolsDone preserves the inductive invariant.                             *)
LEMMA SwToolsDoneIInv == ASSUME SwIInv, NEW r \in Runs, SwToolsDone(r) PROVE SwIInv'
<1> DEFINE run == Iterated(swRuns[r])
<1>1. swRuns \in [Runs -> RunRecord] /\ swRuns[r].step = "tools"
  BY DEF SwIInv, SwTypeOK, SwToolsDone
<1>2. swRuns' = [swRuns EXCEPT ![r] = run]
  BY <1>1 DEF SwToolsDone
<1>3. swRuns[r].loop \in 0..MaxLoop /\ swRuns[r] \in RunRecord
  BY <1>1 DEF RunRecord
<1>4. CASE swRuns[r].loop < MaxLoop
  <2>1. swRuns[r].loop + 1 \in 0..MaxLoop
    BY <1>3, <1>4, SwAssumption
  <2>2. run = [swRuns[r] EXCEPT !.loop = swRuns[r].loop + 1, !.step = "chat"]
    BY <1>3, <1>4 DEF Iterated
  <2> HIDE DEF run
  <2>3. run \in RunRecord /\ run.step = "chat" /\ run.status = swRuns[r].status
    BY <1>3, <2>1, <2>2 DEF RunRecord
  <2>4. QED
    BY <1>1, <1>2, <2>3, RunMoves DEF SwToolsDone
<1>5. CASE ~(swRuns[r].loop < MaxLoop)
  <2>1. run = [swRuns[r] EXCEPT !.step = "ended", !.outcome = "answer"]
    BY <1>5 DEF Iterated
  <2> HIDE DEF run
  <2>2. run \in RunRecord /\ run.step = "ended" /\ run.status = swRuns[r].status
    BY <1>3, <2>1 DEF RunRecord, Outcomes
  <2>3. QED
    BY <1>1, <1>2, <2>2, RunMoves DEF SwToolsDone
<1>6. QED
  BY <1>4, <1>5

(* A run of the main agent, or of a run that lives and is done for if an      *)
(* ancestor was closed.                                                       *)
LEMMA SwSpawnIInv ==
    ASSUME SwIInv, NEW caller \in {MainAgent} \cup Runs, SwSpawn(caller)
    PROVE  SwIInv'
<1> DEFINE new == swNext
           run == [status |-> "running", loop |-> 1, step |-> "chat", outcome |-> "none",
                   parent |-> MainAgent, depth |-> 0]
<1>1. /\ swRuns \in [Runs -> RunRecord] /\ swParent \in [Runs -> 0..MaxRuns] /\ swNext \in Runs
      /\ caller \in 0..MaxRuns /\ CallersFirst /\ SwTypeOK
  BY SwAssumption DEF SwIInv, SwTypeOK, SwSpawn, MainAgent, Runs
<1>2. /\ swRuns' = [swRuns EXCEPT ![new] = run] /\ swParent' = [swParent EXCEPT ![new] = caller]
      /\ swNext' = swNext + 1 /\ UNCHANGED <<swNotes, swTold, swKilled, swClosed>>
      /\ caller = MainAgent \/ (caller \in Runs /\ swRuns[caller].step = "tools")
  BY DEF SwSpawn, SpawnParams
<1>3. /\ run \in RunRecord /\ run.step = "chat" /\ run.status = "running" /\ ~AnswerIsDue(run)
  BY SwAssumption DEF RunRecord, Outcomes, AnswerIsDue, MainAgent
<1> HIDE DEF run
<1>4. /\ swRuns' \in [Runs -> RunRecord] /\ swRuns'[new] = run
      /\ \A q \in Runs : q # new => swRuns'[q] = swRuns[q]
      /\ swParent' \in [Runs -> 0..MaxRuns] /\ swParent'[new] = caller
      /\ \A q \in Runs : q # new => swParent'[q] = swParent[q]
  BY <1>1, <1>2, <1>3
<1>5. swRuns[new].step = "none" /\ swParent[new] = MainAgent
  BY <1>1 DEF CallersFirst, Runs
<1>6. caller # MainAgent => caller \in Runs /\ caller < new
  BY <1>1, <1>2 DEF CallersFirst, Runs
<1>7. SwTypeOK'
  BY <1>1, <1>2, <1>4, SwAssumption DEF SwTypeOK, Runs
<1>8. SaidOnce'
  <2>1. \A q \in Runs : AnswerIsDue(swRuns'[q]) <=> AnswerIsDue(swRuns[q])
    BY <1>3, <1>4, <1>5 DEF AnswerIsDue
  <2>2. QED
    BY <1>2, <2>1 DEF SwIInv, SaidOnce, Noted, TurnTold
<1>9. CallersFirst'
  <2> SUFFICES ASSUME NEW q \in Runs
               PROVE  /\ swParent'[q] # MainAgent => swParent'[q] < swNext'
                      /\ q >= swNext' => swRuns'[q].step = "none" /\ swParent'[q] = MainAgent
    BY DEF CallersFirst
  <2>1. swNext' \in Nat /\ swNext' > swNext /\ swNext \in Nat /\ q \in Nat /\ \A i \in 0..MaxRuns : i \in Nat
    BY <1>1, <1>2 DEF Runs
  <2>2. CASE q = new
    BY <1>4, <1>6, <2>1, <2>2
  <2>3. CASE q # new
    <3>1. /\ swParent[q] # MainAgent => swParent[q] < swNext
          /\ q >= swNext => swRuns[q].step = "none" /\ swParent[q] = MainAgent
      BY <1>1 DEF CallersFirst
    <3>2. swParent[q] \in Nat /\ swParent'[q] = swParent[q] /\ swRuns'[q] = swRuns[q]
      BY <1>1, <1>4, <2>3
    <3>3. QED
      BY <2>1, <3>1, <3>2
  <2>4. QED
    BY <2>2, <2>3
<1>10. ListedOrCancelled'
  BY <1>2, <1>3, <1>4 DEF SwIInv, ListedOrCancelled, Alive
<1>11. (swClosed <= swNext)'
  BY <1>1, <1>2 DEF SwIInv, SwTypeOK, Runs
<1>12. CancelledIn(swRuns', swParent', swKilled', swClosed')
  <2> SUFFICES ASSUME NEW q \in Runs, swRuns'[q].step \in {"chat", "tools", "ended"},
                      NEW x \in Up(swParent', q), x < swClosed
               PROVE  \E a \in Up(swParent', q) : a \in swKilled
    BY <1>2 DEF CancelledIn
  <2>1. CancelledIn(swRuns, swParent, swKilled, swClosed)
    BY ClosedIn DEF SwIInv
  <2>2. \A y \in Runs : y < new => Up(swParent', y) = Up(swParent, y)
    <3> SUFFICES ASSUME NEW y \in Runs, y < new PROVE Up(swParent', y) = Up(swParent, y)
      OBVIOUS
    <3>1. new \notin Up(swParent, y)
      <4>1. \A a \in Up(swParent, y) : a < swNext
        BY <1>1, AncestorsWereStarted
      <4>2. ~(swNext < swNext)
        BY <1>1 DEF Runs
      <4>3. QED
        BY <4>1, <4>2
    <3>2. QED
      BY <1>1, <1>2, <1>5, <3>1, UpOfOthers
  <2>3. CASE q # new
    <3>1. q < new
      BY <1>1, <1>4, <2>3 DEF CallersFirst, Runs
    <3>2. Up(swParent', q) = Up(swParent, q) /\ swRuns'[q] = swRuns[q]
      BY <1>4, <2>2, <2>3, <3>1
    <3>3. QED
      BY <2>1, <3>2 DEF CancelledIn
  <2>4. CASE q = new
    <3>1. ~(new < swClosed)
      BY <1>1 DEF SwIInv, SwTypeOK, Runs
    <3>2. CASE caller = MainAgent
      <4>1. Up(swParent', new) = {new}
        BY <1>1, <1>4, <3>2, UpOfCaller
      <4>2. QED
        BY <2>4, <3>1, <4>1
    <3>3. CASE caller # MainAgent
      <4>1. caller \in Runs /\ caller < new /\ swRuns[caller].step = "tools"
        BY <1>2, <1>6, <3>3
      <4>2. Up(swParent', new) = {new} \cup Up(swParent, caller)
        BY <1>1, <1>4, <2>2, <4>1, UpOfCaller
      <4>3. x \in Up(swParent, caller)
        BY <2>4, <3>1, <4>2
      <4>4. \E a \in Up(swParent, caller) : a \in swKilled
        BY <2>1, <4>1, <4>3 DEF CancelledIn
      <4>5. QED
        BY <2>4, <4>2, <4>4
    <3>4. QED
      BY <3>2, <3>3
  <2>5. QED
    BY <2>3, <2>4
<1>13. QED
  BY <1>7, <1>8, <1>9, <1>10, <1>11, <1>12, ClosedInNext DEF SwIInv

(* The end of a run: it is noted if it answered, and nothing was said of it   *)
(* before.                                                                    *)
LEMMA SwEndIInv == ASSUME SwIInv, NEW r \in Runs, SwEnd(r) PROVE SwIInv'
<1> DEFINE status == CASE swRuns[r].outcome = "answer" -> "completed"
                       [] ContextDone(r) -> "canceled"
                       [] OTHER -> "failed"
           run == [swRuns[r] EXCEPT !.step = "over", !.status = status]
<1>1. /\ swRuns \in [Runs -> RunRecord] /\ swParent \in [Runs -> 0..MaxRuns] /\ swRuns[r].step = "ended"
      /\ swNotes \in Seq(Runs) /\ swTold \in Seq(Runs \X {"turn", "callback"})
      /\ UNCHANGED <<swParent, swNext, swKilled, swClosed>> /\ SwTypeOK /\ SaidOnce
  BY DEF SwIInv, SwTypeOK, SwEnd
<1>2. status \in {"completed", "canceled", "failed"}
  OBVIOUS
<1>3. swRuns' = [swRuns EXCEPT ![r] = run]
  <2>1. swRuns' = [swRuns EXCEPT ![r].step = "over", ![r].status = status]
    BY Zenon DEF SwEnd
  <2> HIDE DEF status
  <2>2. QED
    BY <1>1, <2>1
<1> HIDE DEF status
<1>4. /\ run \in RunRecord /\ run.step = "over" /\ run.status # "running" /\ run.outcome = swRuns[r].outcome
  BY <1>1, <1>2 DEF RunRecord
<1> HIDE DEF run
<1>5. /\ swRuns' \in [Runs -> RunRecord] /\ swRuns'[r] = run
      /\ \A q \in Runs : q # r => swRuns'[q] = swRuns[q]
  BY <1>1, <1>3, <1>4
<1>6. /\ swTold' \in Seq(Runs \X {"turn", "callback"})
      /\ \A q \in Runs : \A i : (i \in DOMAIN swTold' /\ swTold'[i] = <<q, "turn">>)
                              <=> (i \in DOMAIN swTold /\ swTold[i] = <<q, "turn">>)
  <2>1. CASE UNCHANGED swTold
    BY <1>1, <2>1
  <2>2. CASE swTold' = Append(swTold, <<r, "callback">>)
    <3> DEFINE said == <<r, "callback">>
    <3>1. said \in Runs \X {"turn", "callback"} /\ \A q \in Runs : said # <<q, "turn">>
      OBVIOUS
    <3> HIDE DEF said
    <3>2. /\ Append(swTold, said) \in Seq(Runs \X {"turn", "callback"})
          /\ Len(Append(swTold, said)) = Len(swTold) + 1
          /\ \A i \in 1..Len(swTold) : Append(swTold, said)[i] = swTold[i]
          /\ Append(swTold, said)[Len(swTold) + 1] = said
      BY <1>1, <3>1, AppendProperties
    <3>3. swTold' = Append(swTold, said)
      BY <2>2 DEF said
    <3>4. /\ DOMAIN swTold = 1..Len(swTold) /\ DOMAIN swTold' = 1..(Len(swTold) + 1) /\ Len(swTold) \in Nat
      BY <1>1, <3>2, <3>3
    <3>5. \A i \in DOMAIN swTold' : i \in DOMAIN swTold \/ i = Len(swTold) + 1
      BY <3>4
    <3>6. \A i \in DOMAIN swTold : i \in DOMAIN swTold'
      BY <3>4
    <3>7. QED
      BY <3>1, <3>2, <3>3, <3>4, <3>5, <3>6
  <2>3. QED
    BY <1>1, <2>1, <2>2 DEF SwEnd
<1>7. \A q \in Runs : TurnTold(q)' <=> TurnTold(q)
  BY <1>6 DEF TurnTold
<1>8. ~AnswerIsDue(swRuns[r]) /\ ~Noted(r) /\ ~TurnTold(r)
  BY <1>1 DEF SaidOnce, AnswerIsDue
<1>9. /\ swNotes' \in Seq(Runs)
      /\ \A q \in Runs : Noted(q)' <=> Noted(q) \/ (q = r /\ AnswerIsDue(run))
      /\ \A q \in Runs, i, j \in DOMAIN swNotes' : swNotes'[i] = q /\ swNotes'[j] = q => i = j
  <2>1. CASE swRuns[r].outcome # "answer"
    <3>1. UNCHANGED swNotes /\ ~AnswerIsDue(run)
      BY <1>4, <2>1 DEF SwEnd, Announced, AnswerIsDue
    <3>2. QED
      BY <1>1, <3>1 DEF Noted, SaidOnce
  <2>2. CASE swRuns[r].outcome = "answer"
    <3>1. swNotes' = Append(swNotes, r) /\ AnswerIsDue(run)
      BY <1>4, <2>2 DEF SwEnd, Announced, AnswerIsDue
    <3>2. /\ swNotes' \in Seq(Runs) /\ Len(swNotes') = Len(swNotes) + 1
          /\ \A i \in 1..Len(swNotes) : swNotes'[i] = swNotes[i]
          /\ swNotes'[Len(swNotes) + 1] = r
      BY <1>1, <3>1, AppendProperties
    <3>3. DOMAIN swNotes = 1..Len(swNotes) /\ DOMAIN swNotes' = 1..(Len(swNotes) + 1) /\ Len(swNotes) \in Nat
      BY <1>1, <3>2
    <3>4. /\ \A i \in DOMAIN swNotes' : i \in DOMAIN swNotes \/ i = Len(swNotes) + 1
          /\ \A i \in DOMAIN swNotes : i \in DOMAIN swNotes' /\ swNotes'[i] = swNotes[i] /\ swNotes[i] # r
          /\ Len(swNotes) + 1 \in DOMAIN swNotes'
      BY <1>8, <3>2, <3>3 DEF Noted
    <3>5. \A q \in Runs : Noted(q)' <=> Noted(q) \/ q = r
      BY <3>2, <3>4 DEF Noted
    <3>6. \A q \in Runs, i, j \in DOMAIN swNotes' : swNotes'[i] = q /\ swNotes'[j] = q => i = j
      BY <1>1, <3>2, <3>4 DEF SaidOnce
    <3>7. QED
      BY <3>1, <3>2, <3>5, <3>6
  <2>3. QED
    BY <2>1, <2>2
<1>10. SaidOnce'
  <2>1. \A q \in Runs : AnswerIsDue(swRuns'[q]) <=> AnswerIsDue(swRuns[q]) \/ (q = r /\ AnswerIsDue(run))
    BY <1>5, <1>8
  <2>2. \A q \in Runs, i, j \in DOMAIN swTold' :
          swTold'[i] = <<q, "turn">> /\ swTold'[j] = <<q, "turn">> => i = j
    BY <1>1, <1>6 DEF SaidOnce
  <2>3. \A q \in Runs : /\ ~(Noted(q)' /\ TurnTold(q)')
                        /\ Noted(q)' \/ TurnTold(q)' <=> AnswerIsDue(swRuns'[q])
    BY <1>1, <1>7, <1>8, <1>9, <2>1 DEF SaidOnce
  <2>4. QED
    BY <1>9, <2>2, <2>3 DEF SaidOnce
<1>11. SwTypeOK'
  BY <1>1, <1>5, <1>6, <1>9 DEF SwTypeOK
<1>12. CallersFirst'
  BY <1>1, <1>5 DEF SwIInv, CallersFirst
<1>13. ListedOrCancelled'
  BY <1>1, <1>4, <1>5 DEF SwIInv, ListedOrCancelled, Alive
<1>14. CancelledIn(swRuns', swParent', swKilled', swClosed')
  BY <1>1, <1>4, <1>5, ClosedIn DEF SwIInv, CancelledIn
<1>15. (swClosed <= swNext)'
  BY <1>1 DEF SwIInv
<1>16. QED
  BY <1>10, <1>11, <1>12, <1>13, <1>14, <1>15, ClosedInNext DEF SwIInv

(* A turn takes all the notes.                                                *)
LEMMA SwDrainIInv == ASSUME SwIInv, SwDrain PROVE SwIInv'
<1> DEFINE turns == [i \in DOMAIN swNotes |-> <<swNotes[i], "turn">>]
           n == Len(swTold)
<1>1. /\ swNotes \in Seq(Runs) /\ swTold \in Seq(Runs \X {"turn", "callback"})
      /\ swTold' = swTold \o turns /\ swNotes' = <<>>
      /\ UNCHANGED <<swRuns, swParent, swNext, swKilled, swClosed>> /\ SaidOnce /\ SwTypeOK
  BY DEF SwIInv, SwTypeOK, SwDrain
<1>2. /\ DOMAIN swNotes = 1..Len(swNotes) /\ Len(swNotes) \in Nat /\ \A i \in DOMAIN swNotes : swNotes[i] \in Runs
      /\ DOMAIN swTold = 1..n /\ n \in Nat /\ \A i \in DOMAIN swTold : swTold[i] \in Runs \X {"turn", "callback"}
  BY <1>1
<1>3. turns \in [1..Len(swNotes) -> Runs \X {"turn", "callback"}] /\ DOMAIN turns = DOMAIN swNotes
  BY <1>2
<1>4. \A i \in DOMAIN swNotes : turns[i] = <<swNotes[i], "turn">>
  OBVIOUS
<1> HIDE DEF turns
<1>5. turns \in Seq(Runs \X {"turn", "callback"}) /\ Len(turns) = Len(swNotes)
  BY <1>2, <1>3
<1>6. /\ swTold' \in Seq(Runs \X {"turn", "callback"}) /\ Len(swTold') = n + Len(swNotes)
      /\ \A i \in 1..(n + Len(swNotes)) : swTold'[i] = IF i <= n THEN swTold[i] ELSE turns[i - n]
  <2>1. /\ swTold \o turns \in Seq(Runs \X {"turn", "callback"})
        /\ Len(swTold \o turns) = Len(swTold) + Len(turns)
        /\ \A i \in 1..(Len(swTold) + Len(turns)) :
             (swTold \o turns)[i] = IF i <= Len(swTold) THEN swTold[i] ELSE turns[i - Len(swTold)]
    BY <1>1, <1>5, ConcatProperties
  <2>2. QED
    BY <1>1, <1>5, <2>1
<1>7. DOMAIN swTold' = 1..(n + Len(swNotes)) /\ DOMAIN swNotes' = {}
  BY <1>1, <1>6
<1> HIDE DEF n
<1>8. /\ \A i \in DOMAIN swTold : i \in DOMAIN swTold' /\ swTold'[i] = swTold[i]
      /\ \A i \in DOMAIN swNotes : n + i \in DOMAIN swTold' /\ swTold'[n + i] = <<swNotes[i], "turn">>
      /\ \A i \in DOMAIN swTold' : i \in DOMAIN swTold \/ (i - n \in DOMAIN swNotes /\ i = n + (i - n))
  <2>1. ASSUME NEW i \in DOMAIN swTold PROVE i \in DOMAIN swTold' /\ swTold'[i] = swTold[i]
    BY <1>2, <1>6, <1>7
  <2>2. ASSUME NEW i \in DOMAIN swNotes
        PROVE  n + i \in DOMAIN swTold' /\ swTold'[n + i] = <<swNotes[i], "turn">>
    <3>1. n + i \in 1..(n + Len(swNotes)) /\ ~(n + i <= n) /\ (n + i) - n = i
      BY <1>2
    <3>2. swTold'[n + i] = turns[i]
      BY <1>6, <3>1
    <3>3. QED
      BY <1>4, <1>7, <3>1, <3>2
  <2>3. ASSUME NEW i \in DOMAIN swTold'
        PROVE  i \in DOMAIN swTold \/ (i - n \in DOMAIN swNotes /\ i = n + (i - n))
    BY <1>2, <1>7
  <2>4. QED
    BY <2>1, <2>2, <2>3
<1>9. \A q \in Runs : TurnTold(q)' <=> TurnTold(q) \/ Noted(q)
  <2> SUFFICES ASSUME NEW q \in Runs PROVE TurnTold(q)' <=> TurnTold(q) \/ Noted(q)
    OBVIOUS
  <2>1. ASSUME NEW i \in DOMAIN swTold', swTold'[i] = <<q, "turn">> PROVE TurnTold(q) \/ Noted(q)
    <3>1. CASE i \in DOMAIN swTold
      BY <1>8, <2>1, <3>1 DEF TurnTold
    <3>2. CASE i - n \in DOMAIN swNotes /\ i = n + (i - n)
      <4>1. <<swNotes[i - n], "turn">> = <<q, "turn">>
        BY <1>8, <2>1, <3>2
      <4>2. swNotes[i - n] = q
        BY <4>1
      <4>3. QED
        BY <3>2, <4>2 DEF Noted
    <3>3. QED
      BY <1>8, <2>1, <3>1, <3>2
  <2>2. TurnTold(q) \/ Noted(q) => TurnTold(q)'
    BY <1>8 DEF TurnTold, Noted
  <2>3. QED
    BY <2>1, <2>2 DEF TurnTold
<1>10. SaidOnce'
  <2>1. \A q \in Runs : ~Noted(q)'
    BY <1>7 DEF Noted
  <2>2. ASSUME NEW q \in Runs, NEW i \in DOMAIN swTold', NEW j \in DOMAIN swTold',
               swTold'[i] = <<q, "turn">>, swTold'[j] = <<q, "turn">>
        PROVE  i = j
    <3>1. \A k \in DOMAIN swTold' :
            swTold'[k] = <<q, "turn">> =>
              \/ k \in DOMAIN swTold /\ swTold[k] = <<q, "turn">>
              \/ k - n \in DOMAIN swNotes /\ k = n + (k - n) /\ swNotes[k - n] = q
      <4> SUFFICES ASSUME NEW k \in DOMAIN swTold', swTold'[k] = <<q, "turn">>
                   PROVE  \/ k \in DOMAIN swTold /\ swTold[k] = <<q, "turn">>
                          \/ k - n \in DOMAIN swNotes /\ k = n + (k - n) /\ swNotes[k - n] = q
        OBVIOUS
      <4>1. CASE k \in DOMAIN swTold
        BY <1>8, <4>1
      <4>2. CASE k - n \in DOMAIN swNotes /\ k = n + (k - n)
        <5>1. <<swNotes[k - n], "turn">> = <<q, "turn">>
          BY <1>8, <4>2
        <5>2. QED
          BY <4>2, <5>1
      <4>3. QED
        BY <1>8, <4>1, <4>2
    <3>2. ~(Noted(q) /\ TurnTold(q))
      BY <1>1 DEF SaidOnce
    <3>3. CASE i \in DOMAIN swTold /\ swTold[i] = <<q, "turn">>
      <4>1. j \in DOMAIN swTold /\ swTold[j] = <<q, "turn">>
        BY <2>2, <3>1, <3>2, <3>3 DEF Noted, TurnTold
      <4>2. QED
        BY <1>1, <3>3, <4>1 DEF SaidOnce
    <3>4. CASE i - n \in DOMAIN swNotes /\ i = n + (i - n) /\ swNotes[i - n] = q
      <4>1. j - n \in DOMAIN swNotes /\ j = n + (j - n) /\ swNotes[j - n] = q
        BY <2>2, <3>1, <3>2, <3>4 DEF Noted, TurnTold
      <4>2. i - n = j - n
        BY <1>1, <3>4, <4>1 DEF SaidOnce
      <4>3. QED
        BY <3>4, <4>1, <4>2
    <3>5. QED
      BY <2>2, <3>1, <3>3, <3>4
  <2>3. \A q \in Runs : TurnTold(q)' <=> AnswerIsDue(swRuns'[q])
    BY <1>1, <1>9 DEF SaidOnce
  <2>4. QED
    BY <1>7, <2>1, <2>2, <2>3 DEF SaidOnce
<1>11. SwTypeOK'
  <2>1. swNotes' \in Seq(Runs)
    BY <1>1
  <2>2. QED
    BY <1>1, <1>6, <2>1 DEF SwTypeOK
<1>12. CallersFirst' /\ ListedOrCancelled' /\ (swClosed <= swNext)'
  BY <1>1 DEF SwIInv, CallersFirst, ListedOrCancelled, Alive
<1>13. CancelledIn(swRuns', swParent', swKilled', swClosed')
  BY <1>1, ClosedIn DEF SwIInv
<1>14. QED
  BY <1>10, <1>11, <1>12, <1>13, ClosedInNext DEF SwIInv

(* Runs are cancelled: by a kill, or by the closing of the manager, which     *)
(* cancels all that are listed as running.                                    *)
LEMMA CancelIInv ==
    ASSUME SwIInv, NEW rs \in SUBSET Runs, Cancel(rs), UNCHANGED <<swParent, swNext, swNotes, swTold>>,
           \/ UNCHANGED swClosed
           \/ swClosed' = swNext /\ rs = {r \in Runs : swRuns[r].status = "running"}
    PROVE  SwIInv'
<1>1. /\ swRuns \in [Runs -> RunRecord] /\ SwTypeOK /\ swKilled' = swKilled \cup rs
      /\ swRuns' = [r \in Runs |-> IF r \in rs THEN [swRuns[r] EXCEPT !.status = "canceled"] ELSE swRuns[r]]
  BY DEF SwIInv, SwTypeOK, Cancel
<1>2. \A r \in Runs : /\ swRuns'[r] \in RunRecord /\ swRuns'[r].step = swRuns[r].step
                      /\ swRuns'[r].outcome = swRuns[r].outcome
                      /\ swRuns'[r].status = IF r \in rs THEN "canceled" ELSE swRuns[r].status
  BY <1>1 DEF RunRecord
<1>3. swRuns' \in [Runs -> RunRecord]
  BY <1>1, <1>2
<1>4. SwTypeOK' /\ (swClosed <= swNext)'
  <2>1. swClosed' \in 0..(MaxRuns + 1) /\ swClosed' <= swNext
    BY <1>1 DEF SwTypeOK, SwIInv
  <2>2. QED
    BY <1>1, <1>3, <2>1 DEF SwTypeOK
<1>5. SaidOnce'
  <2>1. \A r \in Runs : AnswerIsDue(swRuns'[r]) <=> AnswerIsDue(swRuns[r])
    BY <1>2 DEF AnswerIsDue
  <2>2. QED
    BY <2>1 DEF SwIInv, SaidOnce, Noted, TurnTold
<1>6. CallersFirst'
  BY <1>2 DEF SwIInv, CallersFirst
<1>7. ListedOrCancelled'
  BY <1>1, <1>2 DEF SwIInv, ListedOrCancelled, Alive
<1>8. CancelledIn(swRuns', swParent', swKilled', swClosed')
  <2>1. CASE UNCHANGED swClosed
    BY <1>1, <1>2, <2>1, ClosedIn DEF SwIInv, CancelledIn
  <2>2. CASE rs = {r \in Runs : swRuns[r].status = "running"}
    <3>1. \A r \in Runs : Alive(r) => r \in swKilled'
      BY <1>1, <2>2 DEF SwIInv, ListedOrCancelled
    <3>2. \A r \in Runs : r \in Up(swParent', r)
      BY DEF Up
    <3>3. QED
      BY <1>2, <3>1, <3>2 DEF CancelledIn, Alive
  <2>3. QED
    BY <2>1, <2>2
<1>9. QED
  BY <1>4, <1>5, <1>6, <1>7, <1>8, ClosedInNext DEF SwIInv

(* At most one index gives at most one time.                                  *)
LEMMA TimesOfOne ==
    ASSUME NEW seq, NEW x, \A i, j \in DOMAIN seq : seq[i] = x /\ seq[j] = x => i = j
    PROVE  Times(x, seq) = IF \E i \in DOMAIN seq : seq[i] = x THEN 1 ELSE 0
<1>1. CASE \E i \in DOMAIN seq : seq[i] = x
  <2>1. PICK i \in DOMAIN seq : seq[i] = x
    BY <1>1
  <2>2. {j \in DOMAIN seq : seq[j] = x} = {i}
    BY <2>1
  <2>3. QED
    BY <1>1, <2>2, FS_Singleton DEF Times
<1>2. CASE ~\E i \in DOMAIN seq : seq[i] = x
  <2>1. {j \in DOMAIN seq : seq[j] = x} = {}
    BY <1>2
  <2>2. QED
    BY <1>2, <2>1, FS_EmptySet DEF Times
<1>3. QED
  BY <1>1, <1>2

(* TLC: SwInv.  However runs nest, end, are killed and are drained, an answer *)
(* is announced to one turn; and no run goes on for an agent that was closed. *)
THEOREM SwarmCorrect == SwSpec => []SwInv
<1>1. SwInit => SwIInv
  <2> SUFFICES ASSUME SwInit PROVE SwIInv
    OBVIOUS
  <2> DEFINE none == [status |-> "none", loop |-> 0, step |-> "none", outcome |-> "none",
                      parent |-> MainAgent, depth |-> 0]
  <2>1. none \in RunRecord /\ none.step = "none" /\ none.status = "none"
    BY SwAssumption DEF RunRecord, Outcomes, MainAgent
  <2>2. /\ swRuns = [r \in Runs |-> none] /\ swParent = [r \in Runs |-> MainAgent] /\ swNext = 1
        /\ swNotes = <<>> /\ swTold = <<>> /\ swKilled = {} /\ swClosed = 0
    BY DEF SwInit
  <2> HIDE DEF none
  <2>3. /\ swRuns \in [Runs -> RunRecord] /\ swParent \in [Runs -> 0..MaxRuns]
        /\ swNext \in 1..(MaxRuns + 1) /\ swClosed \in 0..(MaxRuns + 1)
    BY <2>1, <2>2, SwAssumption DEF MainAgent
  <2>4. SwTypeOK
    BY <2>2, <2>3 DEF SwTypeOK
  <2>5. \A r \in Runs : swRuns[r].step = "none" /\ swRuns[r].status = "none" /\ swParent[r] = MainAgent
    BY <2>1, <2>2
  <2>6. DOMAIN swNotes = {} /\ DOMAIN swTold = {}
    BY <2>2
  <2>7. SaidOnce
    BY <2>5, <2>6 DEF SaidOnce, Noted, TurnTold, AnswerIsDue
  <2>8. CallersFirst /\ ListedOrCancelled /\ ClosedRunsAreCancelled
    BY <2>5 DEF CallersFirst, ListedOrCancelled, ClosedRunsAreCancelled, Alive
  <2>9. swClosed <= swNext
    BY <2>2
  <2>10. QED
    BY <2>4, <2>7, <2>8, <2>9 DEF SwIInv
<1>2. SwIInv => SwInv
  <2> SUFFICES ASSUME SwIInv PROVE SwInv
    OBVIOUS
  <2>1. SaidOnce /\ ListedOrCancelled
    BY DEF SwIInv
  <2>2. ASSUME NEW r \in Runs
        PROVE  /\ Times(r, swNotes) + Times(<<r, "turn">>, swTold)
                    = IF swRuns[r].step = "over" /\ swRuns[r].outcome = "answer" THEN 1 ELSE 0
               /\ swRuns[r].status = "running" => Alive(r)
    <3>1. Times(r, swNotes) = IF Noted(r) THEN 1 ELSE 0
      BY <2>1, TimesOfOne DEF SaidOnce, Noted
    <3>2. Times(<<r, "turn">>, swTold) = IF TurnTold(r) THEN 1 ELSE 0
      BY <2>1, TimesOfOne DEF SaidOnce, TurnTold
    <3>3. ~(Noted(r) /\ TurnTold(r)) /\ (Noted(r) \/ TurnTold(r) <=> AnswerIsDue(swRuns[r]))
      BY <2>1 DEF SaidOnce
    <3>4. QED
      BY <2>1, <3>1, <3>2, <3>3 DEF AnswerIsDue, ListedOrCancelled
  <2>3. QED
    BY <2>2 DEF SwInv, SwIInv, AnswersAreAnnounced
<1>3. SwIInv /\ [SwNext]_swVars => SwIInv'
  <2> SUFFICES ASSUME SwIInv, [SwNext]_swVars PROVE SwIInv'
    OBVIOUS
  <2>1. ASSUME NEW r \in Runs, SwKill(r) PROVE SwIInv'
    <3>1. Descendants(r) \in SUBSET Runs
      BY DEF Descendants
    <3>2. QED
      BY <2>1, <3>1, CancelIInv DEF SwKill
  <2>2. CASE SwClose
    <3> DEFINE rs == {r \in Runs : swRuns[r].status = "running"}
    <3>1. rs \in SUBSET Runs
      OBVIOUS
    <3>2. QED
      BY <2>2, <3>1, CancelIInv DEF SwClose
  <2>3. CASE UNCHANGED swVars
    <3>1. UNCHANGED <<swRuns, swParent, swNext, swNotes, swTold, swKilled, swClosed>>
      BY <2>3 DEF swVars
    <3>2. SwTypeOK' /\ SaidOnce' /\ CallersFirst' /\ ListedOrCancelled' /\ (swClosed <= swNext)'
      BY <3>1 DEF SwIInv, SwTypeOK, SaidOnce, Noted, TurnTold, CallersFirst, ListedOrCancelled, Alive
    <3>3. CancelledIn(swRuns', swParent', swKilled', swClosed')
      BY <3>1, ClosedIn DEF SwIInv
    <3>4. QED
      BY <3>2, <3>3, ClosedInNext DEF SwIInv
  <2>4. QED
    BY <2>1, <2>2, <2>3, SwSpawnIInv, SwToolsDoneIInv, SwEndIInv, SwChatIInv, SwDrainIInv DEF SwNext
<1>4. QED
  BY <1>1, <1>2, <1>3, PTL DEF SwSpec
====
