--------------------------- MODULE Scheduler_proofs ---------------------------
(***************************************************************************)
(* Proofs about Scheduler, for any number of processes, jobs and outages.  *)
(***************************************************************************)
EXTENDS Scheduler, TLAPS

\* The job a process looks at is one of the list.
LEMMA JobInList ==
  ASSUME TypeOK, NEW s \in Schedulers, turn[s] <= Len(JobList)
  PROVE  Job(s) \in Jobs
<1>1. turn[s] \in 1..Len(JobList)
  BY SchedulerAssumption DEF TypeOK, Turns
<1> QED
  BY <1>1, SchedulerAssumption DEF Job, Jobs

\* Growing older keeps within the interval, and keeps the order of two ages.
LEMMA OlderFacts ==
  ASSUME NEW j \in Jobs, NEW a \in 0..Interval[j]
  PROVE  /\ Older(a, j) \in 0..Interval[j]
         /\ \A b \in 0..Interval[j] : a <= b => Older(a, j) <= Older(b, j)
BY SchedulerAssumption DEF Older

\* A process looks at a job of the list wherever it holds one, and what it has
\* read is an age of that job.
AtJob ==
  \A s \in Schedulers :
    /\ pc[s] \in {"due", "run", "record", "write"} => turn[s] <= Len(JobList)
    /\ pc[s] = "write" => read[s] \in 0..Interval[Job(s)]

TypeInv == TypeOK /\ AtJob

\* Every process begins at the first job.
LEMMA InitTypeInv == Init => TypeInv
<1> SUFFICES ASSUME Init PROVE TypeInv
  OBVIOUS
<1>1. Len(JobList) \in Nat
  BY SchedulerAssumption
<1> QED
  BY <1>1, SchedulerAssumption DEF Init, TypeInv, TypeOK, AtJob, Turns, Places

\* A step of a process keeps the types of what is local to the processes, and
\* a process that looks at a job, or has read its age, still does.
LocalOK ==
  /\ pc \in [Schedulers -> Places]
  /\ turn \in [Schedulers -> Turns]
  /\ result \in [Schedulers -> {"none", "ok", "error"}]
  /\ \A s \in Schedulers : result[s] # "none" <=> pc[s] \in {"record", "write"}
  /\ read \in [Schedulers -> Nat]
  /\ startedLate \in [Schedulers -> Nat]
  /\ \A s \in Schedulers :
       pc[s] \in {"due", "run", "record", "write"} => turn[s] <= Len(JobList)

KeepsLocals ==
  /\ UNCHANGED <<age, since>>
  /\ LocalOK'
  /\ \A t \in Schedulers : pc'[t] = "write" =>
       pc[t] = "write" /\ turn'[t] = turn[t] /\ read'[t] = read[t]

\* The steps that touch no row do that.
LEMMA LocalStep ==
  ASSUME LocalOK, NEW s \in Schedulers,
         \/ Start(s) \/ Exit(s) \/ Crash(s) \/ RequestStop(s)
         \/ ForceCancel(s) \/ NextJob(s) \/ EndTick(s) \/ Wake(s)
         \/ IsDue(s) \/ IsDueFails(s) \/ RecordFails(s) \/ RunOk(s)
         \/ RunFails(s)
  PROVE  KeepsLocals
<1>0. /\ 1 \in Turns /\ Len(JobList) + 1 \in Turns
      /\ \A n \in Turns : n <= Len(JobList) => n + 1 \in Turns
      /\ ~(Len(JobList) + 1 <= Len(JobList))
  BY SchedulerAssumption DEF Turns
<1> USE <1>0 DEF LocalOK, KeepsLocals, Places, Goto, Ends, local, history
<1>1. CASE Start(s)
  BY <1>1 DEF Start
<1>2. CASE Exit(s) \/ RequestStop(s)
  BY <1>2 DEF Exit, RequestStop
<1>3. ASSUME Ends(s, "down") \/ Ends(s, "dead"),
             UNCHANGED <<age, since, startedLate>>
      PROVE  KeepsLocals
  <2>1. /\ pc' \in [Schedulers -> Places]
        /\ result' \in [Schedulers -> {"none", "ok", "error"}]
    BY <1>3
  <2>2. turn' = [turn EXCEPT ![s] = 1] /\ read' = [read EXCEPT ![s] = 0]
    BY <1>3
  <2>3. turn' \in [Schedulers -> Turns]
    BY <2>2
  <2>4. read' \in [Schedulers -> Nat]
    BY <2>2
  <2>5. \A t \in Schedulers :
          IF t = s THEN result'[t] = "none" /\ pc'[t] \in {"down", "dead"}
          ELSE /\ result'[t] = result[t] /\ pc'[t] = pc[t]
               /\ turn'[t] = turn[t] /\ read'[t] = read[t]
    BY <1>3
  <2> QED
    BY <1>3, <2>1, <2>3, <2>4, <2>5
<1>4. CASE NextJob(s)
  BY <1>4 DEF NextJob
<1>5. CASE EndTick(s) \/ Wake(s)
  BY <1>5 DEF EndTick, Wake
<1>6. CASE IsDue(s) /\ pc' = [pc EXCEPT ![s] = "run"] /\ UNCHANGED turn
  BY <1>6 DEF IsDue
<1>7. CASE IsDue(s) /\ pc' = [pc EXCEPT ![s] = "tick"]
  <2>1. turn' \in [Schedulers -> Turns]
    BY <1>7 DEF IsDue
  <2> QED
    BY <1>7, <2>1 DEF IsDue
<1>8. CASE Crash(s) \/ ForceCancel(s) \/ IsDueFails(s) \/ RecordFails(s)
  BY <1>3, <1>8 DEF Crash, ForceCancel, IsDueFails, RecordFails, Dies
<1>9. CASE RunOk(s)
  BY <1>9 DEF RunOk, Returns
<1>10. CASE RunFails(s)
  BY <1>10 DEF RunFails, Returns
<1> QED
  BY <1>1, <1>2, <1>4, <1>5, <1>6, <1>7, <1>8, <1>9, <1>10 DEF IsDue

\* Every step keeps types, and keeps each process at a job of the list.
LEMMA StepTypeInv == TypeInv /\ [Next]_vars => TypeInv'
<1> SUFFICES ASSUME TypeInv, [Next]_vars PROVE TypeInv'
  OBVIOUS
<1>0. Len(JobList) \in Nat
  BY SchedulerAssumption
<1> USE <1>0, SchedulerAssumption
    DEF TypeInv, TypeOK, AtJob, Turns, Places, Goto, Ends, Outage, history, local
<1>1. CASE Tick
  <2>1. \A j \in Jobs : Older(age[j], j) \in 0..Interval[j]
                        /\ Older(since[j], j) \in 0..Interval[j]
    BY OlderFacts
  <2>2. ASSUME NEW s \in Schedulers, pc[s] = "write"
        PROVE  Older(read[s], Job(s)) \in 0..Interval[Job(s)]
    BY <2>2, JobInList, OlderFacts
  <2>3. \A s \in Schedulers : read'[s] \in Nat
    BY <1>1, <2>2, JobInList DEF Tick
  <2>4. AtJob'
    BY <1>1, <2>2 DEF Tick, Job
  <2>5. read' \in [Schedulers -> Nat]
    BY <1>1, <2>3 DEF Tick
  <2> QED
    BY <1>1, <2>1, <2>4, <2>5 DEF Tick
<1>2. ASSUME NEW s \in Schedulers,
             \/ Start(s) \/ Exit(s) \/ Crash(s) \/ RequestStop(s)
             \/ ForceCancel(s) \/ NextJob(s) \/ EndTick(s) \/ Wake(s)
             \/ IsDue(s) \/ IsDueFails(s) \/ RecordFails(s) \/ RunOk(s)
             \/ RunFails(s),
             UNCHANGED host
      PROVE  TypeInv'
  <2>1. KeepsLocals
    BY <1>2, LocalStep DEF LocalOK
  <2>2. stop' \subseteq Schedulers /\ slept' \subseteq Schedulers
    BY <1>2 DEF Start, Exit, Crash, RequestStop, ForceCancel, NextJob,
                EndTick, Wake, IsDue, IsDueFails, RecordFails, RunOk, RunFails,
                Dies, Returns
  <2>5. outages' = outages \/ Outage
    BY <1>2 DEF Start, Exit, Crash, RequestStop, ForceCancel, NextJob,
                EndTick, Wake, IsDue, IsDueFails, RecordFails, RunOk, RunFails,
                Dies, Returns
  <2>6. outages' \in 0..MaxOutages
    BY <2>5
  <2>7. host' \in Deployments
    BY <1>2
  <2>3. AtJob'
    BY <2>1 DEF KeepsLocals, LocalOK, Job
  <2>4. /\ age' \in [Jobs -> Nat] /\ since' \in [Jobs -> Nat]
        /\ \A j \in Jobs : age'[j] <= Interval[j] /\ since'[j] <= Interval[j]
    BY <2>1 DEF KeepsLocals
  <2> QED
    BY <2>1, <2>2, <2>3, <2>4, <2>6, <2>7 DEF KeepsLocals, LocalOK
<1>3. ASSUME NEW s \in Schedulers, ReadRecord(s), UNCHANGED host
      PROVE  TypeInv'
  <2>1. Job(s) \in Jobs /\ Job(s)' = Job(s)
    BY <1>3, JobInList DEF ReadRecord, Job
  <2>2. AtJob'
    BY <1>3, <2>1 DEF ReadRecord, Job
  <2>3. read' \in [Schedulers -> Nat]
    BY <1>3, <2>1 DEF ReadRecord
  <2> QED
    BY <1>3, <2>2, <2>3 DEF ReadRecord
<1>4. ASSUME NEW s \in Schedulers, WriteRecord(s), UNCHANGED host
      PROVE  TypeInv'
  <2>1. Job(s) \in Jobs
    BY <1>4, JobInList DEF WriteRecord
  <2>2. Finished(s) \in 0..Interval[Job(s)]
    BY <1>4, <2>1 DEF WriteRecord, Finished, TypeInv, TypeOK
  <2>3. /\ age' \in [Jobs -> Nat] /\ since' \in [Jobs -> Nat]
        /\ \A j \in Jobs : age'[j] <= Interval[j] /\ since'[j] <= Interval[j]
    <3>1. PICK a \in {0, since[Job(s)]} :
            since' = [since EXCEPT ![Job(s)] = a]
      BY <1>4 DEF WriteRecord
    <3>2. age' = [age EXCEPT ![Job(s)] = Finished(s)]
      BY <1>4 DEF WriteRecord
    <3>3. a \in 0..Interval[Job(s)]
      BY <2>1, <3>1
    <3> QED
      BY <2>1, <2>2, <3>1, <3>2, <3>3
  <2>4. \A t \in Schedulers : t # s => pc'[t] = pc[t] /\ turn'[t] = turn[t]
                                       /\ read'[t] = read[t]
    BY <1>4 DEF WriteRecord
  <2>5. AtJob'
    BY <1>4, <2>4 DEF WriteRecord, Job
  <2>6. /\ turn' \in [Schedulers -> Turns] /\ read' \in [Schedulers -> Nat]
        /\ pc' \in [Schedulers -> Places]
    BY <1>4, SMTT(30) DEF WriteRecord
  <2>7. /\ result' \in [Schedulers -> {"none", "ok", "error"}]
        /\ \A t \in Schedulers :
             result'[t] # "none" <=> pc'[t] \in {"record", "write"}
    BY <1>4 DEF WriteRecord, Forget
  <2> QED
    BY <1>4, <2>3, <2>5, <2>6, <2>7 DEF WriteRecord
<1>5. CASE UNCHANGED vars
  BY <1>5 DEF vars, Job
<1> QED
  BY <1>1, <1>2, <1>3, <1>4, <1>5
     DEF Next, Work, Fault

\* The types of the model: each process looks at a job of the list, and holds a
\* result of job.run() exactly while _record runs.
THEOREM TypeCorrect == Spec => []TypeOK
<1>1. TypeInv => TypeOK
  BY DEF TypeInv
<1> QED
  BY <1>1, InitTypeInv, StepTypeInv, PTL DEF Spec

\* The invariant that TypeCorrect rests on.
LEMMA TypeInvCorrect == Spec => []TypeInv
BY InitTypeInv, StepTypeInv, PTL DEF Spec

-----------------------------------------------------------------------------
(* Two processes that write the row of one job                             *)

\* What _record has read and may write back is no younger than the last success,
\* although other processes may have written the row since.
HonestInv ==
  /\ ScheduleIsHonest
  /\ \A s \in Schedulers : pc[s] = "write" => read[s] >= since[Job(s)]

\* The steps that touch no row keep it.
LEMMA HonestLocal == TypeInv /\ HonestInv /\ KeepsLocals => HonestInv'
BY DEF HonestInv, ScheduleIsHonest, KeepsLocals, Job

\* Ages grow together, a success sets both to zero, and a failure writes back
\* an age that was true of the row when it was read.
LEMMA StepHonest == TypeInv /\ HonestInv /\ [Next]_vars => HonestInv'
<1> SUFFICES ASSUME TypeInv, HonestInv, [Next]_vars PROVE HonestInv'
  OBVIOUS
<1>0. \A j \in Jobs : age[j] \in 0..Interval[j] /\ since[j] \in 0..Interval[j]
  BY DEF TypeInv, TypeOK
<1>1. CASE Tick
  <2>1. ASSUME NEW j \in Jobs
        PROVE  age'[j] >= since'[j]
    <3>1. Older(since[j], j) <= Older(age[j], j)
      BY <1>0, OlderFacts, SchedulerAssumption DEF HonestInv, ScheduleIsHonest
    <3>2. Older(since[j], j) \in Nat /\ Older(age[j], j) \in Nat
      BY <1>0, OlderFacts
    <3> QED
      BY <1>1, <3>1, <3>2 DEF Tick
  <2>2. ASSUME NEW s \in Schedulers, pc'[s] = "write"
        PROVE  read'[s] >= since'[Job(s)']
    <3>1. pc[s] = "write" /\ Job(s)' = Job(s)
      BY <1>1, <2>2 DEF Tick, Job
    <3>2. Job(s) \in Jobs /\ read[s] \in 0..Interval[Job(s)]
      BY <3>1, JobInList DEF TypeInv, AtJob
    <3>3. since[Job(s)] <= read[s]
      BY <3>1, <3>2, <1>0 DEF HonestInv
    <3>4. /\ Older(since[Job(s)], Job(s)) <= Older(read[s], Job(s))
          /\ Older(since[Job(s)], Job(s)) \in Nat
          /\ Older(read[s], Job(s)) \in Nat
      BY <1>0, <3>2, <3>3, OlderFacts
    <3> QED
      BY <1>1, <3>1, <3>2, <3>4 DEF Tick
  <2> QED
    BY <2>1, <2>2 DEF HonestInv, ScheduleIsHonest
<1>2. ASSUME NEW s \in Schedulers, ReadRecord(s)
      PROVE  HonestInv'
  <2>1. Job(s) \in Jobs
    BY <1>2, JobInList DEF ReadRecord, TypeInv, AtJob
  <2>2. read'[s] = age[Job(s)]
    BY <1>2 DEF ReadRecord, TypeInv, TypeOK
  <2>3. \A t \in Schedulers : t # s => pc'[t] = pc[t] /\ read'[t] = read[t]
    BY <1>2 DEF ReadRecord, Goto, TypeInv, TypeOK
  <2>4. UNCHANGED <<age, since, turn>>
    BY <1>2 DEF ReadRecord, history
  <2> QED
    BY <2>1, <2>2, <2>3, <2>4 DEF HonestInv, ScheduleIsHonest, Job
<1>3. ASSUME NEW s \in Schedulers, WriteRecord(s)
      PROVE  HonestInv'
  <2>1. Job(s) \in Jobs
    BY <1>3, JobInList DEF WriteRecord, TypeInv, AtJob
  <2>2. \A t \in Schedulers :
          pc'[t] = "write" => /\ t # s /\ pc[t] = "write"
                              /\ turn'[t] = turn[t] /\ read'[t] = read[t]
    BY <1>3 DEF WriteRecord, Goto, TypeInv, TypeOK
  <2>3. \A j \in Jobs : since'[j] = since[j] \/ since'[j] = 0
    BY <1>3, <2>1 DEF WriteRecord
  <2>4. \A j \in Jobs : j # Job(s) => age'[j] = age[j] /\ since'[j] = since[j]
    BY <1>3 DEF WriteRecord
  <2>5. age'[Job(s)] >= since'[Job(s)]
    <3>1. CASE result[s] = "ok"
      BY <1>3, <2>1, <3>1 DEF WriteRecord, Finished, TypeInv, TypeOK
    <3>2. CASE result[s] # "ok"
      BY <1>3, <2>1, <3>2 DEF WriteRecord, Finished, HonestInv, TypeInv, TypeOK
    <3> QED
      BY <3>1, <3>2
  <2>6. \A t \in Schedulers : pc'[t] = "write" => read'[t] >= since'[Job(t)']
    <3> SUFFICES ASSUME NEW t \in Schedulers, pc'[t] = "write"
                 PROVE  read'[t] >= since'[Job(t)']
      OBVIOUS
    <3>1. Job(t)' = Job(t) /\ read'[t] = read[t] /\ Job(t) \in Jobs
      BY <2>2, JobInList DEF Job, TypeInv, AtJob
    <3>2. read[t] >= since[Job(t)] /\ read[t] \in Nat
      BY <2>2 DEF HonestInv, TypeInv, TypeOK
    <3> QED
      BY <2>3, <3>1, <3>2
  <2> QED
    BY <2>4, <2>5, <2>6 DEF HonestInv, ScheduleIsHonest
<1>4. CASE UNCHANGED vars
  BY <1>4 DEF vars, local, history, HonestInv, ScheduleIsHonest, Job
<1>5. ASSUME NEW s \in Schedulers,
             \/ Start(s) \/ Exit(s) \/ Crash(s) \/ RequestStop(s)
             \/ ForceCancel(s) \/ NextJob(s) \/ EndTick(s) \/ Wake(s)
             \/ IsDue(s) \/ IsDueFails(s) \/ RecordFails(s) \/ RunOk(s)
             \/ RunFails(s)
      PROVE  HonestInv'
  <2>1. LocalOK
    BY DEF TypeInv, TypeOK, AtJob, LocalOK
  <2> QED
    BY <1>5, <2>1, LocalStep, HonestLocal
<1> QED
  BY <1>1, <1>2, <1>3, <1>4, <1>5 DEF Next, Work, Fault

\* No row of job_runs claims a success younger than the last one, for any number
\* of processes that read and upsert it without a lock (_record).
THEOREM HonestSchedule == Spec => []ScheduleIsHonest
<1>1. Init => HonestInv
  BY SchedulerAssumption DEF Init, HonestInv, ScheduleIsHonest
<1>2. HonestInv => ScheduleIsHonest
  BY DEF HonestInv
<1> QED
  BY <1>1, <1>2, TypeInvCorrect, StepHonest, PTL DEF Spec

-----------------------------------------------------------------------------
(* SIGTERM                                                                 *)

\* A process that has begun a job after the request looks at no other.
StopInv ==
  \A s \in Schedulers :
    /\ startedLate[s] \in 0..1
    /\ startedLate[s] = 1 => s \in stop /\ pc[s] # "due"

\* Only _is_due begins a job, and only a tick that was not asked to stop asks it.
LEMMA StepStop == TypeInv /\ StopInv /\ [Next]_vars => StopInv'
<1> SUFFICES ASSUME TypeInv, StopInv, [Next]_vars PROVE StopInv'
  OBVIOUS
<1> USE DEF StopInv, TypeInv, TypeOK, Goto, Ends, local, history
<1>1. CASE Tick \/ UNCHANGED vars
  BY <1>1 DEF Tick, vars
<1>2. ASSUME NEW s \in Schedulers, Start(s) \/ RequestStop(s)
      PROVE  StopInv'
  BY <1>2 DEF Start, RequestStop
<1>3. ASSUME NEW s \in Schedulers, NextJob(s)
      PROVE  StopInv'
  BY <1>3 DEF NextJob, GoesOn
<1>4. ASSUME NEW s \in Schedulers, IsDue(s)
      PROVE  StopInv'
  <2>1. pc[s] = "due" /\ startedLate[s] = 0
    BY <1>4 DEF IsDue
  <2>2. CASE Due(Job(s)) /\ s \in stop
    BY <1>4, <2>1, <2>2 DEF IsDue
  <2>3. CASE ~(Due(Job(s)) /\ s \in stop)
    BY <1>4, <2>1, <2>3 DEF IsDue
  <2> QED
    BY <2>2, <2>3
<1>5. ASSUME NEW s \in Schedulers, NEW place \in Places \ {"due"},
             pc' = [pc EXCEPT ![s] = place], UNCHANGED <<stop, startedLate>>
      PROVE  StopInv'
  BY <1>5
<1>6. ASSUME NEW s \in Schedulers,
             \/ Exit(s) \/ Crash(s) \/ ForceCancel(s) \/ EndTick(s) \/ Wake(s)
             \/ IsDueFails(s) \/ RecordFails(s) \/ RunOk(s) \/ RunFails(s)
             \/ ReadRecord(s) \/ WriteRecord(s)
      PROVE  StopInv'
  <2>1. UNCHANGED <<stop, startedLate>>
    BY <1>6 DEF Exit, Crash, ForceCancel, EndTick, Wake, IsDueFails,
                RecordFails, RunOk, RunFails, Returns, ReadRecord, WriteRecord,
                Dies
  <2>2. \E place \in Places \ {"due"} : pc' = [pc EXCEPT ![s] = place]
    BY <1>6 DEF Exit, Crash, ForceCancel, EndTick, Wake, IsDueFails,
                RecordFails, RunOk, RunFails, Returns, ReadRecord, WriteRecord,
                Dies, Places
  <2> QED
    BY <2>1, <2>2, <1>5
<1> QED
  BY <1>1, <1>2, <1>3, <1>4, <1>6 DEF Next, Work, Fault

\* After SIGTERM a process begins at most one more job: the one whose _is_due was
\* waiting for the database.
THEOREM PromptStop == Spec => []StopIsPrompt
<1>1. Init => StopInv
  <2>1. ASSUME NEW s \in Schedulers, Init
        PROVE  startedLate[s] \in 0..1 /\ startedLate[s] # 1
    BY <2>1 DEF Init
  <2> QED
    BY <2>1 DEF StopInv
<1>2. StopInv => StopIsPrompt
  <2>1. ASSUME NEW s \in Schedulers, StopInv
        PROVE  startedLate[s] <= 1
    BY <2>1 DEF StopInv
  <2> QED
    BY <2>1 DEF StopIsPrompt
<1> QED
  BY <1>1, <1>2, TypeInvCorrect, StepStop, PTL DEF Spec
=============================================================================
