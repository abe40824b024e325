------------------------------ MODULE Scheduler ------------------------------
(***************************************************************************)
(* workers/scheduler.py, with what workers/supervisor.py, workers/cli.py   *)
(* and api/app.py make of a scheduler that ends: periodic jobs whose last  *)
(* successful run is a row of job_runs, so that a process that slept or    *)
(* died catches up.  A worker hosts the role, or the API does, or several  *)
(* processes at once while one deployment replaces another.                *)
(*                                                                         *)
(* Time is the age of a row: how long ago its last_finished_at is, capped  *)
(* at the job's interval, where the job is due.  A row that is not there,  *)
(* or has no last_finished_at, is as old (catch_up is true of all jobs).   *)
(***************************************************************************)
EXTENDS Naturals, Sequences

CONSTANTS
  Schedulers,  \* the processes that may host the role
  Deployments, \* which ones do: workers, and APIs (OBS_EMBED_WORKERS_IN_API)
  JobList,     \* the enabled jobs, in the order of a tick
  Interval,    \* the interval of each job, in ticks of the clock
  Failing,     \* the jobs that always raise
  MaxOutages   \* bound: lost database connections, kills and SIGTERMs

Jobs == {JobList[i] : i \in DOMAIN JobList}
Turns == 1..(Len(JobList) + 1)

ASSUME SchedulerAssumption ==
  /\ \A d \in Deployments : /\ DOMAIN d \subseteq Schedulers
                             /\ d \in [DOMAIN d -> {"worker", "api"}]
  /\ JobList \in Seq(Jobs)
  /\ Interval \in [Jobs -> Nat \ {0}]
  /\ Failing \subseteq Jobs
  /\ MaxOutages \in Nat

VARIABLES
  host,        \* the deployment: what each process that runs the role is
  age,         \* each job: the age of its last_finished_at
  pc,          \* each process: where it is in run() or tick()
  turn,        \* each process: the position of the job it looks at
  result,      \* each process: how the job it ran ended
  read,        \* each process: the age _record read
  stop,        \* processes that were asked to stop
  slept,       \* processes whose sleep is over
  outages,     \* outages so far
  since,       \* history: the age of each job's last recorded success
  startedLate  \* history: the jobs each process began after SIGTERM

local   == <<turn, result, read>>
history == <<since, startedLate>>
vars    == <<host, age, pc, local, stop, slept, outages, history>>

\* The task of an embedded scheduler may be "dead" while its process lives.
Places == {"down", "tick", "due", "run", "record", "write", "sleep", "dead"}

Init ==
  /\ host \in Deployments
  /\ age = Interval
  /\ pc = [s \in Schedulers |-> "down"]
  /\ turn = [s \in Schedulers |-> 1]
  /\ result = [s \in Schedulers |-> "none"]
  /\ read = [s \in Schedulers |-> 0]
  /\ stop = {}
  /\ slept = {}
  /\ outages = 0
  /\ since = Interval
  /\ startedLate = [s \in Schedulers |-> 0]

Goto(s, place) == pc' = [pc EXCEPT ![s] = place]
Job(s) == JobList[turn[s]]

Outage == outages < MaxOutages /\ outages' = outages + 1

-----------------------------------------------------------------------------
(* The clock                                                               *)

Older(a, j) == IF a < Interval[j] THEN a + 1 ELSE a

Tick ==
  /\ age' = [j \in Jobs |-> Older(age[j], j)]
  /\ since' = [j \in Jobs |-> Older(since[j], j)]
  /\ read' = [s \in Schedulers |->
       IF pc[s] = "write" THEN Older(read[s], Job(s)) ELSE read[s]]
  /\ slept' = slept \cup {s \in Schedulers : pc[s] = "sleep"}
  /\ UNCHANGED <<host, pc, turn, result, stop, outages, startedLate>>

-----------------------------------------------------------------------------
(* The process                                                             *)

\* The task ends.
Ends(s, place) ==
  /\ Goto(s, place)
  /\ turn' = [turn EXCEPT ![s] = 1]
  /\ result' = [result EXCEPT ![s] = "none"]
  /\ read' = [read EXCEPT ![s] = 0]

\* The host starts the process: at first, and by its restart policy.
Start(s) ==
  /\ pc[s] = "down"
  /\ Goto(s, "tick")
  /\ stop' = stop \ {s}
  /\ startedLate' = [startedLate EXCEPT ![s] = 0]
  /\ UNCHANGED <<age, local, slept, outages, since>>

\* An exception leaves run().  The worker's cli stops the other roles and
\* exits; in the API nobody waits for the task.
Dies(s) ==
  /\ Ends(s, IF host[s] = "api" THEN "dead" ELSE "down")
  /\ UNCHANGED <<age, stop, slept, history>>

Crash(s) ==
  /\ pc[s] # "down"
  /\ Outage
  /\ Ends(s, "down")
  /\ UNCHANGED <<age, stop, slept, history>>

RequestStop(s) ==
  /\ pc[s] # "down" /\ s \notin stop
  /\ Outage
  /\ stop' = stop \cup {s}
  /\ UNCHANGED <<age, pc, local, slept, history>>

\* The grace period of stop() is over: the task is cancelled.
ForceCancel(s) ==
  /\ s \in stop
  /\ pc[s] \in {"due", "run", "record", "write"}
  /\ Ends(s, "down")
  /\ UNCHANGED <<age, stop, slept, outages, history>>

\* The API is asked to stop and has no task to wait for.
Exit(s) ==
  /\ pc[s] = "dead"
  /\ s \in stop
  /\ Goto(s, "down")
  /\ UNCHANGED <<age, local, stop, slept, outages, history>>

-----------------------------------------------------------------------------
(* run() and tick()                                                        *)

\* MUTANT: the stop flag is looked at once a tick.
LooksAnyway(s) == turn[s] > 1 \/ s \notin stop

GoesOn(s) == s \notin stop

\* for job in self.jobs
NextJob(s) ==
  /\ pc[s] = "tick" /\ turn[s] <= Len(JobList)
  /\ IF GoesOn(s)
     THEN Goto(s, "due") /\ UNCHANGED turn
     ELSE turn' = [turn EXCEPT ![s] = Len(JobList) + 1] /\ UNCHANGED pc
  /\ UNCHANGED <<age, result, read, stop, slept, outages, history>>

Due(j) == age[j] = Interval[j]

\* _is_due
IsDue(s) ==
  /\ pc[s] = "due"
  /\ IF Due(Job(s))
     THEN Goto(s, "run") /\ UNCHANGED turn
     ELSE Goto(s, "tick") /\ turn' = [turn EXCEPT ![s] = @ + 1]
  /\ startedLate' = [startedLate EXCEPT ![s] =
       IF Due(Job(s)) /\ s \in stop THEN @ + 1 ELSE @]
  /\ UNCHANGED <<age, result, read, stop, slept, outages, since>>

IsDueFails(s) ==
  /\ pc[s] = "due"
  /\ Outage
  /\ Dies(s)

Returns(s, how) ==
  /\ pc[s] = "run"
  /\ Goto(s, "record")
  /\ result' = [result EXCEPT ![s] = how]
  /\ UNCHANGED <<age, turn, read, stop, slept, history>>

\* The job's own transactions are not seen here.
RunOk(s) ==
  /\ Returns(s, "ok")
  /\ Job(s) \notin Failing
  /\ UNCHANGED outages

\* MUTANT: the exception of a job is not caught.
RunRaises(s) ==
  /\ pc[s] = "run"
  /\ IF Job(s) \in Failing THEN UNCHANGED outages ELSE Outage
  /\ Dies(s)

RunFails(s) ==
  /\ Returns(s, "error")
  /\ IF Job(s) \in Failing THEN UNCHANGED outages ELSE Outage

\* _record reads the row ...
ReadRecord(s) ==
  /\ pc[s] = "record"
  /\ read' = [read EXCEPT ![s] = age[Job(s)]]
  /\ Goto(s, "write")
  /\ UNCHANGED <<age, turn, result, stop, slept, outages, history>>

\* MUTANT: a failed run moves the clock forward too.
StampAlways(s) == 0

Finished(s) == IF result[s] = "ok" THEN 0 ELSE read[s]

Forget(s) == result' = [result EXCEPT ![s] = "none"]

\* ... and upserts it: a failed run keeps the last_finished_at that was read.
WriteRecord(s) ==
  /\ pc[s] = "write"
  /\ age' = [age EXCEPT ![Job(s)] = Finished(s)]
  /\ since' = [since EXCEPT ![Job(s)] = IF result[s] = "ok" THEN 0 ELSE @]
  /\ turn' = [turn EXCEPT ![s] = @ + 1]
  /\ read' = [read EXCEPT ![s] = 0]
  /\ Forget(s)
  /\ Goto(s, "tick")
  /\ UNCHANGED <<stop, slept, outages, startedLate>>

RecordFails(s) ==
  /\ pc[s] \in {"record", "write"}
  /\ Outage
  /\ Dies(s)

EndTick(s) ==
  /\ pc[s] = "tick" /\ turn[s] > Len(JobList)
  /\ Goto(s, "sleep")
  /\ turn' = [turn EXCEPT ![s] = 1]
  /\ slept' = slept \ {s}
  /\ UNCHANGED <<age, result, read, stop, outages, history>>

\* The sleep ends with its time or with the request to stop.
Wake(s) ==
  /\ pc[s] = "sleep"
  /\ \/ s \in stop /\ Goto(s, "down")
     \/ s \in slept \ stop /\ Goto(s, "tick")
  /\ UNCHANGED <<age, local, stop, slept, outages, history>>

-----------------------------------------------------------------------------

Work(s) ==
  /\ s \in DOMAIN host
  /\ \/ Start(s) \/ Exit(s) \/ NextJob(s) \/ IsDue(s) \/ RunOk(s) \/ RunFails(s)
     \/ ReadRecord(s) \/ WriteRecord(s) \/ EndTick(s) \/ Wake(s)
  /\ UNCHANGED host

Fault(s) ==
  /\ s \in DOMAIN host
  /\ \/ Crash(s) \/ RequestStop(s) \/ ForceCancel(s) \/ IsDueFails(s)
     \/ RecordFails(s)
  /\ UNCHANGED host

Next == Tick \/ \E s \in Schedulers : Work(s) \/ Fault(s)

Spec == Init /\ [][Next]_vars

\* Time passes, the host restarts what has exited, and a job that runs ends.
FairSpec == Spec /\ WF_vars(Tick) /\ \A s \in Schedulers : WF_vars(Work(s))

-----------------------------------------------------------------------------
(* Properties                                                              *)

TypeOK ==
  /\ host \in Deployments
  /\ age \in [Jobs -> Nat] /\ since \in [Jobs -> Nat]
  /\ \A j \in Jobs : age[j] <= Interval[j] /\ since[j] <= Interval[j]
  /\ pc \in [Schedulers -> Places]
  /\ turn \in [Schedulers -> Turns]
  /\ result \in [Schedulers -> {"none", "ok", "error"}]
  /\ \A s \in Schedulers : result[s] # "none" <=> pc[s] \in {"record", "write"}
  /\ read \in [Schedulers -> Nat]
  /\ stop \subseteq Schedulers /\ slept \subseteq Schedulers
  /\ outages \in 0..MaxOutages
  /\ startedLate \in [Schedulers -> Nat]

\* "Only a SUCCESSFUL run advances the schedule" (scheduler.py:225-227): no row
\* says that its job succeeded later than it did, with another process writing
\* the same row and with a failed run writing back what it had read.
ScheduleIsHonest == \A j \in Jobs : age[j] >= since[j]

\* tick() looks at the stop flag before each job, and SIGTERM may come while the
\* database answers whether the job is due: after it at most one job begins.
StopIsPrompt == \A s \in Schedulers : startedLate[s] <= 1

\* "One failing job must not stop the others, and must not stop the loop -- the
\* next tick tries again" (scheduler.py:192-193): a job that is due and does not
\* fail by itself runs to its end, after any finite number of outages.  That is so
\* of the jobs' own errors; one of the database while job_runs is read or written
\* (206) does end the loop.  A worker is then started again by its host; in the API
\* the task alone ends, and where no other process hosts the role, as in the
\* default render.yaml, no job runs any more.
DueJobsRun == \A j \in Jobs \ Failing :
  Due(j) ~> ~Due(j) \/ \A s \in DOMAIN host : pc[s] = "dead"

=============================================================================
