SPECIFICATION FairSpec
CONSTANTS
  drift = drift  retention = retention  watch = watch
  s1 = s1  s2 = s2
  Schedulers = {s1, s2}
  Deployments <- FourDeployments
  JobList <- ThreeJobs
  Interval <- Intervals
  Failing = {drift}
  MaxOutages = 2
INVARIANTS ScheduleIsHonest StopIsPrompt
PROPERTY DueJobsRun
