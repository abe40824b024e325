----------------------------- MODULE MCScheduler -----------------------------
EXTENDS Scheduler, TLC

CONSTANTS s1, s2, drift, retention, watch

\* The first job of a tick is the one that may always fail.
ThreeJobs == <<drift, retention, watch>>

\* The drift monitor is due at every tick, the others less often.
Intervals == [j \in Jobs |-> IF j = drift THEN 1 ELSE 2]

\* A worker alone (docker-compose.yml), the API alone (render.yaml), one beside the
\* other, and the old and the new API of a deployment.
FourDeployments ==
  {s1 :> "worker", s1 :> "api",
   s1 :> "worker" @@ s2 :> "api", s1 :> "api" @@ s2 :> "api"}
=============================================================================
