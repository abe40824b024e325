------------------------------ MODULE Heartbeats ------------------------------
(***************************************************************************)
(* How the platform watches itself: the heartbeats of the roles            *)
(* (workers/base.py, workers/scheduler.py), and what is made of them by    *)
(* /health/meta (api/routers/health.py) and by the HEALTHCHECK of a worker *)
(* container (workers/cli.py). Time goes in rounds, in each of which every *)
(* role that runs has its turn to beat; as the write takes time too, a     *)
(* round is a little longer than worker_heartbeat_seconds.                 *)
(***************************************************************************)
EXTENDS Integers, FiniteSets

CONSTANTS
    Roles,        \* names host:pid#role; a role that starts again on its host may have its old one
    HostOf,
    StaleBeats,   \* the 4 of stale_after
    MaxLag,       \* meta_health_max_lag
    MaxWriteAge,  \* meta_health_max_write_age_seconds, in rounds
    Absent,       \* no row; no value
    Sites         \* what else /health/meta sees: see Problems

ASSUME HeartbeatAssumption ==
    /\ {StaleBeats, MaxLag, MaxWriteAge} \subseteq Nat \ {0}
    /\ DOMAIN HostOf = Roles

VARIABLES
    living,   \* each role: "down", "running" or "hung" with its event loop blocked
    turn,     \* roles that had their turn in this round
    beats,    \* worker_heartbeats: the status of a row and the rounds since last_seen_at
    dbUp,     \* the database answers
    gone,     \* history: rounds since the role was last running
    calm,     \* history: roles that have run all this round, with a database that answered
    troubled  \* history: rounds since the role had a calm one

health == <<living, turn, beats, dbUp, gone, calm, troubled>>

Ages == 0 .. StaleBeats + 1    \* bound: no answer tells older rows apart
Older(n) == IF n \in Ages \ {StaleBeats + 1} THEN n + 1 ELSE n

HeartbeatInit ==
    /\ living = [r \in Roles |-> "down"]
    /\ turn = {} /\ dbUp = TRUE
    /\ beats = [r \in Roles |-> Absent]
    /\ gone = [r \in Roles |-> 0]
    /\ calm = {} /\ troubled = [r \in Roles |-> StaleBeats + 1]

\* Mutant of Beaten: last_seen_at is not among the columns that are updated.
BeatenOnce(row, status) == [status |-> status, age |-> IF row = Absent THEN 0 ELSE row.age]

\* The upsert of the row.
Beaten(row, status) == [status |-> status, age |-> 0]

\* _heartbeat: a write that fails must not stop work.
Heartbeat(r, status) ==
    beats' = IF dbUp THEN [beats EXCEPT ![r] = Beaten(@, status)] ELSE beats

\* run, up to its loop.
StartRole(r) ==
    /\ living[r] = "down"
    /\ living' = [living EXCEPT ![r] = "running"]
    /\ gone' = [gone EXCEPT ![r] = 0]
    /\ Heartbeat(r, "running")
    /\ turn' = turn \cup {r}
    /\ UNCHANGED <<dbUp, calm, troubled>>

\* _heartbeat_loop
Beat(r) ==
    /\ living[r] = "running" /\ r \notin turn
    /\ Heartbeat(r, "running")
    /\ turn' = turn \cup {r}
    /\ UNCHANGED <<living, dbUp, gone, calm, troubled>>

\* run, its end: asked to stop, or an exception that leaves the loop.
StopRole(r) ==
    /\ living[r] = "running"
    /\ living' = [living EXCEPT ![r] = "down"]
    /\ Heartbeat(r, "stopped")
    /\ calm' = calm \ {r}
    /\ UNCHANGED <<turn, dbUp, gone, troubled>>

Kill(r) ==
    /\ living[r] # "down"
    /\ living' = [living EXCEPT ![r] = "down"]
    /\ calm' = calm \ {r}
    /\ UNCHANGED <<turn, beats, dbUp, gone, troubled>>

\* A call that does not give the event loop back, and its return.
Block(r) ==
    /\ living[r] = "running"
    /\ living' = [living EXCEPT ![r] = "hung"]
    /\ calm' = calm \ {r}
    /\ UNCHANGED <<turn, beats, dbUp, gone, troubled>>

Unblock(r) ==
    /\ living[r] = "hung"
    /\ living' = [living EXCEPT ![r] = "running"]
    /\ gone' = [gone EXCEPT ![r] = 0]
    /\ UNCHANGED <<turn, beats, dbUp, calm, troubled>>

Database ==
    /\ dbUp' = ~dbUp
    /\ calm' = {}
    /\ UNCHANGED <<living, turn, beats, gone, troubled>>

Round ==
    /\ \A r \in Roles : living[r] = "running" => r \in turn
    /\ turn' = {}
    /\ beats' = [r \in Roles |-> IF beats[r] = Absent THEN Absent
                                 ELSE [beats[r] EXCEPT !.age = Older(@)]]
    /\ gone' = [r \in Roles |-> IF living[r] = "running" THEN 0 ELSE Older(gone[r])]
    /\ calm' = IF dbUp THEN {r \in Roles : living[r] = "running"} ELSE {}
    /\ troubled' = [r \in Roles |-> IF r \in calm THEN 0 ELSE Older(troubled[r])]
    /\ UNCHANGED <<living, dbUp>>

HealthNext ==
    \/ \E r \in Roles : StartRole(r) \/ Beat(r) \/ StopRole(r) \/ Kill(r) \/ Block(r) \/ Unblock(r)
    \/ Database \/ Round

HealthSpec == HeartbeatInit /\ [][HealthNext]_health

-------------------------------------------------------------------------------
(* What is made of it                                                      *)

\* group_info: the lag as the server tells it, or from what the group has read of the
\* stream, or nought when it tells neither.
Lag(group, length) ==
    IF group.lag # Absent THEN group.lag
    ELSE IF group.read = Absent \/ group.read > length THEN 0
    ELSE length - group.read

Rows == {r \in Roles : beats[r] # Absent}
Stale(r) == beats[r].age > StaleBeats

StaleWorkers == {r \in Rows : Stale(r)}

\* stream_health and the tables, for a Redis that answers or not: the groups of the
\* stream, its length, the age of the newest span, the dead letters not replayed.
Problems(site) ==
    LET streams == IF site.redis
                   THEN {<<"behind", g>> : g \in {h \in DOMAIN site.groups :
                                                    Lag(site.groups[h], site.length) > MaxLag}}
                   ELSE {<<"redis unreachable">>}
        length == IF site.redis THEN site.length ELSE 0
        quiet == site.writeAge # Absent /\ site.writeAge > MaxWriteAge /\ length > 0
        tables == {<<"last seen", r>> : r \in StaleWorkers}
                  \cup (IF quiet THEN {<<"no span written">>} ELSE {})
                  \cup (IF site.letters > 0 THEN {<<"unreplayed dead letters">>} ELSE {})
    IN  streams \cup (IF dbUp THEN tables ELSE {<<"database check failed">>})

\* healthcheck, of the container on a host: the exit code is 0.
Healthy(host) ==
    LET rows == {r \in Rows : HostOf[r] = host /\ beats[r].status = "running"}
    IN  dbUp /\ rows # {} /\ \A r \in rows : ~Stale(r)

-------------------------------------------------------------------------------
(* Property                                                                *)

\* The platform notices what has stopped: once the rounds of grace are over, /health/meta
\* names every role with a row that no longer runs, and the container of a role that was
\* killed or hangs is unhealthy. A heartbeat or two that fail are no alarm, and one round
\* in which all is well ends every alarm about a role that runs, whatever else is wrong
\* (health.py:165-169, cli.py:53-58).
HealthHonest ==
    \A site \in Sites, r \in Rows :
        /\ dbUp /\ gone[r] > StaleBeats =>
              /\ <<"last seen", r>> \in Problems(site)
              /\ beats[r].status = "running" => ~Healthy(HostOf[r])
        /\ living[r] = "running" /\ troubled[r] + 1 < StaleBeats =>
              <<"last seen", r>> \notin Problems(site)
===============================================================================
