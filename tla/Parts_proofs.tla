------------------------------ MODULE Parts_proofs ------------------------------
(***************************************************************************)
(* Theorems about the small parts of the platform: the heartbeats of any   *)
(* roles on any hosts, the baselines of the drift monitor under any        *)
(* captures, the quota of the rate limiter for any window and limit, the   *)
(* pages of any table, the checksums of numbers of any length, what the    *)
(* judge is shown and says of any batch, the tree of any spans, and what   *)
(* becomes of the fields of any event and of the counts of any answer.     *)
(***************************************************************************)
EXTENDS MCParts, SequenceTheorems, FiniteSetTheorems, WellFoundedInduction, TLAPS

-------------------------------------------------------------------------------
(* Heartbeats                                                              *)

BeatTypes ==
    /\ living \in [Roles -> {"down", "running", "hung"}]
    /\ turn \subseteq Roles
    /\ calm \subseteq Roles
    /\ beats \in [Roles -> {Absent} \cup [status : {"running", "stopped"}, age : Ages]]
    /\ dbUp \in BOOLEAN
    /\ gone \in [Roles -> Ages]
    /\ troubled \in [Roles -> Ages]

\* What is gone is at least as long gone as its last beat is old.
GoneInv ==
    \A r \in Roles :
        /\ living[r] = "running" => gone[r] = 0
        /\ beats[r] # Absent => gone[r] <= beats[r].age

\* A beat is as old as the last calm round, but for the round it was written in.
CalmInv ==
    /\ calm # {} => dbUp
    /\ \A r \in calm : /\ living[r] = "running"
                       /\ r \in turn /\ beats[r] # Absent => beats[r].age = 0
    /\ \A r \in Roles : beats[r] # Absent => beats[r].age <= troubled[r] + 1

HealthInv == BeatTypes /\ GoneInv /\ CalmInv

-------------------------------------------------------------------------------
\* Ages end at one past the rounds of grace, and grow one by one to there.
LEMMA AgesGrow ==
    /\ Ages \subseteq Nat /\ 0 \in Ages
    /\ \A n \in Ages : n <= StaleBeats + 1
    /\ \A n \in Ages : Older(n) \in Ages /\ Older(n) <= n + 1
    /\ \A n \in Ages : Older(n) = IF n = StaleBeats + 1 THEN n ELSE n + 1
BY HeartbeatAssumption DEF Ages, Older

LEMMA AgesFollow ==
    ASSUME NEW m \in Ages, NEW n \in Ages
    PROVE  /\ m <= n => Older(m) <= Older(n)
           /\ m <= n + 1 => Older(m) <= Older(n) + 1
BY HeartbeatAssumption DEF Ages, Older

LEMMA InitHealth == HeartbeatInit => HealthInv
BY AgesGrow, HeartbeatAssumption
DEF HeartbeatInit, HealthInv, BeatTypes, GoneInv, CalmInv, Ages

\* The ages in a state are numbers.
LEMMA AgesAreNumbers ==
    ASSUME HealthInv, NEW r \in Roles
    PROVE  /\ gone[r] \in Nat /\ troubled[r] \in Nat
           /\ beats[r] # Absent => beats[r].age \in Nat
BY AgesGrow DEF HealthInv, BeatTypes

\* A beat that is written is new, and one that is not changes nothing.
LEMMA BeatKeeps ==
    ASSUME HealthInv, NEW r \in Roles, NEW status \in {"running", "stopped"}, Heartbeat(r, status)
    PROVE  /\ beats' \in [Roles -> {Absent} \cup [status : {"running", "stopped"}, age : Ages]]
           /\ \A q \in Roles : q # r => beats'[q] = beats[q]
           /\ dbUp => beats'[r] = [status |-> status, age |-> 0]
           /\ ~dbUp => beats' = beats
BY AgesGrow DEF HealthInv, BeatTypes, Heartbeat, Beaten

LEMMA NextHealth == HealthInv /\ [HealthNext]_health => HealthInv'
<1> SUFFICES ASSUME HealthInv, [HealthNext]_health PROVE HealthInv'
  OBVIOUS
<1> USE AgesGrow
<1>0. \A q \in Roles : /\ gone[q] \in Nat /\ troubled[q] \in Nat
                       /\ beats[q] # Absent => beats[q].age \in Nat
  BY AgesAreNumbers
<1>1. ASSUME NEW r \in Roles, StartRole(r) PROVE HealthInv'
  <2>1. Heartbeat(r, "running")
    BY <1>1 DEF StartRole
  <2>2. /\ beats' \in [Roles -> {Absent} \cup [status : {"running", "stopped"}, age : Ages]]
        /\ \A q \in Roles : q # r => beats'[q] = beats[q]
        /\ dbUp => beats'[r] = [status |-> "running", age |-> 0]
        /\ ~dbUp => beats' = beats
    BY <2>1, BeatKeeps
  <2>3. dbUp => beats'[r].age = 0
    BY <2>2
  <2>4. BeatTypes'
    BY <1>1, <2>2 DEF StartRole, HealthInv, BeatTypes
  <2>5. GoneInv'
    <3>1. living'[r] = "running" => gone'[r] = 0
      BY <1>1 DEF StartRole, HealthInv, BeatTypes, GoneInv
    <3>2. beats'[r] # Absent => gone'[r] <= beats'[r].age
      <4>1. gone'[r] = 0
        BY <1>1 DEF StartRole, HealthInv, BeatTypes, GoneInv
      <4>2. CASE dbUp
        BY <2>3, <4>1, <4>2
      <4>3. CASE ~dbUp
        BY <1>0, <2>2, <4>1, <4>3
      <4> QED BY <4>2, <4>3
    <3>3. ASSUME NEW q \in Roles, q # r
          PROVE  living'[q] = living[q] /\ gone'[q] = gone[q] /\ beats'[q] = beats[q]
      BY <1>1, <2>2, <3>3 DEF StartRole, HealthInv, BeatTypes
    <3> QED BY <3>1, <3>2, <3>3 DEF HealthInv, GoneInv
  <2>6. CalmInv'
    <3>1. beats'[r] # Absent => beats'[r].age <= troubled'[r] + 1
      <4>1. troubled' = troubled /\ (beats[r] # Absent => beats[r].age <= troubled[r] + 1)
        BY <1>1 DEF StartRole, HealthInv, CalmInv
      <4>2. CASE dbUp
        BY <1>0, <2>3, <4>1, <4>2
      <4>3. CASE ~dbUp
        BY <2>2, <4>1, <4>3
      <4> QED BY <4>2, <4>3
    <3>2. ASSUME NEW q \in Roles, q # r
          PROVE  /\ living'[q] = living[q] /\ troubled'[q] = troubled[q] /\ beats'[q] = beats[q]
                 /\ q \in calm' <=> q \in calm
                 /\ q \in turn' <=> q \in turn
      BY <1>1, <2>2, <3>2 DEF StartRole, HealthInv, BeatTypes
    <3>3. (calm # {} => dbUp)'
      BY <1>1 DEF StartRole, HealthInv, CalmInv
    <3>4. r \in calm' => /\ living'[r] = "running"
                         /\ r \in turn' /\ beats'[r] # Absent => beats'[r].age = 0
      BY <1>1, <2>3 DEF StartRole, HealthInv, CalmInv
    <3>5. calm' \subseteq Roles
      BY <2>4 DEF BeatTypes
    <3>6. \A q \in Roles : beats'[q] # Absent => beats'[q].age <= troubled'[q] + 1
      BY <3>1, <3>2 DEF HealthInv, CalmInv
    <3>7. ASSUME NEW q \in calm'
          PROVE  /\ living'[q] = "running"
                 /\ q \in turn' /\ beats'[q] # Absent => beats'[q].age = 0
      <4>1. CASE q = r
        BY <3>4, <3>7, <4>1
      <4>2. CASE q # r
        <5>1. /\ living'[q] = living[q] /\ beats'[q] = beats[q]
              /\ q \in calm /\ (q \in turn' <=> q \in turn)
          BY <3>2, <3>5, <3>7, <4>2
        <5> QED BY <5>1 DEF HealthInv, CalmInv
      <4> QED BY <4>1, <4>2
    <3> QED BY <3>3, <3>6, <3>7 DEF CalmInv
  <2> QED BY <2>4, <2>5, <2>6 DEF HealthInv
<1>2. ASSUME NEW r \in Roles, Beat(r) PROVE HealthInv'
  <2>1. Heartbeat(r, "running")
    BY <1>2 DEF Beat
  <2>2. /\ beats' \in [Roles -> {Absent} \cup [status : {"running", "stopped"}, age : Ages]]
        /\ \A q \in Roles : q # r => beats'[q] = beats[q]
        /\ dbUp => beats'[r] = [status |-> "running", age |-> 0]
        /\ ~dbUp => beats' = beats
    BY <2>1, BeatKeeps
  <2>3. dbUp => beats'[r].age = 0
    BY <2>2
  <2>4. BeatTypes'
    BY <1>2, <2>2 DEF Beat, HealthInv, BeatTypes
  <2>5. GoneInv'
    <3>1. living'[r] = "running" => gone'[r] = 0
      BY <1>2 DEF Beat, HealthInv, BeatTypes, GoneInv
    <3>2. beats'[r] # Absent => gone'[r] <= beats'[r].age
      <4>1. gone'[r] = 0
        BY <1>2 DEF Beat, HealthInv, BeatTypes, GoneInv
      <4>2. CASE dbUp
        BY <2>3, <4>1, <4>2
      <4>3. CASE ~dbUp
        BY <1>0, <2>2, <4>1, <4>3
      <4> QED BY <4>2, <4>3
    <3>3. ASSUME NEW q \in Roles, q # r
          PROVE  living'[q] = living[q] /\ gone'[q] = gone[q] /\ beats'[q] = beats[q]
      BY <1>2, <2>2, <3>3 DEF Beat, HealthInv, BeatTypes
    <3> QED BY <3>1, <3>2, <3>3 DEF HealthInv, GoneInv
  <2>6. CalmInv'
    <3>1. beats'[r] # Absent => beats'[r].age <= troubled'[r] + 1
      <4>1. troubled' = troubled /\ (beats[r] # Absent => beats[r].age <= troubled[r] + 1)
        BY <1>2 DEF Beat, HealthInv, CalmInv
      <4>2. CASE dbUp
        BY <1>0, <2>3, <4>1, <4>2
      <4>3. CASE ~dbUp
        BY <2>2, <4>1, <4>3
      <4> QED BY <4>2, <4>3
    <3>2. ASSUME NEW q \in Roles, q # r
          PROVE  /\ living'[q] = living[q] /\ troubled'[q] = troubled[q] /\ beats'[q] = beats[q]
                 /\ q \in calm' <=> q \in calm
                 /\ q \in turn' <=> q \in turn
      BY <1>2, <2>2, <3>2 DEF Beat, HealthInv, BeatTypes
    <3>3. (calm # {} => dbUp)'
      BY <1>2 DEF Beat, HealthInv, CalmInv
    <3>4. r \in calm' => /\ living'[r] = "running"
                         /\ r \in turn' /\ beats'[r] # Absent => beats'[r].age = 0
      BY <1>2, <2>3 DEF Beat, HealthInv, CalmInv
    <3>5. calm' \subseteq Roles
      BY <2>4 DEF BeatTypes
    <3>6. \A q \in Roles : beats'[q] # Absent => beats'[q].age <= troubled'[q] + 1
      BY <3>1, <3>2 DEF HealthInv, CalmInv
    <3>7. ASSUME NEW q \in calm'
          PROVE  /\ living'[q] = "running"
                 /\ q \in turn' /\ beats'[q] # Absent => beats'[q].age = 0
      <4>1. CASE q = r
        BY <3>4, <3>7, <4>1
      <4>2. CASE q # r
        <5>1. /\ living'[q] = living[q] /\ beats'[q] = beats[q]
              /\ q \in calm /\ (q \in turn' <=> q \in turn)
          BY <3>2, <3>5, <3>7, <4>2
        <5> QED BY <5>1 DEF HealthInv, CalmInv
      <4> QED BY <4>1, <4>2
    <3> QED BY <3>3, <3>6, <3>7 DEF CalmInv
  <2> QED BY <2>4, <2>5, <2>6 DEF HealthInv
<1>3. ASSUME NEW r \in Roles, StopRole(r) PROVE HealthInv'
  <2>1. Heartbeat(r, "stopped")
    BY <1>3 DEF StopRole
  <2>2. /\ beats' \in [Roles -> {Absent} \cup [status : {"running", "stopped"}, age : Ages]]
        /\ \A q \in Roles : q # r => beats'[q] = beats[q]
        /\ dbUp => beats'[r] = [status |-> "stopped", age |-> 0]
        /\ ~dbUp => beats' = beats
    BY <2>1, BeatKeeps
  <2>3. dbUp => beats'[r].age = 0
    BY <2>2
  <2>4. BeatTypes'
    BY <1>3, <2>2 DEF StopRole, HealthInv, BeatTypes
  <2>5. GoneInv'
    <3>1. living'[r] = "running" => gone'[r] = 0
      BY <1>3 DEF StopRole, HealthInv, BeatTypes, GoneInv
    <3>2. beats'[r] # Absent => gone'[r] <= beats'[r].age
      <4>1. gone'[r] = 0
        BY <1>3 DEF StopRole, HealthInv, BeatTypes, GoneInv
      <4>2. CASE dbUp
        BY <2>3, <4>1, <4>2
      <4>3. CASE ~dbUp
        BY <1>0, <2>2, <4>1, <4>3
      <4> QED BY <4>2, <4>3
    <3>3. ASSUME NEW q \in Roles, q # r
          PROVE  living'[q] = living[q] /\ gone'[q] = gone[q] /\ beats'[q] = beats[q]
      BY <1>3, <2>2, <3>3 DEF StopRole, HealthInv, BeatTypes
    <3> QED BY <3>1, <3>2, <3>3 DEF HealthInv, GoneInv
  <2>6. CalmInv'
    <3>1. beats'[r] # Absent => beats'[r].age <= troubled'[r] + 1
      <4>1. troubled' = troubled /\ (beats[r] # Absent => beats[r].age <= troubled[r] + 1)
        BY <1>3 DEF StopRole, HealthInv, CalmInv
      <4>2. CASE dbUp
        BY <1>0, <2>3, <4>1, <4>2
      <4>3. CASE ~dbUp
        BY <2>2, <4>1, <4>3
      <4> QED BY <4>2, <4>3
    <3>2. ASSUME NEW q \in Roles, q # r
          PROVE  /\ living'[q] = living[q] /\ troubled'[q] = troubled[q] /\ beats'[q] = beats[q]
                 /\ q \in calm' <=> q \in calm
                 /\ q \in turn' <=> q \in turn
      BY <1>3, <2>2, <3>2 DEF StopRole, HealthInv, BeatTypes
    <3>3. (calm # {} => dbUp)'
      BY <1>3 DEF StopRole, HealthInv, CalmInv
    <3>4. r \in calm' => /\ living'[r] = "running"
                         /\ r \in turn' /\ beats'[r] # Absent => beats'[r].age = 0
      BY <1>3, <2>3 DEF StopRole, HealthInv, CalmInv
    <3>5. calm' \subseteq Roles
      BY <2>4 DEF BeatTypes
    <3>6. \A q \in Roles : beats'[q] # Absent => beats'[q].age <= troubled'[q] + 1
      BY <3>1, <3>2 DEF HealthInv, CalmInv
    <3>7. ASSUME NEW q \in calm'
          PROVE  /\ living'[q] = "running"
                 /\ q \in turn' /\ beats'[q] # Absent => beats'[q].age = 0
      <4>1. CASE q = r
        BY <3>4, <3>7, <4>1
      <4>2. CASE q # r
        <5>1. /\ living'[q] = living[q] /\ beats'[q] = beats[q]
              /\ q \in calm /\ (q \in turn' <=> q \in turn)
          BY <3>2, <3>5, <3>7, <4>2
        <5> QED BY <5>1 DEF HealthInv, CalmInv
      <4> QED BY <4>1, <4>2
    <3> QED BY <3>3, <3>6, <3>7 DEF CalmInv
  <2> QED BY <2>4, <2>5, <2>6 DEF HealthInv
<1>4. ASSUME NEW r \in Roles, Kill(r) PROVE HealthInv'
  BY <1>4 DEF Kill, HealthInv, BeatTypes, GoneInv, CalmInv
<1>5. ASSUME NEW r \in Roles, Block(r) PROVE HealthInv'
  BY <1>5 DEF Block, HealthInv, BeatTypes, GoneInv, CalmInv
<1>6. ASSUME NEW r \in Roles, Unblock(r) PROVE HealthInv'
  BY <1>0, <1>6 DEF Unblock, HealthInv, BeatTypes, GoneInv, CalmInv
<1>7. ASSUME Database PROVE HealthInv'
  BY <1>7 DEF Database, HealthInv, BeatTypes, GoneInv, CalmInv
<1>8. ASSUME Round PROVE HealthInv'
  <2>1. BeatTypes'
    BY <1>8 DEF Round, HealthInv, BeatTypes
  <2>2. ASSUME NEW r \in Roles, beats'[r] # Absent
        PROVE  /\ beats[r] # Absent /\ beats[r].age \in Ages
               /\ beats'[r].age = Older(beats[r].age)
    BY <1>8, <2>2 DEF Round, HealthInv, BeatTypes
  <2>3. GoneInv'
    BY <1>8, <2>2 DEF Round, HealthInv, BeatTypes, GoneInv
  <2>4. CalmInv'
    <3>1. ASSUME NEW r \in Roles, beats'[r] # Absent
          PROVE  beats'[r].age <= troubled'[r] + 1
      <4>1. CASE r \in calm
        <5>1. beats[r].age = 0
          BY <1>8, <2>2, <3>1, <4>1 DEF Round, HealthInv, CalmInv
        <5> QED BY <1>8, <2>2, <3>1, <4>1, <5>1 DEF Round, HealthInv, BeatTypes
      <4>2. CASE r \notin calm
        <5>1. troubled'[r] = Older(troubled[r]) /\ troubled[r] \in Ages
          BY <1>8, <4>2 DEF Round, HealthInv, BeatTypes
        <5>2. beats[r].age <= troubled[r] + 1
          BY <2>2, <3>1 DEF HealthInv, CalmInv
        <5> QED BY <2>2, <3>1, <5>1, <5>2, AgesFollow
      <4> QED BY <4>1, <4>2
    <3>2. (calm # {} => dbUp)' /\ \A r \in calm' : living'[r] = "running" /\ r \notin turn'
      BY <1>8 DEF Round
    <3> QED BY <3>1, <3>2 DEF CalmInv
  <2> QED BY <2>1, <2>3, <2>4 DEF HealthInv
<1>9. CASE UNCHANGED health
  BY <1>9 DEF health, HealthInv, BeatTypes, GoneInv, CalmInv
<1> QED
  BY <1>1, <1>2, <1>3, <1>4, <1>5, <1>6, <1>7, <1>8, <1>9 DEF HealthNext

\* What is stale is named, and nothing else is, when the database answers.
LEMMA NamedWhenStale ==
    ASSUME NEW site \in Sites, NEW r \in Rows
    PROVE  <<"last seen", r>> \in Problems(site) <=> dbUp /\ Stale(r)
BY DEF Problems, StaleWorkers

LEMMA HealthIsHonest == HealthInv => HealthHonest
<1> SUFFICES ASSUME HealthInv, NEW site \in Sites, NEW r \in Rows
             PROVE  /\ dbUp /\ gone[r] > StaleBeats =>
                          /\ <<"last seen", r>> \in Problems(site)
                          /\ beats[r].status = "running" => ~Healthy(HostOf[r])
                    /\ living[r] = "running" /\ troubled[r] + 1 < StaleBeats =>
                          <<"last seen", r>> \notin Problems(site)
  BY DEF HealthHonest
<1>1. /\ r \in Roles /\ beats[r] # Absent
      /\ beats[r].age \in Nat /\ gone[r] \in Nat /\ troubled[r] \in Nat
      /\ gone[r] <= beats[r].age /\ beats[r].age <= troubled[r] + 1
  BY AgesGrow DEF Rows, HealthInv, BeatTypes, GoneInv, CalmInv
<1>2. StaleBeats \in Nat
  BY HeartbeatAssumption
<1>3. gone[r] > StaleBeats => Stale(r)
  BY <1>1, <1>2 DEF Stale
<1>4. troubled[r] + 1 < StaleBeats => ~Stale(r)
  BY <1>1, <1>2 DEF Stale
<1>5. Stale(r) /\ beats[r].status = "running" => ~Healthy(HostOf[r])
  BY DEF Healthy
<1> QED BY <1>3, <1>4, <1>5, NamedWhenStale

\* Whatever roles stop, are killed or hang, and whenever the database goes away: what is
\* gone is named once the rounds of grace are over, and what has had a calm round of late
\* is not.
THEOREM HonestHealth == HealthSpec => []HealthHonest
<1>1. HealthSpec => []HealthInv
  BY InitHealth, NextHealth, PTL DEF HealthSpec
<1> QED BY <1>1, HealthIsHonest, PTL

-------------------------------------------------------------------------------
(* The baselines of the drift monitor                                      *)

Baseline == [window : Windows, active : BOOLEAN, crossed : BOOLEAN]

DriftTypes ==
    /\ baselines \in Seq(Baseline)
    /\ capture \in [Operators -> [at : {"idle", "read", "commit"}, retire : SUBSET Nat,
                                  window : Windows \cup {NoCapture.window}]]
    /\ \A o \in Operators : Capturing(o) => capture[o].window \in Windows
    /\ scores \in Windows
    /\ snapshots.at \in 0 .. Len(baselines) /\ snapshots.against \in 0 .. Len(baselines)

\* Who captures alone is not crossed, and at its commit it retires all that are active;
\* what another leaves active was captured at the same time.
CaptureInv ==
    \A o \in Operators :
        /\ Capturing(o) /\ o \notin crossed =>
              \A p \in Operators \ {o} : ~Capturing(p)
        /\ capture[o].at = "commit" =>
              /\ o \notin crossed => Active \subseteq capture[o].retire
              /\ \A i \in Active \ capture[o].retire : baselines[i].crossed

\* A baseline that is active was captured at the same time as each later one.
LaterInv ==
    \A i \in Active : \A j \in i + 1 .. Len(baselines) :
        baselines[i].crossed /\ baselines[j].crossed

DriftInv == DriftTypes /\ CaptureInv /\ LaterInv /\ OneBaseline

LEMMA InitDrift == DriftInit => DriftInv
<1> SUFFICES ASSUME DriftInit
             PROVE  DriftInv
    OBVIOUS
<1>1. baselines = <<>> /\ Active = {} /\ \A o \in Operators : ~Capturing(o)
    BY DEF DriftInit, Active, Capturing, NoCapture
<1>2. DriftTypes
    BY <1>1 DEF DriftInit, DriftTypes, NoCapture, NoSnapshot
<1>3. OneBaseline
    <2>1. Cardinality(Active) = 0
        BY <1>1, FS_EmptySet
    <2> QED
        BY <1>1, <2>1 DEF OneBaseline, DriftInit, NoSnapshot
<1> QED
    BY <1>1, <1>2, <1>3 DEF DriftInit, DriftInv, CaptureInv, LaterInv, NoCapture

\* Of several elements each has another.
LEMMA Another ==
    ASSUME NEW S, Cardinality(S) > 1, NEW i \in S
    PROVE  \E j \in S : j # i
<1>1. S # {i}
    BY FS_Singleton
<1> QED
    BY <1>1

\* The baselines after a commit: those that were retired, and the new one.
LEMMA Committed ==
    ASSUME DriftTypes, NEW o \in Operators, CommitCapture(o)
    PROVE  LET n == Len(baselines) + 1
               retire == capture[o].retire
           IN  /\ Len(baselines') = n /\ baselines' \in Seq(Baseline)
               /\ baselines'[n].crossed = (o \in crossed)
               /\ \A i \in 1 .. Len(baselines) : baselines'[i].crossed = baselines[i].crossed
               /\ Active' = (Active \ retire) \cup {n}
<1> DEFINE n == Len(baselines) + 1
           retire == capture[o].retire
           new == [window |-> capture[o].window, active |-> TRUE, crossed |-> o \in crossed]
<1>1. baselines \in Seq(Baseline) /\ Len(baselines) \in Nat /\ DOMAIN baselines = 1 .. Len(baselines)
    BY LenProperties DEF DriftTypes
<1>2. new \in Baseline
    BY DEF DriftTypes, CommitCapture, Capturing, Baseline
<1>3. Retired(retire) \in [1 .. Len(baselines) -> Baseline]
    <2> SUFFICES ASSUME NEW i \in 1 .. Len(baselines)
                 PROVE  (IF i \in retire THEN [baselines[i] EXCEPT !.active = FALSE]
                         ELSE baselines[i]) \in Baseline
        BY <1>1 DEF Retired
    <2>1. baselines[i] \in Baseline
        BY <1>1, ElementOfSeq
    <2> QED
        BY <2>1 DEF Baseline
<1>4. Retired(retire) \in Seq(Baseline) /\ Len(Retired(retire)) = Len(baselines)
    <2>1. Retired(retire) \in Seq(Baseline)
        BY <1>1, <1>3, SeqDef
    <2> QED
        BY <1>1, <1>3, <2>1, LenProperties
<1>5. baselines' = Append(Retired(retire), new)
    BY DEF CommitCapture
<1> HIDE DEF new
<1>6. /\ baselines' \in Seq(Baseline) /\ Len(baselines') = n /\ baselines'[n] = new
      /\ \A i \in 1 .. Len(baselines) : baselines'[i] = Retired(retire)[i]
    BY <1>1, <1>2, <1>4, <1>5, AppendProperties
<1>7. \A i \in 1 .. Len(baselines) :
         /\ baselines'[i].crossed = baselines[i].crossed
         /\ baselines'[i].active = (baselines[i].active /\ i \notin retire)
    <2> TAKE i \in 1 .. Len(baselines)
    <2>1. baselines[i] \in Baseline
        BY <1>1, ElementOfSeq
    <2>2. baselines'[i] = IF i \in retire THEN [baselines[i] EXCEPT !.active = FALSE]
                          ELSE baselines[i]
        BY <1>1, <1>6 DEF Retired
    <2> QED
        BY <2>1, <2>2 DEF Baseline
<1>8. new.active /\ new.crossed = (o \in crossed)
    BY DEF new
<1>9. DOMAIN baselines' = 1 .. n
    BY <1>6, LenProperties
<1>10. Active' = (Active \ retire) \cup {n}
    <2> DEFINE m == Len(baselines)
    <2>1. m \in Nat /\ n = m + 1 /\ DOMAIN baselines = 1 .. m
        BY <1>1
    <2> HIDE DEF n, m, retire
    <2>2. 1 .. n = 1 .. m \cup {n} /\ n \notin 1 .. m
        BY <2>1
    <2>3. \A i \in 1 .. m : baselines'[i].active = (baselines[i].active /\ i \notin retire)
        BY <1>7 DEF m
    <2> QED
        BY <1>6, <1>8, <1>9, <2>1, <2>2, <2>3 DEF Active
<1> QED
    BY <1>6, <1>7, <1>8, <1>10

LEMMA NextDrift == DriftInv /\ [DriftNext]_drift => DriftInv'
<1> SUFFICES ASSUME DriftInv, [DriftNext]_drift
             PROVE  DriftInv'
    OBVIOUS
<1> USE DEF DriftInv
<1>0. Len(baselines) \in Nat /\ DOMAIN baselines = 1 .. Len(baselines)
    BY LenProperties DEF DriftTypes
<1>1. CASE Scored
    BY <1>1 DEF Scored, DriftTypes, CaptureInv, LaterInv, OneBaseline, Capturing, Active
<1>2. ASSUME NEW o \in Operators, StartCapture(o)
      PROVE  DriftInv'
    <2>1. /\ capture'[o] = [at |-> "read", retire |-> {}, window |-> scores]
          /\ \A p \in Operators \ {o} : capture'[p] = capture[p]
          /\ UNCHANGED <<scores, baselines, snapshots>>
        BY <1>2 DEF StartCapture, DriftTypes
    <2>2. /\ \A p \in Operators \ {o} : Capturing(p) => p \in crossed' /\ o \in crossed'
          /\ \A p \in Operators \ {o} : p \in crossed => p \in crossed'
        BY <1>2 DEF StartCapture
    <2>3. DriftTypes'
        BY <1>2, <2>1 DEF StartCapture, DriftTypes, Capturing
    <2>4. CaptureInv'
        <3> SUFFICES ASSUME NEW p \in Operators
                     PROVE  /\ capture'[p].at # "idle" /\ p \notin crossed' =>
                                  \A q \in Operators \ {p} : capture'[q].at = "idle"
                            /\ capture'[p].at = "commit" =>
                                  /\ p \notin crossed' => Active' \subseteq capture'[p].retire
                                  /\ \A i \in Active' \ capture'[p].retire : baselines'[i].crossed
            BY DEF CaptureInv, Capturing
        <3>1. Active' = Active
            BY <2>1 DEF Active
        <3>2. CASE p = o
            BY <2>1, <2>2, <3>2 DEF Capturing
        <3>3. CASE p # o
            BY <2>1, <2>2, <3>1, <3>3 DEF CaptureInv, Capturing
        <3> QED
            BY <3>2, <3>3
    <2> QED
        BY <2>1, <2>3, <2>4 DEF LaterInv, OneBaseline, Active
<1>3. ASSUME NEW o \in Operators, ReadActive(o)
      PROVE  DriftInv'
    <2>1. /\ capture[o].at = "read"
          /\ capture'[o].at = "commit" /\ capture'[o].retire = Active
          /\ capture'[o].window = capture[o].window
          /\ \A p \in Operators \ {o} : capture'[p] = capture[p]
          /\ UNCHANGED <<scores, baselines, snapshots, crossed>>
        BY <1>3 DEF ReadActive, DriftTypes
    <2>2. Active \subseteq Nat
        BY <1>0 DEF Active
    <2>3. DriftTypes'
        <3>1. capture' \in [Operators -> [at : {"idle", "read", "commit"}, retire : SUBSET Nat,
                                          window : Windows \cup {NoCapture.window}]]
            BY <1>3, <2>2 DEF ReadActive, DriftTypes
        <3> QED
            BY <2>1, <3>1 DEF DriftTypes, Capturing
    <2>4. Active' = Active
        BY <2>1 DEF Active
    <2>5. CaptureInv'
        BY <2>1, <2>4 DEF CaptureInv, Capturing
    <2> QED
        BY <2>1, <2>3, <2>4, <2>5 DEF LaterInv, OneBaseline
<1>4. ASSUME NEW o \in Operators, CommitCapture(o)
      PROVE  DriftInv'
    <2> DEFINE m == Len(baselines)
               n == m + 1
               retire == capture[o].retire
    <2>1. /\ capture[o].at = "commit" /\ capture'[o] = NoCapture
          /\ \A p \in Operators \ {o} : capture'[p] = capture[p]
          /\ UNCHANGED <<scores, snapshots, crossed>>
        BY <1>4 DEF CommitCapture, DriftTypes
    <2>2. /\ Len(baselines') = n /\ baselines' \in Seq(Baseline)
          /\ baselines'[n].crossed = (o \in crossed)
          /\ \A i \in 1 .. m : baselines'[i].crossed = baselines[i].crossed
          /\ Active' = (Active \ retire) \cup {n}
        BY <1>4, Committed
    <2>3. m \in Nat /\ DOMAIN baselines' = 1 .. n /\ baselines' # <<>> /\ Active \subseteq 1 .. m
        BY <1>0, <2>2, LenProperties, EmptySeq DEF Active
    <2>4. DriftTypes'
        <3>1. NoCapture.at = "idle" /\ NoCapture.retire = {}
            BY DEF NoCapture
        <3>2. capture' \in [Operators -> [at : {"idle", "read", "commit"}, retire : SUBSET Nat,
                                          window : Windows \cup {NoCapture.window}]]
            BY <1>4 DEF CommitCapture, DriftTypes, NoCapture
        <3>3. \A p \in Operators : Capturing(p)' => capture'[p].window \in Windows
            BY <2>1, <3>1 DEF DriftTypes, Capturing
        <3> QED
            BY <2>1, <2>2, <2>3, <3>2, <3>3 DEF DriftTypes
    <2> HIDE DEF m, n, retire
    <2>5. n \notin 1 .. m /\ 1 .. n = 1 .. m \cup {n} /\ m < n /\ n \in Nat
        BY <2>3 DEF n
    <2>6. /\ \A i \in Active \ retire : baselines[i].crossed
          /\ Active \ retire # {} => o \in crossed
        BY <2>1 DEF CaptureInv, retire
    <2>7. CaptureInv'
        <3> SUFFICES ASSUME NEW p \in Operators
                     PROVE  /\ capture'[p].at # "idle" /\ p \notin crossed' =>
                                  \A q \in Operators \ {p} : capture'[q].at = "idle"
                            /\ capture'[p].at = "commit" =>
                                  /\ p \notin crossed' => Active' \subseteq capture'[p].retire
                                  /\ \A i \in Active' \ capture'[p].retire : baselines'[i].crossed
            BY DEF CaptureInv, Capturing
        <3>1. NoCapture.at = "idle"
            BY DEF NoCapture
        <3>2. CASE p = o
            BY <2>1, <3>1, <3>2
        <3>3. CASE p # o
            <4>1. Capturing(p) => p \in crossed /\ o \in crossed
                BY <2>1, <3>3 DEF CaptureInv, Capturing
            <4> QED
                BY <2>1, <2>2, <2>3, <3>1, <3>3, <4>1 DEF CaptureInv, Capturing
        <3> QED
            BY <3>2, <3>3
    <2>8. LaterInv'
        <3> SUFFICES ASSUME NEW i \in Active', NEW j \in i + 1 .. n
                     PROVE  baselines'[i].crossed /\ baselines'[j].crossed
            BY <2>2 DEF LaterInv
        <3>1. i \in Active \ retire /\ i \in 1 .. m
            BY <2>2, <2>3, <2>5
        <3>2. CASE j = n
            BY <2>2, <2>6, <3>1, <3>2
        <3>3. CASE j # n
            <4>1. j \in i + 1 .. m /\ j \in 1 .. m
                BY <2>3, <3>1, <3>3 DEF n
            <4> QED
                BY <2>2, <3>1, <4>1 DEF LaterInv, m
        <3> QED
            BY <3>2, <3>3
    <2>9. OneBaseline'
        <3>1. Len(baselines') \in Active'
            BY <2>2
        <3>2. Cardinality(Active)' > 1 => \A i \in Active' : baselines'[i].crossed
            <4> SUFFICES ASSUME Cardinality(Active') > 1, NEW i \in Active'
                         PROVE  baselines'[i].crossed
                OBVIOUS
            <4>1. PICK j \in Active' : j # i
                BY Another
            <4>2. Active' \subseteq 1 .. n
                BY <2>2, <2>3, <2>5
            <4>3. j \in i + 1 .. n \/ i \in j + 1 .. n
                BY <2>5, <4>1, <4>2
            <4> QED
                BY <2>2, <2>8, <4>3 DEF LaterInv
        <3>3. snapshots.against # 0 =>
                 \A j \in snapshots.against + 1 .. snapshots.at :
                    baselines'[snapshots.against].crossed /\ baselines'[j].crossed
            <4> SUFFICES ASSUME snapshots.against # 0,
                                NEW j \in snapshots.against + 1 .. snapshots.at
                         PROVE  /\ baselines'[snapshots.against].crossed
                                /\ baselines'[j].crossed
                OBVIOUS
            <4>1. snapshots.at \in 0 .. m /\ snapshots.against \in 0 .. m
                BY DEF DriftTypes, m
            <4>2. snapshots.against \in 1 .. m /\ j \in 1 .. m
                BY <2>3, <4>1
            <4>3. baselines[snapshots.against].crossed /\ baselines[j].crossed
                BY DEF OneBaseline
            <4> QED
                BY <2>2, <4>2, <4>3
        <3> QED
            BY <2>1, <3>1, <3>2, <3>3 DEF OneBaseline
    <2> QED
        BY <2>4, <2>7, <2>8, <2>9
<1>5. ASSUME NEW o \in Operators, CaptureFails(o)
      PROVE  DriftInv'
    <2>1. /\ capture'[o] = NoCapture
          /\ \A p \in Operators \ {o} : capture'[p] = capture[p]
          /\ UNCHANGED <<scores, baselines, snapshots, crossed>>
        BY <1>5 DEF CaptureFails, DriftTypes
    <2>2. NoCapture.at = "idle" /\ NoCapture.retire = {}
        BY DEF NoCapture
    <2>3. DriftTypes'
        <3>1. capture' \in [Operators -> [at : {"idle", "read", "commit"}, retire : SUBSET Nat,
                                          window : Windows \cup {NoCapture.window}]]
            BY <1>5 DEF CaptureFails, DriftTypes, NoCapture
        <3> QED
            BY <2>1, <2>2, <3>1 DEF DriftTypes, Capturing
    <2>4. Active' = Active
        BY <2>1 DEF Active
    <2>5. CaptureInv'
        BY <2>1, <2>2, <2>4 DEF CaptureInv, Capturing
    <2> QED
        BY <2>1, <2>3, <2>4, <2>5 DEF LaterInv, OneBaseline
<1>6. ASSUME NEW i \in 0 .. Len(baselines), Evaluate(i)
      PROVE  DriftInv'
    <2>1. /\ snapshots'.at = Len(baselines) /\ snapshots'.against = i
          /\ i # 0 => i \in Active
          /\ UNCHANGED <<scores, baselines, capture, crossed>>
        BY <1>6 DEF Evaluate
    <2>2. Active' = Active
        BY <2>1 DEF Active
    <2>3. DriftTypes' /\ CaptureInv' /\ LaterInv'
        BY <1>0, <2>1, <2>2 DEF DriftTypes, CaptureInv, LaterInv, Capturing
    <2>4. OneBaseline'
        BY <2>1, <2>2 DEF OneBaseline, LaterInv
    <2> QED
        BY <2>3, <2>4
<1>7. CASE UNCHANGED drift
    BY <1>7 DEF drift, DriftTypes, CaptureInv, LaterInv, OneBaseline, Capturing, Active
<1> QED
    BY <1>1, <1>2, <1>3, <1>4, <1>5, <1>6, <1>7 DEF DriftNext

\* However many captures overlap and whatever becomes of them, the monitor has a baseline
\* from the first commit on, the last one; only captures that overlapped leave more than
\* one, and no snapshot was taken against one that had been replaced.
THEOREM BaselineStays == DriftSpec => []OneBaseline
<1>1. DriftInv => OneBaseline
    BY DEF DriftInv
<1> QED
    BY <1>1, InitDrift, NextDrift, PTL DEF DriftSpec

-------------------------------------------------------------------------------
(* The quota of the rate limiter                                           *)

Stores == {"redis"} \cup Processes
KeysOf(store) == IF store = "redis" THEN redis ELSE local[store]
Request == [caller : Callers, at : Nat]
Admission == [caller : Callers, at : Nat, store : Stores, late : BOOLEAN]

\* A counter outlives the bucket after its own.
GoodKeys(keys) ==
    \A k \in DOMAIN keys :
        /\ keys[k] \in [count : Nat, expiry : Nat]
        /\ \E c \in Callers, b \in Nat : k = <<c, b>> /\ keys[k].expiry >= Window * b + Ttl

LimiterTypes ==
    /\ now \in Nat
    /\ DOMAIN local = Processes
    /\ \A store \in Stores : GoodKeys(KeysOf(store))
    /\ admitted \in Seq(Admission)
    /\ \A i \in DOMAIN admitted : admitted[i].at <= now
    /\ \A r \in BagToSet(asked) : r \in Request /\ r.at <= now /\ now < r.at + Window

\* Those of caller c that a store let through in bucket b.
All(c, store, b) ==
    {i \in DOMAIN admitted :
        admitted[i].caller = c /\ admitted[i].store = store /\ Bucket(admitted[i].at) = b}

\* While a counter matters it has counted all that were let through, which are no more
\* than the quota.
CountInv ==
    \A c \in Callers, store \in Stores, b \in Nat :
        /\ Cardinality(All(c, store, b)) <= Limit
        /\ now <= Window * b + Ttl =>
              Cardinality(All(c, store, b)) <= CountOf(KeysOf(store), <<c, b>>)

PairOk(whole, next, e) ==
    OnTime(whole \cup next) =>
        Window * (Cardinality(whole) + Cardinality(next)) <= Limit * (Window + e)

PairInv ==
    \A c \in Callers, store \in Stores, b \in Nat, e \in 0 .. Window - 1 :
        PairOk(All(c, store, b), Allowed(c, store, b + 1, e), e)

LimiterInv == LimiterTypes /\ CountInv /\ PairInv

-------------------------------------------------------------------------------
LEMMA Bounds == Window \in Nat \ {0} /\ Limit \in Nat \ {0} /\ Ttl = 2 * Window
BY RateLimitAssumption DEF Ttl

\* A moment is in a bucket, at a tick of it.
LEMMA Clock ==
    ASSUME NEW t \in Nat
    PROVE  /\ Bucket(t) \in Nat /\ Elapsed(t) \in 0 .. Window - 1
           /\ t = Window * Bucket(t) + Elapsed(t)
BY Bounds DEF Bucket, Elapsed

LEMMA Products ==
    ASSUME NEW a \in Nat, NEW b \in Nat, NEW c \in Nat, a <= b
    PROVE  a * c <= b * c /\ a * c \in Nat /\ b * c \in Nat
OBVIOUS

LEMMA BucketBegins ==
    ASSUME NEW t \in Nat
    PROVE  /\ Window * Bucket(t) \in Nat /\ Window * Bucket(t) <= t
           /\ t <= Window * Bucket(t) + Window - 1
<1> DEFINE b == Bucket(t)
<1>1. b \in Nat /\ Elapsed(t) \in 0 .. Window - 1 /\ t = Window * b + Elapsed(t)
    BY Clock
<1> HIDE DEF b
<1>2. Window * b \in Nat /\ Window \in Nat
    BY <1>1, Bounds
<1>3. Window * b <= t /\ t <= Window * b + Window - 1
    BY <1>1, <1>2
<1> QED
    BY <1>2, <1>3 DEF b

\* A later moment is in no earlier bucket.
LEMMA ClockRuns ==
    ASSUME NEW s \in Nat, NEW t \in Nat, s <= t
    PROVE  Bucket(s) <= Bucket(t)
<1> DEFINE x == Bucket(s)
           y == Bucket(t)
<1>1. /\ x \in Nat /\ Window * x \in Nat /\ Window * x <= s /\ s <= Window * x + Window - 1
      /\ y \in Nat /\ Window * y \in Nat /\ Window * y <= t /\ t <= Window * y + Window - 1
    BY Clock, BucketBegins
<1> HIDE DEF x, y
<1>2. SUFFICES ASSUME y + 1 <= x
               PROVE  FALSE
    BY <1>1 DEF x, y
<1>3. (y + 1) * Window <= x * Window
    BY <1>1, <1>2, Bounds, Products
<1>4. (y + 1) * Window = Window * y + Window /\ x * Window = Window * x
    BY <1>1, Bounds
<1> QED
    BY <1>1, <1>3, <1>4, Bounds

\* The count alone stays within the quota.
LEMMA QuotaOfCount ==
    ASSUME NEW count \in Nat, NEW prev \in Nat, NEW x \in 0 .. Window - 1,
           count * Window + prev * (Window - x) <= Limit * Window
    PROVE  count <= Limit
<1>1. Window \in Nat \ {0} /\ Limit \in Nat /\ Window - x \in Nat
    BY Bounds
<1>2. prev * (Window - x) \in Nat /\ count * Window \in Nat /\ Limit * Window \in Nat
    BY <1>1
<1>3. SUFFICES ASSUME Limit + 1 <= count
               PROVE  FALSE
    BY <1>1
<1>4. (Limit + 1) * Window <= count * Window /\ (Limit + 1) * Window = Limit * Window + Window
    BY <1>1, <1>3, Products
<1> QED
    BY <1>1, <1>2, <1>4

\* The weights of the sliding window: m of the bucket that count has counted, n of the
\* one before that prev has counted, of which x ticks are over.
LEMMA Weights ==
    ASSUME NEW m \in Nat, NEW n \in Nat, NEW count \in Nat, NEW prev \in Nat,
           NEW x \in 0 .. Window - 1, NEW e \in x .. Window - 1,
           m <= count, n <= prev, n <= Limit,
           count * Window + prev * (Window - x) <= Limit * Window
    PROVE  Window * (n + m) <= Limit * (Window + e)
<1>1. /\ Window \in Nat /\ Limit \in Nat /\ x \in Nat /\ e \in Nat /\ x <= e
      /\ Window - x \in Nat
    BY Bounds
<1>2. m * Window <= count * Window
    BY <1>1, Products
<1>3. n * (Window - x) <= prev * (Window - x)
    BY <1>1, Products
<1>4. n * x <= Limit * x
    BY <1>1, Products
<1>5. x * Limit <= e * Limit
    BY <1>1, Products
<1>6. /\ Window * (n + m) = m * Window + n * (Window - x) + n * x
      /\ Limit * (Window + e) = Limit * Window + e * Limit
      /\ x * Limit = Limit * x
    BY <1>1
<1> QED
    BY <1>1, <1>2, <1>3, <1>4, <1>5, <1>6

LEMMA InitLimiter == LimiterInit => LimiterInv
<1> SUFFICES ASSUME LimiterInit
             PROVE  LimiterInv
    OBVIOUS
<1>1. \A store \in Stores : KeysOf(store) = NoKeys
    BY DEF LimiterInit, Stores, KeysOf
<1>2. /\ DOMAIN NoKeys = {} /\ GoodKeys(NoKeys)
      /\ DOMAIN admitted = {} /\ BagToSet(asked) = {}
    BY DEF LimiterInit, NoKeys, GoodKeys, EmptyBag, SetToBag, BagToSet
<1>3. LimiterTypes
    BY <1>1, <1>2 DEF LimiterInit, LimiterTypes
<1>4. \A c, store, b, e : All(c, store, b) = {} /\ Allowed(c, store, b, e) = {}
    BY <1>2 DEF All, Allowed
<1>5. Cardinality({}) = 0
    BY FS_EmptySet
<1>6. CountInv
    <2>1. \A store \in Stores : \A k : CountOf(KeysOf(store), k) = 0
        BY <1>1, <1>2 DEF CountOf, Live
    <2> QED
        BY <1>4, <1>5, <2>1, Bounds DEF CountInv
<1>7. PairInv
    <2> SUFFICES ASSUME NEW e \in 0 .. Window - 1
                 PROVE  Window * (0 + 0) <= Limit * (Window + e)
        BY <1>4, <1>5 DEF PairInv, PairOk
    <2>1. Limit * (Window + e) \in Nat
        BY Bounds
    <2> QED
        BY <2>1, Bounds
<1> QED
    BY <1>3, <1>6, <1>7 DEF LimiterInv

\* A counter goes up by one, and no other changes.
LEMMA Increments ==
    ASSUME NEW keys, GoodKeys(keys), NEW r \in Request, now \in Nat, r.at <= now
    PROVE  LET k == Current(r)
           IN  /\ GoodKeys(Incremented(keys, k))
               /\ CountOf(Incremented(keys, k), k) = CountOf(keys, k) + 1
               /\ \A j : j # k => CountOf(Incremented(keys, k), j) = CountOf(keys, j)
<1> DEFINE k == Current(r)
           more == Incremented(keys, k)
<1>1. r.caller \in Callers /\ r.at \in Nat /\ Bucket(r.at) \in Nat
    BY Clock DEF Request
<1>2. Window * Bucket(r.at) \in Nat /\ Window * Bucket(r.at) <= r.at
    BY <1>1, BucketBegins
<1>3. k = <<r.caller, Bucket(r.at)>>
    BY DEF Current
<1>4. CountOf(keys, k) \in Nat
    BY DEF CountOf, Live, GoodKeys
<1>5. now + Ttl \in Nat /\ now + Ttl >= now /\ now + Ttl >= Window * Bucket(r.at) + Ttl
    BY <1>1, <1>2, Bounds
<1> HIDE DEF k
<1>6. /\ DOMAIN more = DOMAIN keys \cup {k}
      /\ more[k] = [count |-> CountOf(keys, k) + 1, expiry |-> now + Ttl]
      /\ \A j \in DOMAIN keys \ {k} : more[j] = keys[j]
    BY DEF Incremented
<1> HIDE DEF more
<1>7. GoodKeys(more)
    BY <1>1, <1>3, <1>4, <1>5, <1>6 DEF GoodKeys
<1>8. CountOf(more, k) = CountOf(keys, k) + 1
    BY <1>5, <1>6 DEF CountOf, Live
<1>9. \A j : j # k => CountOf(more, j) = CountOf(keys, j)
    BY <1>6 DEF CountOf, Live
<1> QED
    BY <1>7, <1>8, <1>9 DEF k, more

\* What is evicted counted for nothing.
LEMMA EvictionKeeps ==
    ASSUME NEW keys, GoodKeys(keys), now \in Nat
    PROVE  GoodKeys(Evicted(keys)) /\ \A j : CountOf(Evicted(keys), j) = CountOf(keys, j)
<1> DEFINE fewer == [k \in {j \in DOMAIN keys : keys[j].expiry >= now} |-> keys[k]]
<1>1. /\ DOMAIN fewer \subseteq DOMAIN keys /\ \A j \in DOMAIN fewer : fewer[j] = keys[j]
      /\ \A j : Live(fewer, j) <=> Live(keys, j)
    BY DEF Live
<1>2. Evicted(keys) = fewer \/ Evicted(keys) = keys
    BY DEF Evicted
<1> HIDE DEF fewer
<1>3. GoodKeys(fewer)
    BY <1>1 DEF GoodKeys
<1>4. \A j : CountOf(fewer, j) = CountOf(keys, j)
    BY <1>1 DEF CountOf, Live
<1> QED
    BY <1>2, <1>3, <1>4

\* The sets of those that were let through are finite, and of one bucket.
LEMMA AllFinite ==
    ASSUME LimiterTypes, NEW c, NEW store, NEW b, NEW e
    PROVE  /\ IsFiniteSet(All(c, store, b)) /\ Cardinality(All(c, store, b)) \in Nat
           /\ IsFiniteSet(Allowed(c, store, b, e)) /\ Cardinality(Allowed(c, store, b, e)) \in Nat
           /\ Allowed(c, store, b, e) \subseteq All(c, store, b)
           /\ Cardinality(Allowed(c, store, b, e)) <= Cardinality(All(c, store, b))
           /\ e = Window - 1 => Allowed(c, store, b, e) = All(c, store, b)
<1>1. DOMAIN admitted = 1 .. Len(admitted) /\ Len(admitted) \in Nat
    BY LenProperties DEF LimiterTypes
<1>2. IsFiniteSet(DOMAIN admitted)
    BY <1>1, FS_Interval
<1>3. Allowed(c, store, b, e) \subseteq All(c, store, b) /\ All(c, store, b) \subseteq DOMAIN admitted
    BY DEF Allowed, All
<1>4. IsFiniteSet(All(c, store, b))
    BY <1>2, <1>3, FS_Subset
<1>5. \A i \in DOMAIN admitted : admitted[i].at \in Nat
    <2>1. \A i \in DOMAIN admitted : admitted[i] \in Admission
        BY <1>1, ElementOfSeq DEF LimiterTypes
    <2> QED
        BY <2>1 DEF Admission
<1>6. e = Window - 1 => Allowed(c, store, b, e) = All(c, store, b)
    BY <1>5, Clock DEF Allowed, All
<1> QED
    BY <1>3, <1>4, <1>6, FS_Subset, FS_CardinalityType

\* A store after a step.
KeysNext(store) == IF store = "redis" THEN redis' ELSE local'[store]

\* A request that is answered has been counted where it is admitted, and no counter
\* lost what it had.
LEMMA AnswerKeeps ==
    ASSUME LimiterInv, NEW r \in BagToSet(asked), NEW store \in Stores,
           now' = now, DOMAIN local' = Processes,
           \A s \in Stores : /\ GoodKeys(KeysNext(s))
                             /\ \A k : CountOf(KeysNext(s), k) >= CountOf(KeysOf(s), k),
           CountOf(KeysNext(store), Current(r)) = CountOf(KeysOf(store), Current(r)) + 1,
           Answer(KeysNext(store), r, store)
    PROVE  LimiterInv'
<1> DEFINE b0 == Bucket(r.at)
           x == Elapsed(r.at)
           n == Len(admitted) + 1
           new == [caller |-> r.caller, at |-> r.at, store |-> store,
                   late |-> Bucket(now) # Bucket(r.at)]
           count == CountOf(KeysNext(store), Current(r))
           prev == CountOf(KeysNext(store), Previous(r))
<1> USE DEF LimiterInv
<1>1. /\ r.caller \in Callers /\ r.at \in Nat /\ now \in Nat /\ r.at <= now /\ now < r.at + Window
      /\ b0 \in Nat /\ x \in 0 .. Window - 1
      /\ Window * b0 \in Nat /\ Window * b0 <= r.at /\ r.at <= Window * b0 + Window - 1
    BY Clock, BucketBegins DEF LimiterTypes, Request
<1>2. \A s \in Stores : \A k : CountOf(KeysOf(s), k) \in Nat /\ CountOf(KeysNext(s), k) \in Nat
    BY DEF LimiterTypes, GoodKeys, CountOf, Live
<1>3. /\ Current(r) = <<r.caller, b0>> /\ Previous(r) = <<r.caller, b0 - 1>>
      /\ Used(KeysNext(store), r) = count * Window + prev * (Window - x)
    BY DEF Current, Previous, Used
<1>4. \A s \in Stores : KeysOf(s)' = KeysNext(s)
    BY DEF KeysOf, KeysNext
<1>5. \A s \in Stores : \A k : CountOf(KeysOf(s), k)' = CountOf(KeysNext(s), k)
    BY <1>4 DEF CountOf, Live
<1>6. /\ Len(admitted) \in Nat /\ DOMAIN admitted = 1 .. Len(admitted)
      /\ n \notin DOMAIN admitted /\ new \in Admission
    <2>1. new \in Admission
        BY <1>1 DEF Admission
    <2> QED
        BY <2>1, LenProperties DEF LimiterTypes
<1>7. \A q \in BagToSet(asked)' : q \in Request /\ q.at <= now /\ now < q.at + Window
    <2>1. BagToSet(asked)' \subseteq BagToSet(asked)
        BY DEF Answer, BagToSet, SetToBag, (-)
    <2> QED
        BY <2>1 DEF LimiterTypes
<1>8. CASE admitted' = admitted
    <2>1. LimiterTypes'
        BY <1>4, <1>7, <1>8 DEF LimiterTypes, GoodKeys
    <2>2. \A c, s, b, e : /\ All(c, s, b)' = All(c, s, b)
                          /\ Allowed(c, s, b, e)' = Allowed(c, s, b, e)
        BY <1>8 DEF All, Allowed
    <2>3. CountInv'
        <3> SUFFICES ASSUME NEW c \in Callers, NEW s \in Stores, NEW b \in Nat
                     PROVE  /\ Cardinality(All(c, s, b)') <= Limit
                            /\ now <= Window * b + Ttl =>
                                 Cardinality(All(c, s, b)') <= CountOf(KeysNext(s), <<c, b>>)
            BY <1>5 DEF CountInv
        <3>1. CountOf(KeysNext(s), <<c, b>>) >= CountOf(KeysOf(s), <<c, b>>)
            OBVIOUS
        <3>2. Cardinality(All(c, s, b)) \in Nat
            BY AllFinite
        <3>3. All(c, s, b)' = All(c, s, b)
            BY <2>2
        <3> QED
            BY <1>2, <3>1, <3>2, <3>3 DEF CountInv
    <2>4. PairInv'
        BY <1>8, <2>2 DEF PairInv, PairOk, OnTime
    <2> QED
        BY <2>1, <2>3, <2>4
<1>9. CASE admitted' = Append(admitted, new) /\ count * Window + prev * (Window - x) <= Limit * Window
    <2> HIDE DEF new
    <2>1. /\ admitted' \in Seq(Admission) /\ DOMAIN admitted' = DOMAIN admitted \cup {n}
          /\ admitted'[n] = new
          /\ \A i \in DOMAIN admitted : admitted'[i] = admitted[i]
        <3>1. /\ admitted' \in Seq(Admission) /\ Len(admitted') = n
              /\ admitted'[n] = new
              /\ \A i \in 1 .. Len(admitted) : admitted'[i] = admitted[i]
            BY <1>6, <1>9, AppendProperties DEF LimiterTypes
        <3>2. DOMAIN admitted' = 1 .. n /\ 1 .. n = 1 .. Len(admitted) \cup {n}
            BY <1>6, <3>1, LenProperties
        <3> QED
            BY <1>6, <3>1, <3>2
    <2>2. /\ new.caller = r.caller /\ new.at = r.at /\ new.store = store
          /\ new.late = (Bucket(now) # b0)
        BY DEF new
    <2>3. LimiterTypes'
        BY <1>1, <1>4, <1>7, <2>1, <2>2 DEF LimiterTypes, GoodKeys
    <2> DEFINE mine(c, s, b) == c = r.caller /\ s = store /\ b = b0
    <2> HIDE DEF n, b0, x
    <2>4. \A c, s, b :
             All(c, s, b)' = IF mine(c, s, b) THEN All(c, s, b) \cup {n} ELSE All(c, s, b)
        BY <1>6, <2>1, <2>2 DEF All, b0
    <2>5. \A c, s, b, e :
             Allowed(c, s, b, e)' = IF mine(c, s, b) /\ x <= e THEN Allowed(c, s, b, e) \cup {n}
                                    ELSE Allowed(c, s, b, e)
        BY <1>6, <2>1, <2>2 DEF Allowed, b0, x
    <2>6. \A c, s, b : n \notin All(c, s, b)
        BY <1>6 DEF All
    <2>7. count \in Nat /\ prev \in Nat
        BY <1>2
    <2>8. CountInv'
        <3> SUFFICES ASSUME NEW c \in Callers, NEW s \in Stores, NEW b \in Nat
                     PROVE  /\ Cardinality(All(c, s, b)') <= Limit
                            /\ now <= Window * b + Ttl =>
                                 Cardinality(All(c, s, b)') <= CountOf(KeysNext(s), <<c, b>>)
            BY <1>5 DEF CountInv
        <3>1. /\ CountOf(KeysNext(s), <<c, b>>) >= CountOf(KeysOf(s), <<c, b>>)
              /\ Cardinality(All(c, s, b)) \in Nat /\ IsFiniteSet(All(c, s, b))
              /\ Cardinality(All(c, s, b)) <= Limit
              /\ now <= Window * b + Ttl =>
                   Cardinality(All(c, s, b)) <= CountOf(KeysOf(s), <<c, b>>)
            BY AllFinite DEF CountInv
        <3>2. CASE ~mine(c, s, b)
            BY <1>2, <2>4, <3>1, <3>2
        <3>3. CASE mine(c, s, b)
            <4>1. Cardinality(All(c, s, b)') = Cardinality(All(c, s, b)) + 1
                BY <2>4, <2>6, <3>1, <3>3, FS_AddElement
            <4>2. Window * b0 \in Nat /\ now <= Window * b0 + Ttl
                BY <1>1, Bounds DEF b0
            <4>3. Cardinality(All(c, s, b)') <= count
                BY <1>2, <1>3, <3>1, <3>3, <4>1, <4>2
            <4>4. count <= Limit
                BY <1>1, <1>9, <2>7, Bounds, QuotaOfCount
            <4> QED
                BY <1>3, <2>7, <3>1, <3>3, <4>1, <4>3, <4>4, Bounds
        <3> QED
            BY <3>2, <3>3
    <2>9. PairInv'
        <3> SUFFICES ASSUME NEW c \in Callers, NEW s \in Stores, NEW b \in Nat,
                            NEW e \in 0 .. Window - 1,
                            \A i \in All(c, s, b)' \cup Allowed(c, s, b + 1, e)' :
                                ~admitted'[i].late
                     PROVE  Window * (Cardinality(All(c, s, b)')
                                        + Cardinality(Allowed(c, s, b + 1, e)'))
                              <= Limit * (Window + e)
            BY DEF PairInv, PairOk, OnTime
        <3> DEFINE whole == All(c, s, b)
                   next == Allowed(c, s, b + 1, e)
        <3>1. /\ Cardinality(whole) \in Nat /\ Cardinality(whole) <= Limit
              /\ now <= Window * b + Ttl =>
                   Cardinality(whole) <= CountOf(KeysOf(s), <<c, b>>)
            BY AllFinite DEF CountInv
        <3>2. /\ Cardinality(next) \in Nat /\ IsFiniteSet(next)
              /\ Cardinality(next) <= Cardinality(All(c, s, b + 1))
              /\ next \subseteq All(c, s, b + 1) /\ Cardinality(All(c, s, b + 1)) \in Nat
            BY AllFinite
        <3>3. b + 1 \in Nat /\ b + 1 # b
            OBVIOUS
        <3>4. CASE mine(c, s, b + 1) /\ x <= e
            <4>1. All(c, s, b)' = whole /\ Allowed(c, s, b + 1, e)' = next \cup {n}
                BY <2>4, <2>5, <3>3, <3>4
            <4>2. Cardinality(next \cup {n}) = Cardinality(next) + 1
                BY <2>6, <3>2, FS_AddElement
            <4>3. Bucket(now) = b + 1
                BY <2>1, <2>2, <3>4, <4>1
            <4>4. now <= Window * b + Ttl /\ now <= Window * (b + 1) + Ttl
                <5>1. now <= Window * (b + 1) + Window - 1
                    BY <1>1, <4>3, BucketBegins
                <5>2. Window * (b + 1) = Window * b + Window /\ Window * b \in Nat
                    BY Bounds
                <5> QED
                    BY <1>1, <5>1, <5>2, Bounds
            <4>5. Cardinality(whole) <= prev
                <5>1. Previous(r) = <<c, b>>
                    BY <1>3, <3>3, <3>4
                <5>2. CountOf(KeysNext(s), <<c, b>>) >= CountOf(KeysOf(s), <<c, b>>)
                    OBVIOUS
                <5> QED
                    BY <1>2, <3>1, <3>4, <4>4, <5>1, <5>2
            <4>6. Cardinality(next) + 1 <= count
                <5>1. Cardinality(All(c, s, b + 1)) <= CountOf(KeysOf(s), <<c, b + 1>>)
                    BY <3>3, <4>4 DEF CountInv
                <5>2. count = CountOf(KeysOf(s), <<c, b + 1>>) + 1
                    BY <1>3, <3>4
                <5> QED
                    BY <1>2, <3>2, <5>1, <5>2
            <4>7. x \in 0 .. Window - 1 /\ e \in x .. Window - 1 /\ Cardinality(next) + 1 \in Nat
                BY <1>1, <3>2, <3>4, Bounds DEF x
            <4> HIDE DEF whole, next
            <4>8. Window * (Cardinality(whole) + (Cardinality(next) + 1)) <= Limit * (Window + e)
                BY <1>9, <2>7, <3>1, <4>5, <4>6, <4>7, Weights
            <4> QED
                BY <4>1, <4>2, <4>8 DEF next
        <3>5. CASE mine(c, s, b)
            <4>1. All(c, s, b)' = whole \cup {n} /\ Allowed(c, s, b + 1, e)' = next
                BY <2>4, <2>5, <3>3, <3>5
            <4>2. Bucket(now) = b
                BY <2>1, <2>2, <3>5, <4>1
            <4>3. next = {}
                <5> SUFFICES ASSUME NEW i \in next
                             PROVE  FALSE
                    OBVIOUS
                <5>1. i \in DOMAIN admitted /\ Bucket(admitted[i].at) = b + 1
                    BY DEF Allowed
                <5>2. admitted[i] \in Admission /\ admitted[i].at <= now
                    BY <1>6, <5>1, ElementOfSeq DEF LimiterTypes
                <5>3. admitted[i].at \in Nat
                    BY <5>2 DEF Admission
                <5>4. Bucket(admitted[i].at) <= Bucket(now)
                    BY <1>1, <5>2, <5>3, ClockRuns
                <5> QED
                    BY <4>2, <5>1, <5>4
            <4>4. Cardinality(All(c, s, b)') <= Limit /\ Cardinality(All(c, s, b)') \in Nat
                <5>1. Cardinality(whole \cup {n}) = Cardinality(whole) + 1
                    BY <2>6, AllFinite, FS_AddElement
                <5>2. Cardinality(All(c, s, b)') <= Limit
                    BY <2>8 DEF CountInv
                <5> QED
                    BY <3>1, <4>1, <5>1, <5>2
            <4>5. Cardinality(Allowed(c, s, b + 1, e)') = 0
                BY <4>1, <4>3, FS_EmptySet
            <4> DEFINE m == Cardinality(All(c, s, b)')
            <4> HIDE DEF m
            <4>6. m \in Nat /\ m <= Limit
                BY <4>4 DEF m
            <4>7. m * Window <= Limit * Window /\ Limit * e \in Nat
                BY <4>6, Bounds, Products
            <4>8. Window * (m + 0) = m * Window
                  /\ Limit * (Window + e) = Limit * Window + Limit * e
                BY <4>6, Bounds
            <4>9. Window * (m + 0) <= Limit * (Window + e)
                BY <4>6, <4>7, <4>8, Bounds
            <4> QED
                BY <4>5, <4>9 DEF m
        <3>6. CASE ~mine(c, s, b) /\ ~(mine(c, s, b + 1) /\ x <= e)
            <4>1. All(c, s, b)' = whole /\ Allowed(c, s, b + 1, e)' = next
                BY <2>4, <2>5, <3>6
            <4>2. whole \cup next \subseteq DOMAIN admitted
                BY DEF All, Allowed
            <4>3. OnTime(whole \cup next)
                BY <2>1, <4>1, <4>2 DEF OnTime
            <4> QED
                BY <4>1, <4>3 DEF PairInv, PairOk
        <3> QED
            BY <3>4, <3>5, <3>6
    <2> QED
        BY <2>3, <2>8, <2>9
<1> QED
    BY <1>3, <1>8, <1>9 DEF Answer

\* A tick of the clock: what a counter that matters has counted stays.
LEMMA TickKeeps ==
    ASSUME LimiterInv, Tick
    PROVE  LimiterInv'
<1> USE DEF LimiterInv
<1>1. now \in Nat /\ now' = now + 1 /\ UNCHANGED <<redis, local, asked, admitted>>
    BY DEF Tick, LimiterTypes
<1>2. \A s \in Stores : KeysOf(s)' = KeysOf(s)
    BY <1>1 DEF KeysOf
<1>3. LimiterTypes'
    <2>1. \A i \in DOMAIN admitted : admitted[i].at <= now'
        <3>1. \A i \in DOMAIN admitted : admitted[i] \in Admission
            BY ElementOfSeq, LenProperties DEF LimiterTypes
        <3> QED
            BY <1>1, <3>1 DEF LimiterTypes, Admission
    <2>2. \A r \in BagToSet(asked) : r \in Request /\ r.at <= now' /\ now' < r.at + Window
        BY <1>1 DEF LimiterTypes, Tick, Request
    <2> QED
        BY <1>1, <1>2, <2>1, <2>2 DEF LimiterTypes, GoodKeys
<1>4. \A c, s, b, e : /\ All(c, s, b)' = All(c, s, b)
                      /\ Allowed(c, s, b, e)' = Allowed(c, s, b, e)
    BY <1>1 DEF All, Allowed
<1>5. CountInv'
    <2> SUFFICES ASSUME NEW c \in Callers, NEW s \in Stores, NEW b \in Nat
                 PROVE  /\ Cardinality(All(c, s, b)) <= Limit
                        /\ now' <= Window * b + Ttl =>
                              Cardinality(All(c, s, b)) <= CountOf(KeysOf(s), <<c, b>>)'
        BY <1>4 DEF CountInv
    <2>1. Window * b + Ttl \in Nat
        BY Bounds
    <2>2. now' <= Window * b + Ttl =>
             CountOf(KeysOf(s), <<c, b>>)' = CountOf(KeysOf(s), <<c, b>>)
        <3> SUFFICES ASSUME now' <= Window * b + Ttl
                     PROVE  CountOf(KeysOf(s), <<c, b>>)' = CountOf(KeysOf(s), <<c, b>>)
            OBVIOUS
        <3>1. <<c, b>> \in DOMAIN KeysOf(s) =>
                 /\ KeysOf(s)[<<c, b>>].expiry \in Nat
                 /\ KeysOf(s)[<<c, b>>].expiry >= Window * b + Ttl
            BY DEF LimiterTypes, GoodKeys
        <3>2. <<c, b>> \in DOMAIN KeysOf(s) =>
                 KeysOf(s)[<<c, b>>].expiry >= now' /\ KeysOf(s)[<<c, b>>].expiry >= now
            BY <1>1, <2>1, <3>1
        <3> QED
            BY <1>2, <3>2 DEF CountOf, Live
    <2> QED
        BY <1>1, <2>1, <2>2 DEF CountInv
<1>6. PairInv'
    BY <1>1, <1>4 DEF PairInv, PairOk, OnTime
<1> QED
    BY <1>3, <1>5, <1>6

LEMMA NextLimiter == LimiterInv /\ [LimiterNext]_limiter => LimiterInv'
<1> SUFFICES ASSUME LimiterInv, [LimiterNext]_limiter
             PROVE  LimiterInv'
    OBVIOUS
<1>0. now \in Nat /\ DOMAIN local = Processes /\ \A s \in Stores : GoodKeys(KeysOf(s))
    BY DEF LimiterInv, LimiterTypes
<1>1. UNCHANGED <<now, redis, local, asked, admitted>> => LimiterInv'
    <2> SUFFICES ASSUME UNCHANGED <<now, redis, local, asked, admitted>>
                 PROVE  LimiterInv'
        OBVIOUS
    <2>1. \A s \in Stores : KeysOf(s)' = KeysOf(s)
        BY DEF KeysOf
    <2>2. \A s \in Stores : \A k : CountOf(KeysOf(s), k)' = CountOf(KeysOf(s), k)
        BY <2>1 DEF CountOf, Live
    <2>3. LimiterTypes'
        BY <2>1 DEF LimiterInv, LimiterTypes, GoodKeys
    <2>4. \A c, s, b, e : /\ All(c, s, b)' = All(c, s, b)
                          /\ Allowed(c, s, b, e)' = Allowed(c, s, b, e)
        BY DEF All, Allowed
    <2>5. CountInv' /\ PairInv'
        BY <2>2, <2>4 DEF LimiterInv, CountInv, PairInv, PairOk, OnTime
    <2> QED
        BY <2>3, <2>5 DEF LimiterInv
<1>2. ASSUME NEW c \in Callers, Ask(c)
      PROVE  LimiterInv'
    <2>1. /\ UNCHANGED <<now, redis, local, admitted>>
          /\ BagToSet(asked)' = BagToSet(asked) \cup {[caller |-> c, at |-> now]}
        BY <1>2 DEF Ask, BagToSet, SetToBag, (+)
    <2>2. \A s \in Stores : KeysOf(s)' = KeysOf(s)
        BY <2>1 DEF KeysOf
    <2>3. \A s \in Stores : \A k : CountOf(KeysOf(s), k)' = CountOf(KeysOf(s), k)
        BY <2>1, <2>2 DEF CountOf, Live
    <2>4. now < now + Window /\ [caller |-> c, at |-> now] \in Request
        BY <1>0, Bounds DEF Request
    <2>5. LimiterTypes'
        BY <2>1, <2>2, <2>4 DEF LimiterInv, LimiterTypes, GoodKeys
    <2>6. \A d, s, b, e : /\ All(d, s, b)' = All(d, s, b)
                          /\ Allowed(d, s, b, e)' = Allowed(d, s, b, e)
        BY <2>1 DEF All, Allowed
    <2>7. CountInv' /\ PairInv'
        BY <2>1, <2>3, <2>6 DEF LimiterInv, CountInv, PairInv, PairOk, OnTime
    <2> QED
        BY <2>5, <2>7 DEF LimiterInv
<1>3. ASSUME NEW r \in BagToSet(asked), Count(r)
      PROVE  LimiterInv'
    <2>1. /\ redis' = Incremented(redis, Current(r)) /\ Answer(redis', r, "redis")
          /\ UNCHANGED <<now, local>>
        BY <1>3 DEF Count
    <2>2. /\ KeysNext("redis") = Incremented(KeysOf("redis"), Current(r))
          /\ \A s \in Stores \ {"redis"} : KeysNext(s) = KeysOf(s)
          /\ "redis" \in Stores /\ Answer(KeysNext("redis"), r, "redis")
        BY <2>1 DEF KeysNext, KeysOf, Stores
    <2>3. r \in Request /\ r.at <= now
        BY DEF LimiterInv, LimiterTypes
    <2>4. /\ GoodKeys(KeysNext("redis"))
          /\ CountOf(KeysNext("redis"), Current(r)) = CountOf(KeysOf("redis"), Current(r)) + 1
          /\ \A j : j # Current(r) => CountOf(KeysNext("redis"), j) = CountOf(KeysOf("redis"), j)
        BY <1>0, <2>2, <2>3, Increments
    <2>5. \A s \in Stores : \A k : CountOf(KeysOf(s), k) \in Nat
        BY <1>0 DEF GoodKeys, CountOf, Live
    <2>6. \A s \in Stores : /\ GoodKeys(KeysNext(s))
                            /\ \A k : CountOf(KeysNext(s), k) >= CountOf(KeysOf(s), k)
        <3> TAKE s \in Stores
        <3>1. CASE s = "redis"
            BY <2>2, <2>4, <2>5, <3>1
        <3>2. CASE s # "redis"
            BY <1>0, <2>2, <2>5, <3>2
        <3> QED
            BY <3>1, <3>2
    <2> QED
        BY <1>0, <2>1, <2>2, <2>4, <2>6, AnswerKeeps
<1>4. ASSUME NEW r \in BagToSet(asked), NEW p \in Processes, FallBack(r, p)
      PROVE  LimiterInv'
    <2> DEFINE k == Current(r)
    <2>1. /\ redis' = redis \/ redis' = Incremented(redis, k)
          /\ local' = [local EXCEPT ![p] = Incremented(Evicted(@), k)]
          /\ Answer(local'[p], r, p) /\ now' = now
        BY <1>4 DEF FallBack
    <2>2. p # "redis" /\ p \in Stores /\ "redis" \in Stores
        BY RateLimitAssumption DEF Stores
    <2>3. /\ KeysNext("redis") = KeysOf("redis") \/ KeysNext("redis") = Incremented(KeysOf("redis"), k)
          /\ KeysNext(p) = Incremented(Evicted(KeysOf(p)), k)
          /\ \A s \in Stores \ {"redis", p} : KeysNext(s) = KeysOf(s)
          /\ Answer(KeysNext(p), r, p) /\ DOMAIN local' = Processes
        BY <1>0, <2>1, <2>2 DEF KeysNext, KeysOf, Stores
    <2>4. r \in Request /\ r.at <= now
        BY DEF LimiterInv, LimiterTypes
    <2>5. \A s \in Stores : \A j : CountOf(KeysOf(s), j) \in Nat
        BY <1>0 DEF GoodKeys, CountOf, Live
    <2>6. GoodKeys(Evicted(KeysOf(p))) /\ \A j : CountOf(Evicted(KeysOf(p)), j) = CountOf(KeysOf(p), j)
        BY <1>0, <2>2, EvictionKeeps
    <2>7. /\ GoodKeys(KeysNext(p))
          /\ CountOf(KeysNext(p), k) = CountOf(KeysOf(p), k) + 1
          /\ \A j : j # k => CountOf(KeysNext(p), j) = CountOf(KeysOf(p), j)
        BY <1>0, <2>3, <2>4, <2>6, Increments
    <2>8. /\ GoodKeys(KeysNext("redis"))
          /\ \A j : CountOf(KeysNext("redis"), j) >= CountOf(KeysOf("redis"), j)
        <3>1. CASE KeysNext("redis") = KeysOf("redis")
            BY <1>0, <2>2, <2>5, <3>1
        <3>2. CASE KeysNext("redis") = Incremented(KeysOf("redis"), k)
            <4>1. /\ GoodKeys(Incremented(KeysOf("redis"), k))
                  /\ CountOf(Incremented(KeysOf("redis"), k), k) = CountOf(KeysOf("redis"), k) + 1
                  /\ \A j : j # k => CountOf(Incremented(KeysOf("redis"), k), j)
                                       = CountOf(KeysOf("redis"), j)
                BY <1>0, <2>2, <2>4, Increments
            <4> HIDE DEF k
            <4> QED
                BY <2>2, <2>5, <3>2, <4>1
        <3> QED
            BY <2>3, <3>1, <3>2
    <2>9. \A s \in Stores : /\ GoodKeys(KeysNext(s))
                            /\ \A j : CountOf(KeysNext(s), j) >= CountOf(KeysOf(s), j)
        <3> HIDE DEF k
        <3> TAKE s \in Stores
        <3>1. CASE s = "redis"
            BY <2>8, <3>1
        <3>2. CASE s = p
            BY <2>2, <2>5, <2>7, <3>2
        <3>3. CASE s \notin {"redis", p}
            BY <1>0, <2>3, <2>5, <3>3
        <3> QED
            BY <3>1, <3>2, <3>3
    <2> QED
        BY <1>0, <2>1, <2>2, <2>3, <2>7, <2>9, AnswerKeeps
<1>5. CASE UNCHANGED limiter
    BY <1>1, <1>5 DEF limiter
<1>6. CASE RedisGoes \/ RedisReturns
    BY <1>1, <1>6 DEF RedisGoes, RedisReturns
<1> QED
    BY <1>2, <1>3, <1>4, <1>5, <1>6, TickKeeps DEF LimiterNext

LEMMA QuotaFollows == LimiterInv => QuotaHolds
<1> SUFFICES ASSUME LimiterInv, NEW c \in Callers, NEW store \in {"redis"} \cup Processes,
                    NEW b \in 0 .. Bucket(MaxTime)
             PROVE  LET whole == Allowed(c, store, b, Window - 1)
                    IN  /\ Cardinality(whole) <= Limit
                        /\ \A e \in 0 .. Window - 1 :
                              LET next == Allowed(c, store, b + 1, e)
                              IN  OnTime(whole \cup next) =>
                                    Window * (Cardinality(whole) + Cardinality(next))
                                      <= Limit * (Window + e)
    BY DEF QuotaHolds
<1>1. b \in Nat /\ store \in Stores
    BY DEF Stores
<1>2. Allowed(c, store, b, Window - 1) = All(c, store, b)
    BY AllFinite DEF LimiterInv
<1> QED
    BY <1>1, <1>2 DEF LimiterInv, CountInv, PairInv, PairOk

\* For any window, limit and number of callers and processes, whatever Redis does: no
\* store lets a caller through more often than the quota in one bucket, nor, of two
\* buckets, more often than the quota and the share of the later one that has passed.
THEOREM QuotaBinds == LimiterSpec => []QuotaHolds
<1> QED
    BY InitLimiter, NextLimiter, QuotaFollows, PTL DEF LimiterSpec

-------------------------------------------------------------------------------
(* Paging                                                                  *)

Matching == {i \in DOMAIN table : Below(i)}
Above(i) == {j \in Matching : Less(Key(i), Key(j))}

\* Below, of the state after a step.
BelowNext(i) == cursor' = <<>> \/ Less(<<table'[i], i>>, cursor')

PagingTypes ==
    /\ DOMAIN table \subseteq RowIds
    /\ \A i \in DOMAIN table : table[i] \in Times
    /\ limit \in PageSizes
    /\ cursor # <<>> => cursor \in Nat \X Nat
    /\ walked \in Seq(RowIds)
    /\ over \in BOOLEAN
    /\ steady \subseteq DOMAIN table

\* Until the end, what was shown and is still there is not below the cursor, unless its time
\* went back, and what was left alone was shown or is.
WalkInv ==
    /\ \A k, l \in DOMAIN walked : walked[k] = walked[l] => k = l \/ walked[k] \in sunk
    /\ ~over => \A k \in DOMAIN walked :
                 walked[k] \in DOMAIN table => ~Below(walked[k]) \/ walked[k] \in sunk
    /\ \A i \in steady : i \in Range(walked) \/ (~over /\ Below(i))

PagingInv == PagingTypes /\ WalkInv

LEMMA PageBounds ==
    /\ RowIds \subseteq Nat /\ IsFiniteSet(RowIds)
    /\ Times \subseteq Nat
    /\ PageSizes \subseteq Nat \ {0}
BY PagingAssumption

LEMMA RowsAreFinite ==
    ASSUME PagingTypes
    PROVE  /\ Matching \subseteq Nat /\ IsFiniteSet(Matching) /\ Cardinality(Matching) \in Nat
           /\ \A i \in Matching : /\ Above(i) \subseteq Matching /\ IsFiniteSet(Above(i))
                              /\ Cardinality(Above(i)) \in 0 .. Cardinality(Matching) - 1
<1>1. Matching \subseteq RowIds
    BY DEF Matching, PagingTypes
<1>2. Matching \subseteq Nat /\ IsFiniteSet(Matching) /\ Cardinality(Matching) \in Nat
    BY <1>1, PageBounds, FS_Subset, FS_CardinalityType
<1>3. ASSUME NEW i \in Matching
      PROVE  /\ Above(i) \subseteq Matching /\ IsFiniteSet(Above(i))
             /\ Cardinality(Above(i)) \in 0 .. Cardinality(Matching) - 1
    <2>1. Above(i) \subseteq Matching
        BY DEF Above
    <2>2. table[i] \in Nat /\ i \in Nat
        BY <1>1, <1>3, PageBounds DEF PagingTypes, Matching
    <2>3. i \notin Above(i)
        BY <2>2 DEF Above, Less, Key
    <2>4. IsFiniteSet(Above(i)) /\ Cardinality(Above(i)) \in Nat
        BY <1>2, <2>1, FS_Subset, FS_CardinalityType
    <2>5. Cardinality(Above(i)) <= Cardinality(Matching) /\ Cardinality(Above(i)) # Cardinality(Matching)
        BY <1>2, <1>3, <2>1, <2>3, FS_Subset
    <2> QED
        BY <1>2, <2>1, <2>4, <2>5
<1> QED
    BY <1>2, <1>3

\* The higher of two rows has fewer rows above it.
LEMMA HigherHasFewer ==
    ASSUME PagingTypes, NEW i \in Matching, NEW j \in Matching, Less(Key(i), Key(j))
    PROVE  Cardinality(Above(j)) < Cardinality(Above(i))
<1>1. \A k \in Matching : table[k] \in Nat /\ k \in Nat
    BY PageBounds, RowsAreFinite DEF PagingTypes, Matching
<1>2. Above(j) \subseteq Above(i)
    BY <1>1 DEF Above, Less, Key
<1>3. j \in Above(i) /\ j \notin Above(j)
    BY <1>1 DEF Above, Less, Key
<1>4. IsFiniteSet(Above(i)) /\ Cardinality(Above(i)) \in Nat /\ Cardinality(Above(j)) \in Nat
    BY RowsAreFinite, FS_CardinalityType
<1>5. Cardinality(Above(j)) <= Cardinality(Above(i)) /\ Cardinality(Above(j)) # Cardinality(Above(i))
    BY <1>2, <1>3, <1>4, FS_Subset
<1> QED
    BY <1>4, <1>5

\* No two rows have as many above them, so one of them has n - 1, for each n.
LEMMA OneOfEachRank ==
    ASSUME PagingTypes
    PROVE  /\ \A i, j \in Matching : Cardinality(Above(i)) = Cardinality(Above(j)) => i = j
           /\ \A n \in 1 .. Cardinality(Matching) : \E i \in Matching : Cardinality(Above(i)) = n - 1
<1> DEFINE size == Cardinality(Matching)
           rank == [i \in Matching |-> Cardinality(Above(i)) + 1]
<1>1. size \in Nat /\ IsFiniteSet(Matching)
    BY RowsAreFinite
<1>2. \A k \in Matching : table[k] \in Nat /\ k \in Nat
    BY PageBounds, RowsAreFinite DEF PagingTypes, Matching
<1>3. ASSUME NEW i \in Matching, NEW j \in Matching, i # j
      PROVE  Cardinality(Above(i)) # Cardinality(Above(j))
    <2>1. Less(Key(i), Key(j)) \/ Less(Key(j), Key(i))
        BY <1>2, <1>3 DEF Less, Key
    <2>2. Cardinality(Above(i)) \in Nat /\ Cardinality(Above(j)) \in Nat
        BY RowsAreFinite
    <2> QED
        BY <2>1, <2>2, HigherHasFewer
<1>4. \A i \in Matching : rank[i] \in 1 .. size
    BY <1>1, RowsAreFinite
<1>5. rank \in [Matching -> 1 .. size]
    BY <1>4
<1>6. ASSUME NEW i \in Matching, NEW j \in Matching, rank[i] = rank[j]
      PROVE  i = j
    <2>1. Cardinality(Above(i)) \in Nat /\ Cardinality(Above(j)) \in Nat
        BY RowsAreFinite
    <2> QED
        BY <1>3, <1>6, <2>1
<1>7. rank \in Injection(Matching, 1 .. size)
    <2>1. \A i, j \in DOMAIN rank : rank[i] = rank[j] => i = j
        BY <1>6
    <2> HIDE DEF rank
    <2> QED
        BY <1>5, <2>1 DEF Injection, IsInjective
<1>8. IsFiniteSet(1 .. size) /\ Cardinality(1 .. size) = size
    BY <1>1, FS_Interval
<1>9. rank \in Surjection(Matching, 1 .. size)
    <2> HIDE DEF rank
    <2> QED
        BY <1>1, <1>7, <1>8, FS_Injection
<1>10. \A n \in 1 .. size : \E i \in Matching : rank[i] = n
    <2> HIDE DEF rank
    <2> QED
        BY <1>9 DEF Surjection
<1>11. ASSUME NEW n \in 1 .. size
       PROVE  \E i \in Matching : Cardinality(Above(i)) = n - 1
    <2>1. PICK i \in Matching : rank[i] = n
        BY <1>10
    <2>2. Cardinality(Above(i)) \in Nat
        BY RowsAreFinite
    <2> QED
        BY <2>1, <2>2
<1> QED
    BY <1>3, <1>11

\* What the query returns: the highest rows, from the first down.
LEMMA FetchedRows ==
    ASSUME PagingTypes
    PROVE  /\ Fetched \in Seq(Matching)
           /\ Len(Fetched) = IF Cardinality(Matching) > limit THEN limit + 1 ELSE Cardinality(Matching)
           /\ \A n \in 1 .. Len(Fetched) : Cardinality(Above(Fetched[n])) = n - 1
<1> DEFINE count == IF Cardinality(Matching) > limit THEN limit + 1 ELSE Cardinality(Matching)
           pick(n) == CHOOSE i \in Matching : Cardinality(Above(i)) = n - 1
<1>1. limit \in Nat /\ Cardinality(Matching) \in Nat
    BY PageBounds, RowsAreFinite DEF PagingTypes
<1>2. count \in Nat /\ count <= Cardinality(Matching)
    BY <1>1
<1>3. Fetched = [n \in 1 .. count |-> pick(n)]
    BY DEF Fetched, Matching, Above
<1>4. \A n \in 1 .. count : pick(n) \in Matching /\ Cardinality(Above(pick(n))) = n - 1
    <2> SUFFICES ASSUME NEW n \in 1 .. count
                 PROVE  pick(n) \in Matching /\ Cardinality(Above(pick(n))) = n - 1
        OBVIOUS
    <2>1. n \in 1 .. Cardinality(Matching)
        BY <1>1, <1>2
    <2>2. \E i \in Matching : Cardinality(Above(i)) = n - 1
        BY <2>1, OneOfEachRank
    <2> QED
        BY <2>2, Zenon
<1> HIDE DEF pick
<1>5. \A n \in 1 .. count : Fetched[n] = pick(n)
    BY <1>3
<1> HIDE DEF count
<1>6. Fetched \in [1 .. count -> Matching]
    BY <1>3, <1>4
<1>7. Fetched \in Seq(Matching) /\ Len(Fetched) = count
    BY <1>2, <1>6, LenProperties
<1> QED
    BY <1>4, <1>5, <1>7 DEF count

\* Each row that matches is among the first n of them or below the n-th.
LEMMA AmongTheFirst ==
    ASSUME PagingTypes, NEW i \in Matching, NEW n \in 1 .. Len(Fetched)
    PROVE  (\E m \in 1 .. n : Fetched[m] = i) \/ Less(Key(i), Key(Fetched[n]))
<1> SUFFICES ASSUME ~Less(Key(i), Key(Fetched[n]))
             PROVE  \E m \in 1 .. n : Fetched[m] = i
    OBVIOUS
<1>1. /\ Len(Fetched) \in Nat
      /\ \A m \in 1 .. Len(Fetched) : /\ Fetched[m] \in Matching
                                      /\ Cardinality(Above(Fetched[m])) = m - 1
    BY FetchedRows, LenProperties, ElementOfSeq
<1>2. \A k \in Matching : table[k] \in Nat /\ k \in Nat
    BY PageBounds, RowsAreFinite DEF PagingTypes, Matching
<1>3. i = Fetched[n] \/ Less(Key(Fetched[n]), Key(i))
    BY <1>1, <1>2 DEF Less, Key
<1>4. Cardinality(Above(i)) \in Nat /\ Cardinality(Above(i)) <= n - 1
    BY <1>1, <1>3, RowsAreFinite, HigherHasFewer
<1> DEFINE m == Cardinality(Above(i)) + 1
<1>5. m \in 1 .. n /\ m \in 1 .. Len(Fetched)
    BY <1>1, <1>4
<1>6. Cardinality(Above(Fetched[m])) = Cardinality(Above(i)) /\ Fetched[m] \in Matching
    BY <1>1, <1>4, <1>5
<1>7. Fetched[m] = i
    BY <1>6, OneOfEachRank
<1> QED
    BY <1>5, <1>7

LEMMA NoneTwice ==
    ASSUME PagingTypes
    PROVE  \A m, n \in 1 .. Len(Fetched) :
               /\ Fetched[m] = Fetched[n] => m = n
               /\ m < n => Less(Key(Fetched[n]), Key(Fetched[m]))
<1> SUFFICES ASSUME NEW m \in 1 .. Len(Fetched), NEW n \in 1 .. Len(Fetched)
             PROVE  /\ Fetched[m] = Fetched[n] => m = n
                    /\ m < n => Less(Key(Fetched[n]), Key(Fetched[m]))
    OBVIOUS
<1>1. /\ Fetched[m] \in Matching /\ Cardinality(Above(Fetched[m])) = m - 1
      /\ Fetched[n] \in Matching /\ Cardinality(Above(Fetched[n])) = n - 1
    BY FetchedRows, ElementOfSeq
<1>2. Fetched[m] = Fetched[n] => m = n
    BY <1>1
<1>3. ASSUME m < n
      PROVE  Less(Key(Fetched[n]), Key(Fetched[m]))
    <2>1. \A k \in Matching : table[k] \in Nat /\ k \in Nat
        BY PageBounds, RowsAreFinite DEF PagingTypes, Matching
    <2>2. Fetched[n] # Fetched[m]
        BY <1>1, <1>3
    <2>3. ~Less(Key(Fetched[m]), Key(Fetched[n]))
        BY <1>1, <1>3, HigherHasFewer
    <2> QED
        BY <1>1, <2>1, <2>2, <2>3 DEF Less, Key
<1> QED
    BY <1>2, <1>3

\* A page is read: what it shows is new, and what it passes over is below its last row.
LEMMA PageKeeps == PagingInv /\ NextPage => PagingInv'
<1> SUFFICES ASSUME PagingInv, NextPage
             PROVE  PagingInv'
    OBVIOUS
<1> DEFINE more == Len(Fetched) > limit
           page == IF more THEN SubSeq(Fetched, 1, limit) ELSE Fetched
<1>1. /\ ~over /\ table' = table /\ limit' = limit /\ steady' = steady /\ sunk' = sunk
      /\ walked' = walked \o page
      /\ over' = ~more
      /\ cursor' = IF more THEN Key(page[limit]) ELSE cursor
    BY DEF NextPage
<1>2. PagingTypes /\ WalkInv
    BY DEF PagingInv
<1>3. limit \in Nat \ {0} /\ Len(Fetched) \in Nat /\ Fetched \in Seq(Matching)
    BY <1>2, FetchedRows, PageBounds, LenProperties DEF PagingTypes
<1>4. Matching \subseteq RowIds /\ \A k \in Matching : table[k] \in Nat /\ k \in Nat
    BY <1>2, PageBounds, RowsAreFinite DEF PagingTypes, Matching
<1>5. /\ page \in Seq(Matching)
      /\ Len(page) = IF more THEN limit ELSE Len(Fetched)
      /\ \A n \in 1 .. Len(page) : page[n] = Fetched[n]
    <2>1. CASE more
        BY <1>3, <2>1, SubSeqProperties
    <2>2. CASE ~more
        BY <1>3, <2>2
    <2> QED
        BY <2>1, <2>2
<1> HIDE DEF page
<1>6. /\ Len(page) \in Nat /\ Len(page) <= Len(Fetched)
      /\ \A n \in 1 .. Len(page) : page[n] \in Matching /\ page[n] = Fetched[n]
    BY <1>3, <1>5, ElementOfSeq
<1>7. more => limit \in 1 .. Len(page) /\ limit \in 1 .. Len(Fetched)
    BY <1>3, <1>5
<1>8. walked \in Seq(RowIds) /\ page \in Seq(RowIds) /\ Len(walked) \in Nat
    <2>1. page \in Seq(RowIds)
        BY <1>4, <1>6, <1>5, ElementOfSeq, SeqDef
    <2> QED
        BY <1>2, <2>1, LenProperties DEF PagingTypes
<1>9. /\ walked' \in Seq(RowIds)
      /\ Len(walked') = Len(walked) + Len(page)
      /\ \A k \in 1 .. Len(walked') :
             walked'[k] = IF k <= Len(walked) THEN walked[k] ELSE page[k - Len(walked)]
    BY <1>1, <1>8, ConcatProperties
<1>10. DOMAIN walked = 1 .. Len(walked) /\ DOMAIN walked' = 1 .. Len(walked')
    BY <1>8, <1>9, LenProperties
<1>11. PagingTypes'
    <2>1. cursor' # <<>> => cursor' \in Nat \X Nat
        BY <1>1, <1>2, <1>4, <1>6, <1>7 DEF PagingTypes, Key
    <2> QED
        BY <1>1, <1>2, <1>9, <2>1 DEF PagingTypes
<1>12. ASSUME NEW k \in DOMAIN walked', NEW l \in DOMAIN walked', walked'[k] = walked'[l]
       PROVE  k = l \/ walked'[k] \in sunk
    <2>1. \A a \in 1 .. Len(walked), n \in 1 .. Len(page) :
             walked[a] = page[n] => walked[a] \in sunk
        BY <1>1, <1>2, <1>6, <1>10 DEF WalkInv, Matching
    <2>2. \A m, n \in 1 .. Len(page) : page[m] = page[n] => m = n
        BY <1>2, <1>3, <1>6, NoneTwice
    <2>3. CASE k <= Len(walked) /\ l <= Len(walked)
        BY <1>2, <1>8, <1>9, <1>10, <1>12, <2>3 DEF WalkInv
    <2>4. CASE k <= Len(walked) /\ l > Len(walked)
        BY <1>6, <1>8, <1>9, <1>10, <1>12, <2>1, <2>4
    <2>5. CASE k > Len(walked) /\ l <= Len(walked)
        BY <1>6, <1>8, <1>9, <1>10, <1>12, <2>1, <2>5
    <2>6. CASE k > Len(walked) /\ l > Len(walked)
        <3>1. k - Len(walked) \in 1 .. Len(page) /\ l - Len(walked) \in 1 .. Len(page)
            BY <1>6, <1>8, <1>9, <1>10, <2>6
        <3>2. page[k - Len(walked)] = page[l - Len(walked)]
            BY <1>9, <1>10, <1>12, <2>6, <1>8
        <3>3. k - Len(walked) = l - Len(walked)
            BY <2>2, <3>1, <3>2
        <3> QED
            BY <1>8, <1>9, <1>10, <1>6, <3>3
    <2> QED
        BY <1>6, <1>8, <1>9, <1>10, <2>3, <2>4, <2>5, <2>6
<1>13. ASSUME more, NEW k \in DOMAIN walked', walked'[k] \in DOMAIN table, walked'[k] \notin sunk
       PROVE  ~BelowNext(walked'[k])
    <2> DEFINE last == Fetched[limit]
    <2>1. cursor' = Key(last) /\ last \in Matching
        BY <1>1, <1>6, <1>7, <1>13
    <2>2. Key(last) # <<>>
        BY DEF Key
    <2>3. CASE k <= Len(walked)
        <3>1. walked'[k] = walked[k] /\ k \in DOMAIN walked
            BY <1>8, <1>9, <1>10, <2>3
        <3>2. ~Below(walked[k])
            BY <1>1, <1>2, <1>13, <3>1 DEF WalkInv
        <3>3. walked[k] \in Nat /\ table[walked[k]] \in Nat
            BY <1>2, <1>13, <3>1, PageBounds DEF PagingTypes
        <3>4. cursor \in Nat \X Nat /\ ~Less(Key(walked[k]), cursor)
            BY <1>2, <3>2 DEF Below, PagingTypes
        <3>5. Less(Key(last), cursor)
            BY <2>1, <3>2 DEF Below, Matching
        <3>6. ~Less(Key(walked[k]), Key(last))
            BY <1>4, <2>1, <3>3, <3>4, <3>5 DEF Less, Key
        <3> QED
            BY <1>1, <2>1, <2>2, <3>1, <3>6 DEF BelowNext, Key
    <2>4. CASE k > Len(walked)
        <3> DEFINE n == k - Len(walked)
        <3>1. n \in 1 .. Len(page) /\ walked'[k] = Fetched[n] /\ n \in 1 .. Len(Fetched)
            BY <1>3, <1>6, <1>8, <1>9, <1>10, <2>4
        <3>2. n <= limit
            BY <1>3, <1>5, <1>13, <3>1
        <3>3. n = limit \/ Less(Key(last), Key(Fetched[n]))
            BY <1>2, <1>3, <1>7, <1>13, <3>1, <3>2, NoneTwice
        <3>4. ~Less(Key(Fetched[n]), Key(last))
            BY <1>4, <1>6, <2>1, <3>1, <3>3 DEF Less, Key
        <3> QED
            BY <1>1, <2>1, <2>2, <3>1, <3>4 DEF BelowNext, Key
    <2> QED
        BY <1>8, <1>9, <1>10, <2>3, <2>4
<1>14. ASSUME NEW i \in steady', i \notin Range(walked')
       PROVE  ~over' /\ BelowNext(i)
    <2>1. i \notin Range(walked)
        <3> SUFFICES ASSUME NEW k \in DOMAIN walked, walked[k] = i
                     PROVE  FALSE
            BY DEF Range
        <3>1. k \in DOMAIN walked' /\ walked'[k] = i
            BY <1>6, <1>8, <1>9, <1>10
        <3> QED
            BY <1>14, <3>1 DEF Range
    <2>2. i \in Matching
        BY <1>1, <1>2, <2>1 DEF WalkInv, PagingTypes, Matching
    <2>3. \A n \in 1 .. Len(page) : Fetched[n] # i
        <3> SUFFICES ASSUME NEW n \in 1 .. Len(page), Fetched[n] = i
                     PROVE  FALSE
            OBVIOUS
        <3>1. Len(walked) + n \in 1 .. Len(walked') /\ walked'[Len(walked) + n] = i
            <4> DEFINE k == Len(walked) + n
            <4>1. k \in 1 .. Len(walked') /\ ~(k <= Len(walked)) /\ k - Len(walked) = n
                BY <1>6, <1>8, <1>9
            <4> HIDE DEF k
            <4>2. walked'[k] = page[k - Len(walked)]
                BY <1>9, <4>1
            <4> QED
                BY <1>6, <4>1, <4>2 DEF k
        <3> QED
            BY <1>10, <1>14, <3>1 DEF Range
    <2>4. more
        <3> SUFFICES ASSUME ~more
                     PROVE  FALSE
            OBVIOUS
        <3>1. Len(page) = Len(Fetched) /\ Len(Fetched) = Cardinality(Matching)
            BY <1>2, <1>3, <1>5, FetchedRows, RowsAreFinite
        <3>2. Cardinality(Above(i)) \in 0 .. Cardinality(Matching) - 1
            BY <1>2, <2>2, RowsAreFinite
        <3> DEFINE n == Cardinality(Above(i)) + 1
        <3>3. n \in 1 .. Len(Fetched)
            BY <1>3, <3>1, <3>2
        <3>4. Cardinality(Above(Fetched[n])) = Cardinality(Above(i)) /\ Fetched[n] \in Matching
            BY <1>2, <1>3, <3>2, <3>3, FetchedRows, ElementOfSeq
        <3> QED
            BY <1>2, <2>2, <2>3, <3>1, <3>3, <3>4, OneOfEachRank
    <2>5. Less(Key(i), Key(Fetched[limit]))
        BY <1>2, <1>3, <1>5, <1>7, <2>2, <2>3, <2>4, AmongTheFirst
    <2>6. cursor' = Key(Fetched[limit])
        BY <1>1, <1>6, <1>7, <2>4
    <2> QED
        BY <1>1, <2>4, <2>5, <2>6 DEF BelowNext, Key
<1>15. WalkInv'
    <2>1. ~over' => \A k \in DOMAIN walked' :
             walked'[k] \in DOMAIN table' => ~BelowNext(walked'[k]) \/ walked'[k] \in sunk'
        BY <1>1, <1>13
    <2>2. \A i \in steady' : i \in Range(walked') \/ (~over' /\ BelowNext(i))
        BY <1>14
    <2>3. \A k, l \in DOMAIN walked' :
             walked'[k] = walked'[l] => k = l \/ walked'[k] \in sunk'
        BY <1>1, <1>12
    <2>4. sunk' = sunk
        BY <1>1
    <2> QED
        BY <2>1, <2>2, <2>3, <2>4 DEF WalkInv, Below, BelowNext, Key
<1> QED
    BY <1>11, <1>15 DEF PagingInv

LEMMA InitPaging == PagingInit => PagingInv
<1> SUFFICES ASSUME PagingInit
             PROVE  PagingInv
    OBVIOUS
<1>1. PICK S \in SUBSET RowIds : table \in [S -> Times]
    BY DEF PagingInit
<1>2. walked = <<>> /\ cursor = <<>> /\ over = FALSE /\ steady = DOMAIN table /\ limit \in PageSizes
    BY DEF PagingInit
<1>3. DOMAIN walked = {} /\ walked \in Seq(RowIds)
    BY <1>2, EmptySeq
<1>4. PagingTypes
    BY <1>1, <1>2, <1>3 DEF PagingTypes
<1>5. WalkInv
    BY <1>2, <1>3 DEF WalkInv, Below
<1> QED
    BY <1>4, <1>5 DEF PagingInv

LEMMA NextPaging == PagingInv /\ [PagingNext]_pages => PagingInv'
<1> SUFFICES ASSUME PagingInv, [PagingNext]_pages
             PROVE  PagingInv'
    OBVIOUS
<1>1. PagingTypes /\ WalkInv
    BY DEF PagingInv
<1>2. CASE NextPage
    BY <1>2, PageKeeps
<1>3. ASSUME NEW i \in RowIds, NEW t \in Times, AddRow(i, t)
      PROVE  PagingInv'
    <2>1. /\ limit' = limit /\ cursor' = cursor /\ walked' = walked /\ over' = over /\ steady' = steady
          /\ sunk' = sunk /\ i \notin Range(walked)
          /\ table' = [j \in DOMAIN table \cup {i} |-> IF j = i THEN t ELSE table[j]]
          /\ i \notin DOMAIN table
        BY <1>3 DEF AddRow
    <2>2. DOMAIN table' = DOMAIN table \cup {i}
        BY <2>1
    <2>3. \A j \in DOMAIN table : table'[j] = table[j] /\ (BelowNext(j) <=> Below(j))
        BY <2>1 DEF BelowNext, Below, Key
    <2>4. PagingTypes'
        BY <1>1, <2>1, <2>2 DEF PagingTypes
    <2>5. \A k \in DOMAIN walked : walked[k] # i
        BY <2>1 DEF Range
    <2>6. ~over => \A k \in DOMAIN walked :
             walked[k] \in DOMAIN table' => ~BelowNext(walked[k]) \/ walked[k] \in sunk'
        BY <1>1, <2>1, <2>2, <2>3, <2>5 DEF WalkInv
    <2>7. \A j \in steady : j \in Range(walked) \/ (~over /\ BelowNext(j))
        BY <1>1, <2>3 DEF WalkInv, PagingTypes
    <2>8. WalkInv'
        BY <1>1, <2>1, <2>6, <2>7 DEF WalkInv, Below, BelowNext, Key
    <2> QED
        BY <2>4, <2>8 DEF PagingInv
<1>4. ASSUME NEW i \in DOMAIN table, DeleteRow(i)
      PROVE  PagingInv'
    <2>1. /\ limit' = limit /\ cursor' = cursor /\ walked' = walked /\ over' = over
          /\ steady' = steady \ {i}
          /\ table' = [j \in DOMAIN table \ {i} |-> table[j]]
          /\ sunk' = sunk
        BY <1>4 DEF DeleteRow
    <2>2. DOMAIN table' = DOMAIN table \ {i}
        BY <2>1
    <2>3. \A j \in DOMAIN table' : table'[j] = table[j] /\ (BelowNext(j) <=> Below(j))
        BY <2>1 DEF BelowNext, Below, Key
    <2>4. PagingTypes'
        BY <1>1, <2>1, <2>2 DEF PagingTypes
    <2>5. ~over => \A k \in DOMAIN walked :
             walked[k] \in DOMAIN table' => ~BelowNext(walked[k]) \/ walked[k] \in sunk'
        BY <1>1, <2>1, <2>2, <2>3 DEF WalkInv
    <2>6. \A j \in steady' : j \in Range(walked) \/ (~over /\ BelowNext(j))
        BY <1>1, <2>1, <2>2, <2>3 DEF WalkInv, PagingTypes
    <2>7. WalkInv'
        BY <1>1, <2>1, <2>5, <2>6 DEF WalkInv, Below, BelowNext, Key
    <2> QED
        BY <2>4, <2>7 DEF PagingInv
<1>5. ASSUME NEW i \in DOMAIN table, NEW t \in Times, RaiseAgain(i, t)
      PROVE  PagingInv'
    <2>1. /\ limit' = limit /\ cursor' = cursor /\ walked' = walked /\ over' = over
          /\ steady' = steady \ {i}
          /\ table' = [table EXCEPT ![i] = t]
          /\ sunk' = IF t < table[i] THEN sunk \cup {i} ELSE sunk
        BY <1>5 DEF RaiseAgain
    <2>2. DOMAIN table' = DOMAIN table /\ table'[i] = t
        BY <2>1
    <2>3. \A j \in DOMAIN table \ {i} : table'[j] = table[j] /\ (BelowNext(j) <=> Below(j))
        BY <2>1 DEF BelowNext, Below, Key
    <2>4. ~Below(i) => ~BelowNext(i) \/ i \in sunk'
        <3>1. table[i] \in Nat /\ t \in Nat /\ i \in Nat
            BY <1>1, PageBounds DEF PagingTypes
        <3>2. cursor # <<>> => cursor \in Nat \X Nat
            BY <1>1 DEF PagingTypes
        <3> QED
            BY <2>1, <2>2, <3>1, <3>2 DEF Below, BelowNext, Less, Key
    <2>5. PagingTypes'
        BY <1>1, <2>1, <2>2 DEF PagingTypes
    <2>6. ~over => \A k \in DOMAIN walked :
             walked[k] \in DOMAIN table' => ~BelowNext(walked[k]) \/ walked[k] \in sunk'
        BY <1>1, <2>1, <2>2, <2>3, <2>4 DEF WalkInv
    <2>7. \A j \in steady' : j \in Range(walked) \/ (~over /\ BelowNext(j))
        BY <1>1, <2>1, <2>3 DEF WalkInv, PagingTypes
    <2>8. WalkInv'
        BY <1>1, <2>1, <2>6, <2>7 DEF WalkInv, Below, BelowNext, Key
    <2> QED
        BY <2>5, <2>8 DEF PagingInv
<1>6. CASE UNCHANGED pages
    BY <1>1, <1>6 DEF pages, PagingInv, PagingTypes, WalkInv, Below, Key
<1> QED
    BY <1>2, <1>3, <1>4, <1>5, <1>6 DEF PagingNext

\* For any rows, times and page sizes: a reader who has walked to the end was shown every
\* row that was there all the while and was left alone, and no row twice whose time never went
\* back, whatever was added, deleted or raised again between two pages.
THEOREM EveryRowOnce == PagingSpec => []EachOnce
<1>1. PagingInv => EachOnce
    BY DEF PagingInv, WalkInv, EachOnce, Range
<1> QED
    BY <1>1, InitPaging, NextPaging, PTL DEF PagingSpec

-------------------------------------------------------------------------------
(* Functions that are defined from their last value                        *)

\* A set of naturals that is not empty has a least element.
LEMMA LeastElement ==
    ASSUME NEW S \in SUBSET Nat, S # {}
    PROVE  \E x \in S : \A y \in S : x <= y
<1> DEFINE Smaller == {p \in Nat \X Nat : p[1] < p[2]}
<1>1. IsWellFoundedOn(Smaller, Nat)
    BY NatLessThanWellFounded DEF OpToRel
<1>2. \A x, y \in S : y < x => <<y, x>> \in Smaller
    OBVIOUS
<1>3. PICK x \in S : \A y \in S : <<y, x>> \notin Smaller
    <2> HIDE DEF Smaller
    <2> QED
        BY <1>1, WFMin
<1> HIDE DEF Smaller
<1>4. \A y \in S : ~(y < x)
    BY <1>2, <1>3
<1>5. \A y \in S : x <= y
    BY <1>4
<1> QED
    BY <1>5

\* Induction over the natural numbers, for a set of them.
LEMMA Induction ==
    ASSUME NEW P \in SUBSET Nat, 0 \in P, \A n \in P : n + 1 \in P
    PROVE  P = Nat
<1> SUFFICES ASSUME Nat \ P # {}
             PROVE  FALSE
    OBVIOUS
<1>1. PICK x \in Nat \ P : \A y \in Nat \ P : x <= y
    BY LeastElement
<1>2. x # 0 /\ x - 1 \in Nat /\ x - 1 \in P
    BY <1>1
<1> QED
    BY <1>1, <1>2

\* f is built up from base, step by step.
Follows(f, n, base, step) ==
    f[0] = base /\ \A i \in 1 .. n : f[i] = step[<<i, f[i - 1]>>]

\* A function that is defined by its last value: there is one.
LEMMA Recursion ==
    ASSUME NEW n \in Nat, NEW S, NEW base \in S, NEW step \in [(1 .. n) \X S -> S]
    PROVE  \E f \in [0 .. n -> S] : Follows(f, n, base, step)
<1> DEFINE Good(m, f) == /\ f \in [0 .. m -> S]
                         /\ f[0] = base
                         /\ \A i \in 1 .. m : f[i] = step[<<i, f[i - 1]>>]
           P == {m \in Nat : m <= n => \E f : Good(m, f)}
<1>1. 0 \in P
    <2>1. Good(0, [i \in 0 .. 0 |-> base])
        OBVIOUS
    <2> QED
        BY <2>1
<1>2. ASSUME NEW m \in P
      PROVE  m + 1 \in P
    <2> SUFFICES ASSUME m + 1 <= n
                 PROVE  \E f : Good(m + 1, f)
        BY <1>2
    <2>1. PICK f : Good(m, f)
        BY <1>2
    <2>2. m \in Nat /\ m + 1 \in 1 .. n /\ f[m] \in S
        BY <1>2, <2>1
    <2>3. step[<<m + 1, f[m]>>] \in S
        BY <2>2
    <2> DEFINE g == [i \in 0 .. m + 1 |-> IF i = m + 1 THEN step[<<m + 1, f[m]>>] ELSE f[i]]
    <2>4. g \in [0 .. m + 1 -> S]
        BY <2>1, <2>2, <2>3
    <2>5. g[0] = base
        BY <2>1, <2>2
    <2>6. ASSUME NEW i \in 1 .. m + 1
          PROVE  g[i] = step[<<i, g[i - 1]>>]
        <3>1. i - 1 \in 0 .. m /\ g[i - 1] = f[i - 1]
            BY <2>2
        <3>2. CASE i = m + 1
            <4>1. i - 1 = m /\ g[i] = step[<<m + 1, f[m]>>]
                BY <2>2, <3>2
            <4> QED
                BY <3>1, <3>2, <4>1
        <3>3. CASE i # m + 1
            <4>1. i \in 1 .. m /\ g[i] = f[i]
                BY <2>2, <3>3
            <4> QED
                BY <2>1, <3>1, <4>1
        <3> QED
            BY <3>2, <3>3
    <2> HIDE DEF g
    <2>7. Good(m + 1, g)
        BY <2>4, <2>5, <2>6
    <2> QED
        BY <2>7
<1> HIDE DEF Good
<1>3. P = Nat
    <2>1. P \in SUBSET Nat
        OBVIOUS
    <2> HIDE DEF P
    <2> QED
        BY <1>1, <1>2, <2>1, Induction
<1>4. PICK f : Good(n, f)
    BY <1>3
<1> QED
    BY <1>4 DEF Good, Follows

-------------------------------------------------------------------------------
(* Checksums                                                               *)

\* A value with one character replaced, and with two neighbours swapped.
LEMMA PutIs ==
    ASSUME NEW S, NEW v \in Seq(S), NEW p \in 1 .. Len(v), NEW d \in S
    PROVE  /\ Put(v, p, d) \in Seq(S) /\ Len(Put(v, p, d)) = Len(v)
           /\ \A i \in 1 .. Len(v) : Put(v, p, d)[i] = IF i = p THEN d ELSE v[i]
BY ExceptSeq, ElementOfSeq DEF Put

LEMMA DigitPut ==
    ASSUME NEW v \in Seq(Digit), NEW p \in 1 .. Len(v), NEW d \in Digit
    PROVE  /\ Put(v, p, d) \in Seq(Digit) /\ Len(Put(v, p, d)) = Len(v)
           /\ \A i \in 1 .. Len(v) : Put(v, p, d)[i] = IF i = p THEN d ELSE v[i]
BY ExceptSeq, ElementOfSeq DEF Put

LEMMA SwapIs ==
    ASSUME NEW S, NEW v \in Seq(S), NEW p \in 1 .. Len(v), p + 1 \in 1 .. Len(v)
    PROVE  /\ Swap(v, p) \in Seq(S) /\ Len(Swap(v, p)) = Len(v)
           /\ \A i \in 1 .. Len(v) :
                Swap(v, p)[i] = IF i = p THEN v[p + 1] ELSE IF i = p + 1 THEN v[p] ELSE v[i]
<1>1. v[p] \in S /\ v[p + 1] \in S /\ p \in Int
    BY ElementOfSeq
<1> DEFINE u == [v EXCEPT ![p] = v[p + 1]]
           w == [u EXCEPT ![p + 1] = v[p]]
<1>2. /\ u \in Seq(S) /\ Len(u) = Len(v)
      /\ \A i \in 1 .. Len(v) : u[i] = IF i = p THEN v[p + 1] ELSE v[i]
    BY <1>1, ExceptSeq
<1>3. Swap(v, p) = w
    BY DEF Swap
<1> HIDE DEF u
<1>4. /\ w \in Seq(S) /\ Len(w) = Len(u)
      /\ \A i \in 1 .. Len(u) : w[i] = IF i = p + 1 THEN v[p] ELSE u[i]
    BY <1>1, <1>2, ExceptSeq
<1> HIDE DEF w
<1> QED
    BY <1>1, <1>2, <1>3, <1>4

\* What a digit adds to the Luhn sum of n digits, from place i.
LuhnWeight(n, i, d) == IF (i - 1) % 2 = n % 2 THEN Doubled(d) ELSE d

LEMMA WeightIsDigit ==
    ASSUME NEW n \in Nat, NEW i \in Nat, NEW d \in Digit
    PROVE  /\ LuhnWeight(n, i, d) \in Digit
           /\ \A e \in Digit : LuhnWeight(n, i, d) = LuhnWeight(n, i, e) => d = e
<1>1. Doubled(d) \in Digit /\ \A e \in Digit : Doubled(d) = Doubled(e) => d = e
    BY DEF Doubled, Digit
<1>2. CASE (i - 1) % 2 = n % 2
    BY <1>1, <1>2 DEF LuhnWeight
<1>3. CASE (i - 1) % 2 # n % 2
    BY <1>3 DEF LuhnWeight
<1> QED
    BY <1>2, <1>3

\* The Luhn sum of some digits adds their weights, one by one.
LuhnRuns(v, f) ==
    /\ f \in [0 .. Len(v) -> Nat]
    /\ f[0] = 0 /\ f[Len(v)] = LuhnSum(v)
    /\ \A i \in 1 .. Len(v) : f[i] = f[i - 1] + LuhnWeight(Len(v), i, v[i])

LEMMA LuhnUnfolds ==
    ASSUME NEW v \in Seq(Digit)
    PROVE  \E f : LuhnRuns(v, f)
<1> DEFINE n == Len(v)
           Body(f, i) == IF i = 0 THEN 0
                          ELSE f[i - 1] + (IF (i - 1) % 2 = n % 2 THEN Doubled(v[i]) ELSE v[i])
           Def(f) == f = [i \in 0 .. n |-> Body(f, i)]
           sum == CHOOSE f : Def(f)
           step == [q \in (1 .. n) \X Nat |-> q[2] + LuhnWeight(n, q[1], v[q[1]])]
<1>1. n \in Nat /\ \A i \in 1 .. n : LuhnWeight(n, i, v[i]) \in Nat
    <2>1. n \in Nat /\ \A i \in 1 .. n : v[i] \in Digit /\ i \in Nat
        BY LenProperties, ElementOfSeq
    <2>2. Digit \subseteq Nat
        BY DEF Digit
    <2> QED
        BY <2>1, <2>2, WeightIsDigit
<1>2. LuhnSum(v) = sum[n]
    BY DEF LuhnSum
<1> HIDE DEF n
<1>3. step \in [(1 .. n) \X Nat -> Nat]
    BY <1>1
<1>4. \E f : Def(f)
    <2> HIDE DEF step
    <2>1. PICK f \in [0 .. n -> Nat] : Follows(f, n, 0, step)
        BY <1>1, <1>3, Recursion
    <2>2. ASSUME NEW i \in 0 .. n
          PROVE  f[i] = Body(f, i)
        <3>1. CASE i = 0
            BY <2>1, <3>1 DEF Follows
        <3>2. CASE i # 0
            <4>1. i \in 1 .. n /\ i - 1 \in 0 .. n /\ f[i - 1] \in Nat
                BY <1>1, <2>1, <3>2
            <4>2. f[i] = step[<<i, f[i - 1]>>]
                BY <2>1, <4>1 DEF Follows
            <4> QED
                BY <3>2, <4>1, <4>2 DEF step, LuhnWeight
        <3> QED
            BY <3>1, <3>2
    <2>3. DOMAIN f = 0 .. n /\ f = [i \in DOMAIN f |-> f[i]]
        BY <2>1
    <2> HIDE DEF Body
    <2> QED
        BY <2>2, <2>3
<1>5. Def(sum)
    BY <1>4
<1> HIDE DEF sum, step
<1>6. sum[0] = 0
    BY <1>1, <1>5
<1>7. ASSUME NEW i \in 1 .. n
      PROVE  sum[i] = sum[i - 1] + LuhnWeight(n, i, v[i])
    <2>1. i \in 0 .. n /\ i # 0
        BY <1>1
    <2> QED
        BY <1>5, <2>1 DEF LuhnWeight
<1>8. \A i \in 0 .. n : sum[i] \in Nat
    <2> DEFINE P == {i \in Nat : i <= n => sum[i] \in Nat}
    <2>1. 0 \in P
        BY <1>6
    <2>2. ASSUME NEW i \in P
          PROVE  i + 1 \in P
        <3> SUFFICES ASSUME i + 1 <= n
                     PROVE  sum[i + 1] \in Nat
            OBVIOUS
        <3>1. i + 1 \in 1 .. n /\ sum[i] \in Nat /\ (i + 1) - 1 = i
            BY <1>1, <2>2
        <3> QED
            BY <1>1, <1>7, <3>1
    <2>3. P \in SUBSET Nat
        OBVIOUS
    <2> HIDE DEF P
    <2>4. P = Nat
        BY <2>1, <2>2, <2>3, Induction
    <2> QED
        BY <1>1, <2>4 DEF P
<1>9. DOMAIN sum = 0 .. n
    BY <1>5
<1>10. sum \in [0 .. n -> Nat]
    <2>1. sum = [i \in 0 .. n |-> sum[i]]
        BY <1>5, <1>9
    <2> QED
        BY <1>8, <2>1
<1> QED
    BY <1>2, <1>6, <1>7, <1>10 DEF LuhnRuns, n

\* If two numbers of one length differ only up to a place, their sums differ by the same
\* from there on.
LEMMA LuhnDiffers ==
    ASSUME NEW v \in Seq(Digit), NEW w \in Seq(Digit), Len(v) = Len(w),
           NEW p \in 0 .. Len(v), \A i \in p + 1 .. Len(v) : v[i] = w[i],
           NEW f, LuhnRuns(v, f), NEW g, LuhnRuns(w, g)
    PROVE  LuhnSum(v) - LuhnSum(w) = f[p] - g[p]
<1> DEFINE n == Len(v)
           P == {k \in Nat : p + k <= n => f[p + k] - g[p + k] = f[p] - g[p]}
<1>1. n \in Nat /\ \A i \in 0 .. n : f[i] \in Nat /\ g[i] \in Nat
    BY LenProperties DEF LuhnRuns
<1>2. 0 \in P
    BY <1>1
<1>3. ASSUME NEW k \in P
      PROVE  k + 1 \in P
    <2> SUFFICES ASSUME p + k + 1 <= n
                 PROVE  f[p + (k + 1)] - g[p + (k + 1)] = f[p] - g[p]
        BY <1>1
    <2> DEFINE i == p + k + 1
    <2>1. /\ i \in 1 .. n /\ i \in p + 1 .. n /\ i - 1 = p + k /\ i = p + (k + 1)
          /\ p + k <= n /\ p + k \in 0 .. n
        BY <1>1
    <2>2. f[p + k] - g[p + k] = f[p] - g[p]
        BY <2>1
    <2> HIDE DEF i
    <2>3. f[i] = f[i - 1] + LuhnWeight(n, i, v[i]) /\ g[i] = g[i - 1] + LuhnWeight(n, i, w[i])
        BY <2>1 DEF LuhnRuns
    <2>4. v[i] = w[i] /\ v[i] \in Digit
        BY <2>1, ElementOfSeq
    <2>5. LuhnWeight(n, i, v[i]) \in Nat
        <3>1. i \in Nat /\ Digit \subseteq Nat
            BY <2>1 DEF Digit
        <3> QED
            BY <1>1, <2>4, <3>1, WeightIsDigit
    <2> QED
        BY <1>1, <2>1, <2>2, <2>3, <2>4, <2>5
<1>4. P = Nat
    <2>1. P \in SUBSET Nat
        OBVIOUS
    <2> HIDE DEF P
    <2> QED
        BY <1>2, <1>3, <2>1, Induction
<1>5. n - p \in Nat /\ p + (n - p) = n
    BY <1>1
<1>6. n - p \in P
    <2> HIDE DEF P
    <2> QED
        BY <1>4, <1>5
<1>7. f[n] - g[n] = f[p] - g[p]
    BY <1>5, <1>6
<1> QED
    BY <1>7 DEF LuhnRuns

\* Two numbers that are the same up to a place have the same sum up to there.
LEMMA LuhnAgrees ==
    ASSUME NEW v \in Seq(Digit), NEW w \in Seq(Digit), Len(v) = Len(w),
           NEW p \in 0 .. Len(v), \A i \in 1 .. p : v[i] = w[i],
           NEW f, LuhnRuns(v, f), NEW g, LuhnRuns(w, g)
    PROVE  f[p] = g[p]
<1> DEFINE P == {k \in Nat : k <= p => f[k] = g[k]}
<1>1. Len(v) \in Nat
    BY LenProperties
<1>2. 0 \in P
    BY DEF LuhnRuns
<1>3. ASSUME NEW k \in P
      PROVE  k + 1 \in P
    <2> SUFFICES ASSUME k + 1 <= p
                 PROVE  f[k + 1] = g[k + 1]
        OBVIOUS
    <2>1. k + 1 \in 1 .. p /\ k + 1 \in 1 .. Len(v) /\ (k + 1) - 1 = k /\ f[k] = g[k]
        BY <1>1, <1>3
    <2> QED
        BY <2>1 DEF LuhnRuns
<1>4. P = Nat
    <2>1. P \in SUBSET Nat
        OBVIOUS
    <2> HIDE DEF P
    <2> QED
        BY <1>2, <1>3, <2>1, Induction
<1> QED
    BY <1>1, <1>4

LEMMA CloseSums ==
    ASSUME NEW x \in Nat, NEW y \in Nat, x # y, x - y \in -9 .. 9
    PROVE  x % 10 # y % 10
OBVIOUS

\* The Luhn sum notices a wrong digit.
LEMMA LuhnPut ==
    ASSUME NEW v \in Seq(Digit), NEW p \in 1 .. Len(v), NEW d \in Digit, d # v[p]
    PROVE  LuhnSum(Put(v, p, d)) % 10 # LuhnSum(v) % 10
<1> DEFINE w == Put(v, p, d)
           n == Len(v)
<1>1. /\ w \in Seq(Digit) /\ Len(w) = n
      /\ \A i \in 1 .. n : w[i] = IF i = p THEN d ELSE v[i]
    BY DigitPut
<1> HIDE DEF w
<1>2. n \in Nat /\ v[p] \in Digit /\ p - 1 \in 0 .. n /\ p \in 0 .. n
    BY LenProperties, ElementOfSeq
<1>3. PICK f : LuhnRuns(v, f)
    BY LuhnUnfolds
<1>4. PICK g : LuhnRuns(w, g)
    BY <1>1, LuhnUnfolds
<1>5. f[p - 1] = g[p - 1]
    <2>1. \A i \in 1 .. p - 1 : v[i] = w[i]
        BY <1>1, <1>2
    <2> QED
        BY <1>1, <1>2, <1>3, <1>4, <2>1, LuhnAgrees
<1>6. LuhnSum(v) - LuhnSum(w) = f[p] - g[p]
    <2>1. \A i \in p + 1 .. Len(v) : v[i] = w[i]
        BY <1>1, <1>2
    <2> QED
        BY <1>1, <1>2, <1>3, <1>4, <2>1, LuhnDiffers
<1>7. f[p] = f[p - 1] + LuhnWeight(n, p, v[p]) /\ g[p] = g[p - 1] + LuhnWeight(n, p, d)
    BY <1>1, <1>3, <1>4 DEF LuhnRuns
<1>8. f[p - 1] \in Nat /\ LuhnSum(v) \in Nat /\ LuhnSum(w) \in Nat
    <2>1. f \in [0 .. n -> Nat] /\ g \in [0 .. n -> Nat]
        BY <1>1, <1>3, <1>4 DEF LuhnRuns
    <2>2. LuhnSum(v) = f[n] /\ LuhnSum(w) = g[n] /\ n \in 0 .. n
        BY <1>1, <1>2, <1>3, <1>4 DEF LuhnRuns
    <2> QED
        BY <1>2, <2>1, <2>2
<1>9. /\ LuhnWeight(n, p, v[p]) \in Digit /\ LuhnWeight(n, p, d) \in Digit
      /\ LuhnWeight(n, p, v[p]) # LuhnWeight(n, p, d)
    <2>1. p \in Nat
        OBVIOUS
    <2> QED
        BY <1>2, <2>1, WeightIsDigit
<1> HIDE DEF n
<1>10. LuhnSum(w) # LuhnSum(v) /\ LuhnSum(w) - LuhnSum(v) \in -9 .. 9
    <2> DEFINE x == LuhnWeight(n, p, v[p])
               y == LuhnWeight(n, p, d)
               z == f[p - 1]
               sv == LuhnSum(v)
               sw == LuhnSum(w)
    <2>1. x \in 0 .. 9 /\ y \in 0 .. 9 /\ x # y
        BY <1>9 DEF Digit
    <2>2. sv - sw = (z + x) - (z + y)
        BY <1>5, <1>6, <1>7
    <2>3. z \in Nat /\ sv \in Nat /\ sw \in Nat
        BY <1>8
    <2> HIDE DEF x, y, z, sv, sw
    <2>4. sw # sv /\ sw - sv \in -9 .. 9
        BY <2>1, <2>2, <2>3
    <2> QED
        BY <2>4 DEF sv, sw
<1>11. LuhnSum(w) % 10 # LuhnSum(v) % 10
    BY <1>8, <1>10, CloseSums
<1> QED
    BY <1>11 DEF w

\* The Luhn sum notices two neighbours that changed places, unless they are 0 and 9.
LEMMA LuhnSwap ==
    ASSUME NEW v \in Seq(Digit), NEW p \in 1 .. Len(v), p + 1 \in 1 .. Len(v),
           v[p] # v[p + 1], {v[p], v[p + 1]} # {0, 9}
    PROVE  LuhnSum(Swap(v, p)) % 10 # LuhnSum(v) % 10
<1> DEFINE w == Swap(v, p)
           n == Len(v)
           a == v[p]
           b == v[p + 1]
<1>1. /\ w \in Seq(Digit) /\ Len(w) = n
      /\ \A i \in 1 .. n : w[i] = IF i = p THEN b ELSE IF i = p + 1 THEN a ELSE v[i]
    BY SwapIs
<1> HIDE DEF w
<1>2. n \in Nat /\ a \in Digit /\ b \in Digit /\ p - 1 \in 0 .. n /\ p \in 0 .. n /\ p + 1 \in 0 .. n
    BY LenProperties, ElementOfSeq
<1>3. PICK f : LuhnRuns(v, f)
    BY LuhnUnfolds
<1>4. PICK g : LuhnRuns(w, g)
    BY <1>1, LuhnUnfolds
<1>5. f[p - 1] = g[p - 1]
    <2>1. \A i \in 1 .. p - 1 : v[i] = w[i]
        BY <1>1, <1>2
    <2> QED
        BY <1>1, <1>2, <1>3, <1>4, <2>1, LuhnAgrees
<1>6. LuhnSum(v) - LuhnSum(w) = f[p + 1] - g[p + 1]
    <2>1. \A i \in (p + 1) + 1 .. Len(v) : v[i] = w[i]
        BY <1>1, <1>2
    <2> QED
        BY <1>1, <1>2, <1>3, <1>4, <2>1, LuhnDiffers
<1>7. /\ f[p] = f[p - 1] + LuhnWeight(n, p, a) /\ g[p] = g[p - 1] + LuhnWeight(n, p, b)
      /\ f[p + 1] = f[p] + LuhnWeight(n, p + 1, b) /\ g[p + 1] = g[p] + LuhnWeight(n, p + 1, a)
    <2>1. w[p] = b /\ w[p + 1] = a /\ (p + 1) - 1 = p
        BY <1>1, <1>2
    <2> QED
        BY <1>1, <1>3, <1>4, <2>1 DEF LuhnRuns
<1>8. f[p - 1] \in Nat /\ LuhnSum(v) \in Nat /\ LuhnSum(w) \in Nat
    <2>1. f \in [0 .. n -> Nat] /\ g \in [0 .. n -> Nat]
        BY <1>1, <1>3, <1>4 DEF LuhnRuns
    <2>2. LuhnSum(v) = f[n] /\ LuhnSum(w) = g[n] /\ n \in 0 .. n
        BY <1>1, <1>2, <1>3, <1>4 DEF LuhnRuns
    <2> QED
        BY <1>2, <2>1, <2>2
<1> HIDE DEF a, b, n
<1> DEFINE pa == LuhnWeight(n, p, a)
           pb == LuhnWeight(n, p, b)
           qa == LuhnWeight(n, p + 1, a)
           qb == LuhnWeight(n, p + 1, b)
<1>9. /\ pa \in 0 .. 9 /\ pb \in 0 .. 9 /\ qa \in 0 .. 9 /\ qb \in 0 .. 9
      /\ pa + qb # pb + qa /\ pa + qb - (pb + qa) \in -9 .. 9
    <2>1. ~(a = 0 /\ b = 9) /\ ~(a = 9 /\ b = 0) /\ a # b
        BY DEF a, b
    <2>2. (p - 1) % 2 = n % 2 <=> ((p + 1) - 1) % 2 # n % 2
        BY <1>2
    <2>3. CASE (p - 1) % 2 = n % 2
        <3>1. pa = Doubled(a) /\ pb = Doubled(b) /\ qa = a /\ qb = b
            BY <2>2, <2>3 DEF LuhnWeight
        <3> HIDE DEF pa, pb, qa, qb
        <3> QED
            BY <1>2, <2>1, <3>1 DEF Doubled, Digit
    <2>4. CASE (p - 1) % 2 # n % 2
        <3>1. pa = a /\ pb = b /\ qa = Doubled(a) /\ qb = Doubled(b)
            BY <2>2, <2>4 DEF LuhnWeight
        <3> HIDE DEF pa, pb, qa, qb
        <3> QED
            BY <1>2, <2>1, <3>1 DEF Doubled, Digit
    <2> QED
        BY <2>3, <2>4
<1> HIDE DEF pa, pb, qa, qb
<1>10. LuhnSum(w) # LuhnSum(v) /\ LuhnSum(w) - LuhnSum(v) \in -9 .. 9
    <2> DEFINE z == f[p - 1]
               sv == LuhnSum(v)
               sw == LuhnSum(w)
    <2>1. f[p + 1] = (z + pa) + qb /\ g[p + 1] = (z + pb) + qa
        BY <1>5, <1>7 DEF pa, pb, qa, qb
    <2>2. sv - sw = ((z + pa) + qb) - ((z + pb) + qa)
        BY <1>6, <2>1
    <2>3. z \in Nat /\ sv \in Nat /\ sw \in Nat
        BY <1>8
    <2> HIDE DEF z, sv, sw
    <2>4. sw # sv /\ sw - sv \in -9 .. 9
        BY <1>9, <2>2, <2>3
    <2> QED
        BY <2>4 DEF sv, sw
<1>11. LuhnSum(w) % 10 # LuhnSum(v) % 10
    BY <1>8, <1>10, CloseSums
<1> QED
    BY <1>11 DEF w

\* What two runs have in common they keep, and what differs stays different, if each
\* step does so.
LEMMA StaysSame ==
    ASSUME NEW p \in Nat, NEW f, NEW g, f[0] = g[0],
           \A i \in 1 .. p : f[i - 1] = g[i - 1] => f[i] = g[i]
    PROVE  f[p] = g[p]
<1> DEFINE P == {k \in Nat : k <= p => f[k] = g[k]}
<1>1. 0 \in P
    OBVIOUS
<1>2. ASSUME NEW k \in P
      PROVE  k + 1 \in P
    <2> SUFFICES ASSUME k + 1 <= p
                 PROVE  f[k + 1] = g[k + 1]
        OBVIOUS
    <2>1. k + 1 \in 1 .. p /\ (k + 1) - 1 = k /\ f[k] = g[k]
        BY <1>2
    <2> QED
        BY <2>1
<1>3. P = Nat
    <2>1. P \in SUBSET Nat
        OBVIOUS
    <2> HIDE DEF P
    <2> QED
        BY <1>1, <1>2, <2>1, Induction
<1> QED
    BY <1>3

LEMMA StaysDifferent ==
    ASSUME NEW n \in Nat, NEW p \in 0 .. n, NEW f, NEW g, f[p] # g[p],
           \A i \in p + 1 .. n : f[i - 1] # g[i - 1] => f[i] # g[i]
    PROVE  f[n] # g[n]
<1> DEFINE P == {k \in Nat : p + k <= n => f[p + k] # g[p + k]}
<1>1. 0 \in P
    OBVIOUS
<1>2. ASSUME NEW k \in P
      PROVE  k + 1 \in P
    <2> SUFFICES ASSUME p + (k + 1) <= n
                 PROVE  f[p + (k + 1)] # g[p + (k + 1)]
        OBVIOUS
    <2>1. p + (k + 1) \in p + 1 .. n /\ (p + (k + 1)) - 1 = p + k /\ f[p + k] # g[p + k]
        BY <1>2
    <2> QED
        BY <2>1
<1>3. P = Nat
    <2>1. P \in SUBSET Nat
        OBVIOUS
    <2> HIDE DEF P
    <2> QED
        BY <1>1, <1>2, <2>1, Induction
<1>4. n - p \in P /\ p + (n - p) = n
    <2>1. n - p \in Nat /\ p + (n - p) = n
        OBVIOUS
    <2> HIDE DEF P
    <2> QED
        BY <1>3, <2>1
<1> QED
    BY <1>4

-------------------------------------------------------------------------------
\* The tables of Verhoeff's checksum are the symmetries of a pentagon: five turns and five
\* reflections.
Turn(a, b) == VerhoeffD[a + 1][b + 1]
Wrapped(n) == IF n > 4 THEN n - 5 ELSE IF n < 0 THEN n + 5 ELSE n
Symmetry(a, b) ==
    IF a < 5 THEN IF b < 5 THEN Wrapped(a + b) ELSE 5 + Wrapped(a + b - 5)
    ELSE IF b < 5 THEN 5 + Wrapped(a - 5 - b) ELSE Wrapped(a - b)

LEMMA OneOfTen ==
    \A d \in Digit : \/ d = 0 \/ d = 1 \/ d = 2 \/ d = 3 \/ d = 4
                     \/ d = 5 \/ d = 6 \/ d = 7 \/ d = 8 \/ d = 9
BY DEF Digit

LEMMA TurnIs ==
    ASSUME NEW a \in Digit, NEW b \in Digit
    PROVE  Turn(a, b) = Symmetry(a, b)
<1>1. CASE a = 0
    <2>1. VerhoeffD[a + 1] = <<0, 1, 2, 3, 4, 5, 6, 7, 8, 9>>
        BY <1>1 DEF VerhoeffD
    <2> QED
        BY <1>1, <2>1, OneOfTen DEF Turn, Symmetry, Wrapped
<1>2. CASE a = 1
    <2>1. VerhoeffD[a + 1] = <<1, 2, 3, 4, 0, 6, 7, 8, 9, 5>>
        BY <1>2 DEF VerhoeffD
    <2> QED
        BY <1>2, <2>1, OneOfTen DEF Turn, Symmetry, Wrapped
<1>3. CASE a = 2
    <2>1. VerhoeffD[a + 1] = <<2, 3, 4, 0, 1, 7, 8, 9, 5, 6>>
        BY <1>3 DEF VerhoeffD
    <2> QED
        BY <1>3, <2>1, OneOfTen DEF Turn, Symmetry, Wrapped
<1>4. CASE a = 3
    <2>1. VerhoeffD[a + 1] = <<3, 4, 0, 1, 2, 8, 9, 5, 6, 7>>
        BY <1>4 DEF VerhoeffD
    <2> QED
        BY <1>4, <2>1, OneOfTen DEF Turn, Symmetry, Wrapped
<1>5. CASE a = 4
    <2>1. VerhoeffD[a + 1] = <<4, 0, 1, 2, 3, 9, 5, 6, 7, 8>>
        BY <1>5 DEF VerhoeffD
    <2> QED
        BY <1>5, <2>1, OneOfTen DEF Turn, Symmetry, Wrapped
<1>6. CASE a = 5
    <2>1. VerhoeffD[a + 1] = <<5, 9, 8, 7, 6, 0, 4, 3, 2, 1>>
        BY <1>6 DEF VerhoeffD
    <2> QED
        BY <1>6, <2>1, OneOfTen DEF Turn, Symmetry, Wrapped
<1>7. CASE a = 6
    <2>1. VerhoeffD[a + 1] = <<6, 5, 9, 8, 7, 1, 0, 4, 3, 2>>
        BY <1>7 DEF VerhoeffD
    <2> QED
        BY <1>7, <2>1, OneOfTen DEF Turn, Symmetry, Wrapped
<1>8. CASE a = 7
    <2>1. VerhoeffD[a + 1] = <<7, 6, 5, 9, 8, 2, 1, 0, 4, 3>>
        BY <1>8 DEF VerhoeffD
    <2> QED
        BY <1>8, <2>1, OneOfTen DEF Turn, Symmetry, Wrapped
<1>9. CASE a = 8
    <2>1. VerhoeffD[a + 1] = <<8, 7, 6, 5, 9, 3, 2, 1, 0, 4>>
        BY <1>9 DEF VerhoeffD
    <2> QED
        BY <1>9, <2>1, OneOfTen DEF Turn, Symmetry, Wrapped
<1>10. CASE a = 9
    <2>1. VerhoeffD[a + 1] = <<9, 8, 7, 6, 5, 4, 3, 2, 1, 0>>
        BY <1>10 DEF VerhoeffD
    <2> QED
        BY <1>10, <2>1, OneOfTen DEF Turn, Symmetry, Wrapped
<1> QED
    BY <1>1, <1>2, <1>3, <1>4, <1>5, <1>6, <1>7, <1>8, <1>9, <1>10, OneOfTen

LEMMA Turns ==
    ASSUME NEW a \in Digit, NEW b \in Digit, NEW c \in Digit
    PROVE  /\ Turn(a, b) \in Digit
           /\ Turn(a, b) = Turn(a, c) => b = c
           /\ Turn(a, c) = Turn(b, c) => a = b
           /\ Turn(Turn(a, b), c) = Turn(a, Turn(b, c))
<1>1. \A x, y \in Digit : Turn(x, y) = Symmetry(x, y)
    BY TurnIs
<1>2. \A x, y \in Digit : Symmetry(x, y) \in Digit
    BY DEF Symmetry, Wrapped, Digit
<1>3. Symmetry(a, b) = Symmetry(a, c) => b = c
    BY DEF Symmetry, Wrapped, Digit
<1>4. Symmetry(a, c) = Symmetry(b, c) => a = b
    BY DEF Symmetry, Wrapped, Digit
<1>5. Symmetry(Symmetry(a, b), c) = Symmetry(a, Symmetry(b, c))
    <2>1. CASE a < 5 /\ b < 5 /\ c < 5
        BY <2>1 DEF Symmetry, Wrapped, Digit
    <2>2. CASE a < 5 /\ b < 5 /\ c >= 5
        BY <2>2 DEF Symmetry, Wrapped, Digit
    <2>3. CASE a < 5 /\ b >= 5 /\ c < 5
        BY <2>3 DEF Symmetry, Wrapped, Digit
    <2>4. CASE a < 5 /\ b >= 5 /\ c >= 5
        BY <2>4 DEF Symmetry, Wrapped, Digit
    <2>5. CASE a >= 5 /\ b < 5 /\ c < 5
        BY <2>5 DEF Symmetry, Wrapped, Digit
    <2>6. CASE a >= 5 /\ b < 5 /\ c >= 5
        BY <2>6 DEF Symmetry, Wrapped, Digit
    <2>7. CASE a >= 5 /\ b >= 5 /\ c < 5
        BY <2>7 DEF Symmetry, Wrapped, Digit
    <2>8. CASE a >= 5 /\ b >= 5 /\ c >= 5
        BY <2>8 DEF Symmetry, Wrapped, Digit
    <2> QED
        BY <2>1, <2>2, <2>3, <2>4, <2>5, <2>6, <2>7, <2>8 DEF Digit
<1>6. Turn(a, b) \in Digit /\ Turn(b, c) \in Digit
    BY <1>1, <1>2
<1>7. Turn(Turn(a, b), c) = Symmetry(Symmetry(a, b), c)
    BY <1>1, <1>6
<1>8. Turn(a, Turn(b, c)) = Symmetry(a, Symmetry(b, c))
    BY <1>1, <1>6
<1> QED
    BY <1>1, <1>3, <1>4, <1>5, <1>6, <1>7, <1>8

LEMMA TurnsApart ==
    ASSUME NEW a \in Digit, NEW b \in Digit, a # b, NEW c \in Digit
    PROVE  Turn(a, c) # Turn(b, c)
BY Turns

\* The permutation of the digits.
Twist(d) == VerhoeffP[2][d + 1]

LEMMA TwistIs ==
    ASSUME NEW d \in Digit
    PROVE  Twist(d) = IF d = 0 THEN 1 ELSE IF d = 1 THEN 5 ELSE IF d = 2 THEN 7
                      ELSE IF d = 3 THEN 6 ELSE IF d = 4 THEN 2 ELSE IF d = 5 THEN 8
                      ELSE IF d = 6 THEN 3 ELSE IF d = 7 THEN 0 ELSE IF d = 8 THEN 9 ELSE 4
BY OneOfTen DEF Twist, VerhoeffP

LEMMA Twists ==
    ASSUME NEW a \in Digit, NEW b \in Digit
    PROVE  /\ Twist(a) \in Digit
           /\ Twist(a) = Twist(b) => a = b
           /\ Turn(a, Twist(b)) = Turn(b, Twist(a)) => a = b
<1>1. Twist(a) \in Digit /\ Twist(b) \in Digit /\ (Twist(a) = Twist(b) => a = b)
    BY TwistIs DEF Digit
<1>2. Symmetry(a, Twist(b)) = Symmetry(b, Twist(a)) => a = b
    <2>1. CASE a < 5 /\ b < 5
        BY <2>1, TwistIs DEF Symmetry, Wrapped, Digit
    <2>2. CASE a < 5 /\ b >= 5
        BY <2>2, TwistIs DEF Symmetry, Wrapped, Digit
    <2>3. CASE a >= 5 /\ b < 5
        BY <2>3, TwistIs DEF Symmetry, Wrapped, Digit
    <2>4. CASE a >= 5 /\ b >= 5
        BY <2>4, TwistIs DEF Symmetry, Wrapped, Digit
    <2> QED
        BY <2>1, <2>2, <2>3, <2>4 DEF Digit
<1> QED
    BY <1>1, <1>2, TurnIs

\* Each row of the permutations is the one before it permuted once more.
LEMMA Permutes ==
    ASSUME NEW i \in Nat, NEW d \in Digit
    PROVE  Permuted(i, d) \in Digit /\ Permuted(i + 1, d) = Twist(Permuted(i, d))
<1>1. CASE i % 8 = 0
    <2>1. (i + 1) % 8 = 1
        BY <1>1
    <2>2. Permuted(i, d) = <<0, 1, 2, 3, 4, 5, 6, 7, 8, 9>>[d + 1]
        BY <1>1 DEF Permuted, VerhoeffP
    <2>3. Permuted(i + 1, d) = <<1, 5, 7, 6, 2, 8, 3, 0, 9, 4>>[d + 1]
        BY <2>1 DEF Permuted, VerhoeffP
    <2> QED
        BY <2>2, <2>3, OneOfTen, TwistIs DEF Digit
<1>2. CASE i % 8 = 1
    <2>1. (i + 1) % 8 = 2
        BY <1>2
    <2>2. Permuted(i, d) = <<1, 5, 7, 6, 2, 8, 3, 0, 9, 4>>[d + 1]
        BY <1>2 DEF Permuted, VerhoeffP
    <2>3. Permuted(i + 1, d) = <<5, 8, 0, 3, 7, 9, 6, 1, 4, 2>>[d + 1]
        BY <2>1 DEF Permuted, VerhoeffP
    <2> QED
        BY <2>2, <2>3, OneOfTen, TwistIs DEF Digit
<1>3. CASE i % 8 = 2
    <2>1. (i + 1) % 8 = 3
        BY <1>3
    <2>2. Permuted(i, d) = <<5, 8, 0, 3, 7, 9, 6, 1, 4, 2>>[d + 1]
        BY <1>3 DEF Permuted, VerhoeffP
    <2>3. Permuted(i + 1, d) = <<8, 9, 1, 6, 0, 4, 3, 5, 2, 7>>[d + 1]
        BY <2>1 DEF Permuted, VerhoeffP
    <2> QED
        BY <2>2, <2>3, OneOfTen, TwistIs DEF Digit
<1>4. CASE i % 8 = 3
    <2>1. (i + 1) % 8 = 4
        BY <1>4
    <2>2. Permuted(i, d) = <<8, 9, 1, 6, 0, 4, 3, 5, 2, 7>>[d + 1]
        BY <1>4 DEF Permuted, VerhoeffP
    <2>3. Permuted(i + 1, d) = <<9, 4, 5, 3, 1, 2, 6, 8, 7, 0>>[d + 1]
        BY <2>1 DEF Permuted, VerhoeffP
    <2> QED
        BY <2>2, <2>3, OneOfTen, TwistIs DEF Digit
<1>5. CASE i % 8 = 4
    <2>1. (i + 1) % 8 = 5
        BY <1>5
    <2>2. Permuted(i, d) = <<9, 4, 5, 3, 1, 2, 6, 8, 7, 0>>[d + 1]
        BY <1>5 DEF Permuted, VerhoeffP
    <2>3. Permuted(i + 1, d) = <<4, 2, 8, 6, 5, 7, 3, 9, 0, 1>>[d + 1]
        BY <2>1 DEF Permuted, VerhoeffP
    <2> QED
        BY <2>2, <2>3, OneOfTen, TwistIs DEF Digit
<1>6. CASE i % 8 = 5
    <2>1. (i + 1) % 8 = 6
        BY <1>6
    <2>2. Permuted(i, d) = <<4, 2, 8, 6, 5, 7, 3, 9, 0, 1>>[d + 1]
        BY <1>6 DEF Permuted, VerhoeffP
    <2>3. Permuted(i + 1, d) = <<2, 7, 9, 3, 8, 0, 6, 4, 1, 5>>[d + 1]
        BY <2>1 DEF Permuted, VerhoeffP
    <2> QED
        BY <2>2, <2>3, OneOfTen, TwistIs DEF Digit
<1>7. CASE i % 8 = 6
    <2>1. (i + 1) % 8 = 7
        BY <1>7
    <2>2. Permuted(i, d) = <<2, 7, 9, 3, 8, 0, 6, 4, 1, 5>>[d + 1]
        BY <1>7 DEF Permuted, VerhoeffP
    <2>3. Permuted(i + 1, d) = <<7, 0, 4, 6, 9, 1, 3, 2, 5, 8>>[d + 1]
        BY <2>1 DEF Permuted, VerhoeffP
    <2> QED
        BY <2>2, <2>3, OneOfTen, TwistIs DEF Digit
<1>8. CASE i % 8 = 7
    <2>1. (i + 1) % 8 = 0
        BY <1>8
    <2>2. Permuted(i, d) = <<7, 0, 4, 6, 9, 1, 3, 2, 5, 8>>[d + 1]
        BY <1>8 DEF Permuted, VerhoeffP
    <2>3. Permuted(i + 1, d) = <<0, 1, 2, 3, 4, 5, 6, 7, 8, 9>>[d + 1]
        BY <2>1 DEF Permuted, VerhoeffP
    <2> QED
        BY <2>2, <2>3, OneOfTen, TwistIs DEF Digit
<1>9. \/ i % 8 = 0 \/ i % 8 = 1 \/ i % 8 = 2 \/ i % 8 = 3
      \/ i % 8 = 4 \/ i % 8 = 5 \/ i % 8 = 6 \/ i % 8 = 7
    OBVIOUS
<1> QED
    BY <1>1, <1>2, <1>3, <1>4, <1>5, <1>6, <1>7, <1>8, <1>9

LEMMA PermutesApart ==
    ASSUME NEW i \in Nat
    PROVE  \A a, b \in Digit : Permuted(i, a) = Permuted(i, b) => a = b
<1> DEFINE P == {k \in Nat : \A a, b \in Digit : Permuted(k, a) = Permuted(k, b) => a = b}
<1>1. 0 \in P
    <2>1. ASSUME NEW d \in Digit
          PROVE  Permuted(0, d) = d
        <3>1. Permuted(0, d) = <<0, 1, 2, 3, 4, 5, 6, 7, 8, 9>>[d + 1]
            BY DEF Permuted, VerhoeffP
        <3> QED
            BY <3>1, OneOfTen
    <2> QED
        BY <2>1
<1>2. ASSUME NEW k \in P
      PROVE  k + 1 \in P
    BY <1>2, Permutes, Twists
<1>3. P = Nat
    <2>1. P \in SUBSET Nat
        OBVIOUS
    <2> HIDE DEF P
    <2> QED
        BY <1>1, <1>2, <2>1, Induction
<1> QED
    BY <1>3

\* The Verhoeff sum of some digits turns by each, permuted, from the last to the first.
VerhoeffRuns(v, f) ==
    /\ f \in [0 .. Len(v) -> Digit]
    /\ f[0] = 0 /\ f[Len(v)] = VerhoeffSum(v)
    /\ \A i \in 1 .. Len(v) : f[i] = Turn(f[i - 1], Permuted(i - 1, v[Len(v) + 1 - i]))

LEMMA VerhoeffUnfolds ==
    ASSUME NEW v \in Seq(Digit)
    PROVE  \E f : VerhoeffRuns(v, f)
<1> DEFINE n == Len(v)
           Body(f, i) ==
             IF i = 0 THEN 0
             ELSE VerhoeffD[f[i - 1] + 1][Permuted(i - 1, v[n + 1 - i]) + 1]
           Def(f) == f = [i \in 0 .. n |-> Body(f, i)]
           sum == CHOOSE f : Def(f)
           step == [q \in (1 .. n) \X Digit |-> Turn(q[2], Permuted(q[1] - 1, v[n + 1 - q[1]]))]
<1>1. n \in Nat /\ 0 \in Digit
    BY LenProperties DEF Digit
<1>2. VerhoeffSum(v) = sum[n]
    BY DEF VerhoeffSum
<1>3. \A i \in 1 .. n : Permuted(i - 1, v[n + 1 - i]) \in Digit
    <2>1. \A i \in 1 .. n : n + 1 - i \in 1 .. n /\ i - 1 \in Nat
        BY <1>1
    <2>2. \A i \in 1 .. n : v[i] \in Digit
        BY ElementOfSeq
    <2> QED
        BY <2>1, <2>2, Permutes
<1> HIDE DEF n
<1>4. step \in [(1 .. n) \X Digit -> Digit]
    BY <1>3, Turns
<1>5. \E f : Def(f)
    <2> HIDE DEF step
    <2>1. PICK f \in [0 .. n -> Digit] : Follows(f, n, 0, step)
        BY <1>1, <1>4, Recursion
    <2>2. ASSUME NEW i \in 0 .. n
          PROVE  f[i] = Body(f, i)
        <3>1. CASE i = 0
            BY <2>1, <3>1 DEF Follows
        <3>2. CASE i # 0
            <4>1. i \in 1 .. n /\ i - 1 \in 0 .. n /\ f[i - 1] \in Digit
                BY <1>1, <2>1, <3>2
            <4>2. f[i] = step[<<i, f[i - 1]>>]
                BY <2>1, <4>1 DEF Follows
            <4>3. f[i] = Turn(f[i - 1], Permuted(i - 1, v[n + 1 - i]))
                BY <4>1, <4>2 DEF step
            <4> QED
                BY <3>2, <4>3 DEF Turn
        <3> QED
            BY <3>1, <3>2
    <2>3. DOMAIN f = 0 .. n /\ f = [i \in DOMAIN f |-> f[i]]
        BY <2>1
    <2> HIDE DEF Body
    <2> QED
        BY <2>2, <2>3
<1>6. Def(sum)
    BY <1>5
<1> HIDE DEF sum, step
<1>7. sum[0] = 0
    BY <1>1, <1>6
<1>8. ASSUME NEW i \in 1 .. n
      PROVE  sum[i] = Turn(sum[i - 1], Permuted(i - 1, v[n + 1 - i]))
    <2>1. i \in 0 .. n /\ i # 0
        BY <1>1
    <2> QED
        BY <1>6, <2>1 DEF Turn
<1>9. \A i \in 0 .. n : sum[i] \in Digit
    <2> DEFINE P == {i \in Nat : i <= n => sum[i] \in Digit}
    <2>1. 0 \in P
        BY <1>1, <1>7
    <2>2. ASSUME NEW i \in P
          PROVE  i + 1 \in P
        <3> SUFFICES ASSUME i + 1 <= n
                     PROVE  sum[i + 1] \in Digit
            OBVIOUS
        <3>1. i + 1 \in 1 .. n /\ sum[i] \in Digit /\ (i + 1) - 1 = i
            BY <1>1, <2>2
        <3>2. sum[i + 1] = Turn(sum[i], Permuted(i, v[n + 1 - (i + 1)]))
            BY <1>8, <3>1
        <3>3. Permuted(i, v[n + 1 - (i + 1)]) \in Digit
            BY <1>3, <3>1
        <3> QED
            BY <3>1, <3>2, <3>3, Turns
    <2>3. P \in SUBSET Nat
        OBVIOUS
    <2> HIDE DEF P
    <2>4. P = Nat
        BY <2>1, <2>2, <2>3, Induction
    <2> QED
        BY <1>1, <2>4 DEF P
<1>10. sum \in [0 .. n -> Digit]
    <2>1. DOMAIN sum = 0 .. n
        BY <1>6
    <2>2. sum = [i \in 0 .. n |-> sum[i]]
        BY <1>6, <2>1
    <2> QED
        BY <1>9, <2>2
<1> QED
    BY <1>2, <1>7, <1>8, <1>10 DEF VerhoeffRuns, n

\* The Verhoeff sum notices a wrong digit.
LEMMA VerhoeffPut ==
    ASSUME NEW v \in Seq(Digit), NEW p \in 1 .. Len(v), NEW d \in Digit, d # v[p]
    PROVE  VerhoeffSum(Put(v, p, d)) # VerhoeffSum(v)
<1> DEFINE w == Put(v, p, d)
           n == Len(v)
           q == n + 1 - p
<1>1. /\ w \in Seq(Digit) /\ Len(w) = n
      /\ \A i \in 1 .. n : w[i] = IF i = p THEN d ELSE v[i]
    BY DigitPut
<1> HIDE DEF w
<1>2. n \in Nat /\ \A i \in 1 .. n : v[i] \in Digit /\ w[i] \in Digit
    BY <1>1, LenProperties, ElementOfSeq
<1>3. PICK f : VerhoeffRuns(v, f)
    BY VerhoeffUnfolds
<1>4. PICK g : VerhoeffRuns(w, g)
    BY <1>1, VerhoeffUnfolds
<1> DEFINE At(x, i) == Permuted(i - 1, x[n + 1 - i])
<1>5. ASSUME NEW i \in 1 .. n
      PROVE  /\ n + 1 - i \in 1 .. n /\ i - 1 \in Nat /\ (n + 1 - i = p <=> i = q)
             /\ f[i] = Turn(f[i - 1], At(v, i)) /\ g[i] = Turn(g[i - 1], At(w, i))
             /\ f[i - 1] \in Digit /\ g[i - 1] \in Digit
             /\ At(v, i) \in Digit /\ At(w, i) \in Digit
    <2>1. n + 1 - i \in 1 .. n /\ i - 1 \in Nat /\ (n + 1 - i = p <=> i = q) /\ i - 1 \in 0 .. n
        BY <1>2
    <2>2. f[i] = Turn(f[i - 1], At(v, i)) /\ g[i] = Turn(g[i - 1], At(w, i))
        BY <1>1, <1>3, <1>4 DEF VerhoeffRuns
    <2>3. f[i - 1] \in Digit /\ g[i - 1] \in Digit
        BY <1>1, <1>3, <1>4, <2>1 DEF VerhoeffRuns
    <2>4. At(v, i) \in Digit /\ At(w, i) \in Digit
        BY <1>2, <2>1, Permutes
    <2> QED
        BY <2>1, <2>2, <2>3, <2>4
<1>6. q \in 1 .. n /\ n + 1 - q = p /\ q - 1 \in Nat /\ q \in 0 .. n
    BY <1>2
<1> HIDE DEF n, q
<1>7. ASSUME NEW i \in 1 .. n, i # q
      PROVE  At(v, i) = At(w, i)
    BY <1>1, <1>5, <1>7
<1>8. At(v, q) # At(w, q)
    <2>1. v[p] \in Digit /\ w[p] = d
        BY <1>1, <1>2 DEF n
    <2> QED
        BY <1>6, <2>1, PermutesApart
<1> HIDE DEF At
<1>9. f[q - 1] = g[q - 1]
    <2>1. f[0] = g[0]
        BY <1>3, <1>4 DEF VerhoeffRuns
    <2>2. \A i \in 1 .. q - 1 : i \in 1 .. n /\ i # q
        BY <1>2, <1>6
    <2>3. \A i \in 1 .. q - 1 : f[i - 1] = g[i - 1] => f[i] = g[i]
        BY <1>5, <1>7, <2>2
    <2> QED
        BY <1>6, <2>1, <2>3, StaysSame
<1>10. f[q] # g[q]
    <2>1. /\ f[q] = Turn(f[q - 1], At(v, q)) /\ g[q] = Turn(f[q - 1], At(w, q))
          /\ f[q - 1] \in Digit /\ At(v, q) \in Digit /\ At(w, q) \in Digit
        BY <1>5, <1>6, <1>9
    <2> QED
        BY <1>8, <2>1, Turns
<1>11. f[n] # g[n]
    <2>1. \A i \in q + 1 .. n : i \in 1 .. n /\ i # q
        BY <1>2, <1>6
    <2>2. ASSUME NEW i \in q + 1 .. n, f[i - 1] # g[i - 1]
          PROVE  f[i] # g[i]
        <3>1. /\ f[i] = Turn(f[i - 1], At(v, i)) /\ g[i] = Turn(g[i - 1], At(v, i))
              /\ f[i - 1] \in Digit /\ g[i - 1] \in Digit /\ At(v, i) \in Digit
            BY <1>5, <1>7, <2>1
        <3> QED
            BY <2>2, <3>1, TurnsApart
    <2> QED
        BY <1>2, <1>6, <1>10, <2>2, StaysDifferent
<1> QED
    BY <1>1, <1>3, <1>4, <1>11 DEF VerhoeffRuns, n, w

\* The Verhoeff sum notices two neighbours that changed places.
LEMMA VerhoeffSwap ==
    ASSUME NEW v \in Seq(Digit), NEW p \in 1 .. Len(v), p + 1 \in 1 .. Len(v), v[p] # v[p + 1]
    PROVE  VerhoeffSum(Swap(v, p)) # VerhoeffSum(v)
<1> DEFINE w == Swap(v, p)
           n == Len(v)
           q == n - p
<1>1. /\ w \in Seq(Digit) /\ Len(w) = n
      /\ \A i \in 1 .. n : w[i] = IF i = p THEN v[p + 1] ELSE IF i = p + 1 THEN v[p] ELSE v[i]
    BY SwapIs
<1> HIDE DEF w
<1>2. n \in Nat /\ \A i \in 1 .. n : v[i] \in Digit /\ w[i] \in Digit
    BY <1>1, LenProperties, ElementOfSeq
<1>3. PICK f : VerhoeffRuns(v, f)
    BY VerhoeffUnfolds
<1>4. PICK g : VerhoeffRuns(w, g)
    BY <1>1, VerhoeffUnfolds
<1> DEFINE At(x, i) == Permuted(i - 1, x[n + 1 - i])
<1>5. ASSUME NEW i \in 1 .. n
      PROVE  /\ n + 1 - i \in 1 .. n /\ i - 1 \in Nat
             /\ (n + 1 - i = p + 1 <=> i = q) /\ (n + 1 - i = p <=> i = q + 1)
             /\ f[i] = Turn(f[i - 1], At(v, i)) /\ g[i] = Turn(g[i - 1], At(w, i))
             /\ f[i - 1] \in Digit /\ g[i - 1] \in Digit
             /\ At(v, i) \in Digit /\ At(w, i) \in Digit
    <2>1. /\ n + 1 - i \in 1 .. n /\ i - 1 \in Nat /\ i - 1 \in 0 .. n
          /\ (n + 1 - i = p + 1 <=> i = q) /\ (n + 1 - i = p <=> i = q + 1)
        BY <1>2
    <2>2. f[i] = Turn(f[i - 1], At(v, i)) /\ g[i] = Turn(g[i - 1], At(w, i))
        BY <1>1, <1>3, <1>4 DEF VerhoeffRuns
    <2>3. f[i - 1] \in Digit /\ g[i - 1] \in Digit
        BY <1>1, <1>3, <1>4, <2>1 DEF VerhoeffRuns
    <2>4. At(v, i) \in Digit /\ At(w, i) \in Digit
        BY <1>2, <2>1, Permutes
    <2> QED
        BY <2>1, <2>2, <2>3, <2>4
<1>6. /\ q \in 1 .. n /\ q + 1 \in 1 .. n /\ n + 1 - q = p + 1 /\ n + 1 - (q + 1) = p
      /\ q - 1 \in Nat /\ q + 1 \in 0 .. n /\ (q + 1) - 1 = q /\ (q - 1) + 1 = q
    BY <1>2, SMTT(30)
<1> HIDE DEF n, q
<1>7. ASSUME NEW i \in 1 .. n, i # q, i # q + 1
      PROVE  At(v, i) = At(w, i)
    BY <1>1, <1>5, <1>7
<1>8. f[q - 1] = g[q - 1]
    <2>1. f[0] = g[0]
        BY <1>3, <1>4 DEF VerhoeffRuns
    <2>2. \A i \in 1 .. q - 1 : i \in 1 .. n /\ i # q /\ i # q + 1
        <3>1. n \in Nat /\ q \in 1 .. n
            BY <1>2, <1>6
        <3> QED
            BY <3>1
    <2>3. \A i \in 1 .. q - 1 : f[i - 1] = g[i - 1] => f[i] = g[i]
        BY <1>5, <1>7, <2>2
    <2> QED
        BY <1>6, <2>1, <2>3, StaysSame
<1>9. f[q + 1] # g[q + 1]
    <2> DEFINE s == f[q - 1]
               a == Permuted(q - 1, v[p + 1])
               b == Permuted(q - 1, v[p])
    <2>1. /\ v[p] \in Digit /\ v[p + 1] \in Digit /\ w[p] = v[p + 1] /\ w[p + 1] = v[p]
        BY <1>1, <1>2 DEF n
    <2>2. a \in Digit /\ b \in Digit /\ a # b /\ s \in Digit
        <3>1. s \in Digit
            BY <1>5, <1>6
        <3> QED
            BY <1>6, <2>1, <3>1, Permutes, PermutesApart
    <2>3. Permuted(q, v[p]) = Twist(b) /\ Permuted(q, v[p + 1]) = Twist(a)
        BY <1>6, <2>1, Permutes
    <2>4. At(v, q) = a /\ At(w, q) = b /\ At(v, q + 1) = Twist(b) /\ At(w, q + 1) = Twist(a)
        BY <1>6, <2>1, <2>3
    <2> HIDE DEF At
    <2>5. f[q] = Turn(s, a) /\ g[q] = Turn(s, b)
        BY <1>5, <1>6, <1>8, <2>4
    <2>6. f[q + 1] = Turn(Turn(s, a), Twist(b)) /\ g[q + 1] = Turn(Turn(s, b), Twist(a))
        <3>1. f[q + 1] = Turn(f[q], At(v, q + 1)) /\ g[q + 1] = Turn(g[q], At(w, q + 1))
            BY <1>5, <1>6
        <3> QED
            BY <2>4, <2>5, <3>1
    <2> HIDE DEF s, a, b
    <2>7. Twist(a) \in Digit /\ Twist(b) \in Digit /\ Turn(a, Twist(b)) # Turn(b, Twist(a))
        BY <2>2, Twists
    <2>8. /\ Turn(Turn(s, a), Twist(b)) = Turn(s, Turn(a, Twist(b)))
          /\ Turn(Turn(s, b), Twist(a)) = Turn(s, Turn(b, Twist(a)))
          /\ Turn(a, Twist(b)) \in Digit /\ Turn(b, Twist(a)) \in Digit
        BY <2>2, <2>7, Turns
    <2>9. Turn(s, Turn(a, Twist(b))) # Turn(s, Turn(b, Twist(a)))
        BY <2>2, <2>7, <2>8, Turns
    <2> QED
        BY <2>6, <2>8, <2>9
<1> HIDE DEF At
<1>10. f[n] # g[n]
    <2>1. \A i \in (q + 1) + 1 .. n : i \in 1 .. n /\ i # q /\ i # q + 1
        BY <1>2, <1>6
    <2>2. ASSUME NEW i \in (q + 1) + 1 .. n, f[i - 1] # g[i - 1]
          PROVE  f[i] # g[i]
        <3>1. /\ f[i] = Turn(f[i - 1], At(v, i)) /\ g[i] = Turn(g[i - 1], At(v, i))
              /\ f[i - 1] \in Digit /\ g[i - 1] \in Digit /\ At(v, i) \in Digit
            BY <1>5, <1>7, <2>1
        <3> QED
            BY <2>2, <3>1, TurnsApart
    <2> QED
        BY <1>2, <1>6, <1>9, <2>2, StaysDifferent
<1> QED
    BY <1>1, <1>3, <1>4, <1>10 DEF VerhoeffRuns, n, w

-------------------------------------------------------------------------------
\* The remainder after one more character, a digit or a letter that is two digits.
Character == 0 .. 35
Remainder == 0 .. 96
Carried(r, c) == (r * (IF c > 9 THEN 100 ELSE 10) + c) % 97

LEMMA Carries ==
    ASSUME NEW r \in Remainder, NEW s \in Remainder, NEW c \in Character, NEW d \in Character
    PROVE  /\ Carried(r, c) \in Remainder
           /\ Carried(r, c) = Carried(s, c) => r = s
           /\ Carried(r, c) = Carried(r, d) /\ (c > 9 <=> d > 9) => c = d
<1>1. CASE c > 9
    <2>1. (r * 100 + c) % 97 = (s * 100 + c) % 97 => r = s
        BY DEF Remainder, Character
    <2>2. (r * 100 + c) % 97 = (r * 100 + d) % 97 => c = d
        BY DEF Remainder, Character
    <2>3. (r * 100 + c) % 97 \in 0 .. 96
        BY DEF Remainder, Character
    <2> QED
        BY <1>1, <2>1, <2>2, <2>3 DEF Carried, Remainder
<1>2. CASE ~(c > 9)
    <2>1. (r * 10 + c) % 97 = (s * 10 + c) % 97 => r = s
        BY DEF Remainder, Character
    <2>2. (r * 10 + c) % 97 = (r * 10 + d) % 97 => c = d
        BY DEF Remainder, Character
    <2>3. (r * 10 + c) % 97 \in 0 .. 96
        BY DEF Remainder, Character
    <2> QED
        BY <1>2, <2>1, <2>2, <2>3 DEF Carried, Remainder
<1> QED
    BY <1>1, <1>2

\* The remainder of some characters is carried from one to the next.
RemainderRuns(v, f) ==
    /\ f \in [0 .. Len(v) -> Remainder]
    /\ f[0] = 0 /\ f[Len(v)] = Mod97(v)
    /\ \A i \in 1 .. Len(v) : f[i] = Carried(f[i - 1], v[i])

LEMMA RemainderUnfolds ==
    ASSUME NEW v \in Seq(Character)
    PROVE  \E f : RemainderRuns(v, f)
<1> DEFINE n == Len(v)
           Body(f, i) ==
             IF i = 0 THEN 0
             ELSE (f[i - 1] * (IF v[i] > 9 THEN 100 ELSE 10) + v[i]) % 97
           Def(f) == f = [i \in 0 .. n |-> Body(f, i)]
           rem == CHOOSE f : Def(f)
           step == [q \in (1 .. n) \X Remainder |-> Carried(q[2], v[q[1]])]
<1>1. n \in Nat /\ 0 \in Remainder /\ \A i \in 1 .. n : v[i] \in Character
    BY LenProperties, ElementOfSeq DEF Remainder
<1>2. Mod97(v) = rem[n]
    BY DEF Mod97
<1> HIDE DEF n
<1>3. step \in [(1 .. n) \X Remainder -> Remainder]
    BY <1>1, Carries
<1>4. \E f : Def(f)
    <2> HIDE DEF step
    <2>1. PICK f \in [0 .. n -> Remainder] : Follows(f, n, 0, step)
        BY <1>1, <1>3, Recursion
    <2>2. ASSUME NEW i \in 0 .. n
          PROVE  f[i] = Body(f, i)
        <3>1. CASE i = 0
            BY <2>1, <3>1 DEF Follows
        <3>2. CASE i # 0
            <4>1. i \in 1 .. n /\ i - 1 \in 0 .. n /\ f[i - 1] \in Remainder
                BY <1>1, <2>1, <3>2
            <4>2. f[i] = step[<<i, f[i - 1]>>]
                BY <2>1, <4>1 DEF Follows
            <4>3. f[i] = Carried(f[i - 1], v[i])
                BY <4>1, <4>2 DEF step
            <4> QED
                BY <3>2, <4>3 DEF Carried
        <3> QED
            BY <3>1, <3>2
    <2>3. DOMAIN f = 0 .. n /\ f = [i \in DOMAIN f |-> f[i]]
        BY <2>1
    <2> HIDE DEF Body
    <2> QED
        BY <2>2, <2>3
<1>5. Def(rem)
    BY <1>4
<1> HIDE DEF rem, step
<1>6. rem[0] = 0
    BY <1>1, <1>5
<1>7. ASSUME NEW i \in 1 .. n
      PROVE  rem[i] = Carried(rem[i - 1], v[i])
    <2>1. i \in 0 .. n /\ i # 0
        BY <1>1
    <2> QED
        BY <1>5, <2>1 DEF Carried
<1>8. \A i \in 0 .. n : rem[i] \in Remainder
    <2> DEFINE P == {i \in Nat : i <= n => rem[i] \in Remainder}
    <2>1. 0 \in P
        BY <1>1, <1>6
    <2>2. ASSUME NEW i \in P
          PROVE  i + 1 \in P
        <3> SUFFICES ASSUME i + 1 <= n
                     PROVE  rem[i + 1] \in Remainder
            OBVIOUS
        <3>1. i + 1 \in 1 .. n /\ rem[i] \in Remainder /\ (i + 1) - 1 = i
            BY <1>1, <2>2
        <3>2. rem[i + 1] = Carried(rem[i], v[i + 1])
            BY <1>7, <3>1
        <3> QED
            BY <1>1, <3>1, <3>2, Carries
    <2>3. P \in SUBSET Nat
        OBVIOUS
    <2> HIDE DEF P
    <2>4. P = Nat
        BY <2>1, <2>2, <2>3, Induction
    <2> QED
        BY <1>1, <2>4 DEF P
<1>9. rem \in [0 .. n -> Remainder]
    <2>1. DOMAIN rem = 0 .. n
        BY <1>5
    <2>2. rem = [i \in 0 .. n |-> rem[i]]
        BY <1>5, <2>1
    <2> QED
        BY <1>8, <2>2
<1> QED
    BY <1>2, <1>6, <1>7, <1>9 DEF RemainderRuns, n

\* The remainder notices a wrong character, if it is a digit or a letter as before.
LEMMA RemainderPut ==
    ASSUME NEW v \in Seq(Character), NEW p \in 1 .. Len(v), NEW d \in Character,
           d # v[p], d > 9 <=> v[p] > 9
    PROVE  Mod97(Put(v, p, d)) # Mod97(v)
<1> DEFINE w == Put(v, p, d)
           n == Len(v)
<1>1. /\ w \in Seq(Character) /\ Len(w) = n
      /\ \A i \in 1 .. n : w[i] = IF i = p THEN d ELSE v[i]
    BY PutIs
<1> HIDE DEF w
<1>2. n \in Nat /\ \A i \in 1 .. n : v[i] \in Character
    BY LenProperties, ElementOfSeq
<1>3. PICK f : RemainderRuns(v, f)
    BY RemainderUnfolds
<1>4. PICK g : RemainderRuns(w, g)
    BY <1>1, RemainderUnfolds
<1>5. ASSUME NEW i \in 1 .. n
      PROVE  /\ f[i] = Carried(f[i - 1], v[i]) /\ g[i] = Carried(g[i - 1], w[i])
             /\ f[i - 1] \in Remainder /\ g[i - 1] \in Remainder /\ v[i] \in Character
             /\ i # p => w[i] = v[i]
    <2>1. i - 1 \in 0 .. n
        BY <1>2
    <2>2. f[i - 1] \in Remainder /\ g[i - 1] \in Remainder
        BY <1>1, <1>3, <1>4, <2>1 DEF RemainderRuns
    <2> QED
        BY <1>1, <1>2, <1>3, <1>4, <2>2 DEF RemainderRuns
<1>6. f[p - 1] = g[p - 1]
    <2>1. f[0] = g[0] /\ p - 1 \in Nat
        BY <1>3, <1>4 DEF RemainderRuns
    <2>2. \A i \in 1 .. p - 1 : i \in 1 .. n /\ i # p
        BY <1>2
    <2>3. \A i \in 1 .. p - 1 : f[i - 1] = g[i - 1] => f[i] = g[i]
        BY <1>5, <2>2
    <2> QED
        BY <2>1, <2>3, StaysSame
<1>7. f[p] # g[p]
    <2>1. f[p] = Carried(f[p - 1], v[p]) /\ g[p] = Carried(f[p - 1], d)
        BY <1>1, <1>5, <1>6
    <2>2. f[p - 1] \in Remainder /\ v[p] \in Character
        BY <1>5
    <2> QED
        BY <2>1, <2>2, Carries
<1>8. f[n] # g[n]
    <2>1. \A i \in p + 1 .. n : i \in 1 .. n /\ i # p
        BY <1>2
    <2>2. ASSUME NEW i \in p + 1 .. n, f[i - 1] # g[i - 1]
          PROVE  f[i] # g[i]
        <3>1. /\ f[i] = Carried(f[i - 1], v[i]) /\ g[i] = Carried(g[i - 1], v[i])
              /\ f[i - 1] \in Remainder /\ g[i - 1] \in Remainder /\ v[i] \in Character
            BY <1>5, <2>1
        <3> QED
            BY <2>2, <3>1, Carries
    <2>3. p \in 0 .. n
        BY <1>2
    <2> QED
        BY <1>2, <1>7, <2>2, <2>3, StaysDifferent
<1> QED
    BY <1>1, <1>3, <1>4, <1>8 DEF RemainderRuns, w, n

-------------------------------------------------------------------------------
\* One wrong digit of an Aadhaar number or of a card, whatever their length, changes the sum
\* that is to be nought (aadhaar_valid, luhn_valid).
THEOREM WrongDigitsCaught ==
    ASSUME NEW v \in Seq(Digit), NEW p \in 1 .. Len(v), NEW d \in Digit \ {v[p]}
    PROVE  /\ VerhoeffSum(Put(v, p, d)) # VerhoeffSum(v)
           /\ LuhnSum(Put(v, p, d)) % 10 # LuhnSum(v) % 10
           /\ AadhaarValid(v) => ~AadhaarValid(Put(v, p, d))
           /\ LuhnValid(v) => ~LuhnValid(Put(v, p, d))
<1>1. VerhoeffSum(Put(v, p, d)) # VerhoeffSum(v)
    BY VerhoeffPut
<1>2. LuhnSum(Put(v, p, d)) % 10 # LuhnSum(v) % 10
    BY LuhnPut
<1> QED
    BY <1>1, <1>2 DEF AadhaarValid, LuhnValid

\* Two neighbours that changed places do so, too, but for the 0 and 9 of a card.
THEOREM SwappedDigitsCaught ==
    ASSUME NEW v \in Seq(Digit), NEW p \in 1 .. Len(v), p + 1 \in 1 .. Len(v), v[p] # v[p + 1]
    PROVE  /\ VerhoeffSum(Swap(v, p)) # VerhoeffSum(v)
           /\ {v[p], v[p + 1]} # {0, 9} => LuhnSum(Swap(v, p)) % 10 # LuhnSum(v) % 10
BY VerhoeffSwap, LuhnSwap

\* An account number with one wrong digit, or one wrong letter, is no IBAN (iban_valid).
THEOREM WrongCharactersCaught ==
    ASSUME NEW v \in Seq(Character), NEW p \in 1 .. Len(v), NEW d \in Character \ {v[p]},
           d > 9 <=> v[p] > 9, IbanValid(v)
    PROVE  ~IbanValid(Put(v, p, d))
<1> DEFINE n == Len(v)
           w == Put(v, p, d)
           r == IF p > 4 THEN p - 4 ELSE n - 4 + p
<1>1. /\ w \in Seq(Character) /\ Len(w) = n
      /\ \A i \in 1 .. n : w[i] = IF i = p THEN d ELSE v[i]
    BY PutIs
<1>2. n \in 15 .. 34 /\ Mod97(Rearranged(v)) = 1 /\ Len(v) = n /\ p \in 1 .. n
    BY DEF IbanValid
<1> HIDE DEF n, w
<1>3. r \in 1 .. n
    BY <1>2
<1>4. ASSUME NEW x \in Seq(Character), Len(x) = n
      PROVE  /\ Rearranged(x) \in Seq(Character) /\ Len(Rearranged(x)) = n
             /\ \A i \in 1 .. n : Rearranged(x)[i] = IF i <= n - 4 THEN x[i + 4] ELSE x[i - (n - 4)]
    <2> DEFINE a == SubSeq(x, 5, n)
               b == SubSeq(x, 1, 4)
    <2>1. /\ a \in Seq(Character) /\ Len(a) = n - 4
          /\ \A i \in 1 .. n - 4 : a[i] = x[i + 4]
        BY <1>2, <1>4, SubSeqProperties
    <2>2. /\ b \in Seq(Character) /\ Len(b) = 4
          /\ \A i \in 1 .. 4 : b[i] = x[i]
        BY <1>2, <1>4, SubSeqProperties
    <2>3. Rearranged(x) = a \o b
        BY <1>4 DEF Rearranged
    <2> HIDE DEF a, b
    <2>4. /\ a \o b \in Seq(Character) /\ Len(a \o b) = n
          /\ \A i \in 1 .. n : (a \o b)[i] = IF i <= n - 4 THEN a[i] ELSE b[i - (n - 4)]
        <3>1. Len(a) + Len(b) = n
            BY <1>2, <2>1, <2>2
        <3>2. /\ a \o b \in Seq(Character) /\ Len(a \o b) = Len(a) + Len(b)
              /\ \A i \in 1 .. Len(a) + Len(b) :
                    (a \o b)[i] = IF i <= Len(a) THEN a[i] ELSE b[i - Len(a)]
            BY <2>1, <2>2, ConcatProperties
        <3> QED
            BY <2>1, <3>1, <3>2
    <2>5. \A i \in 1 .. n : IF i <= n - 4 THEN i \in 1 .. n - 4 ELSE i - (n - 4) \in 1 .. 4
        BY <1>2
    <2> QED
        BY <2>1, <2>2, <2>3, <2>4, <2>5
<1> DEFINE x == Rearranged(v)
<1>5. /\ x \in Seq(Character) /\ Len(x) = n /\ x[r] = v[p]
      /\ \A i \in 1 .. n : x[i] = IF i <= n - 4 THEN v[i + 4] ELSE v[i - (n - 4)]
    <2>1. IF r <= n - 4 THEN r + 4 = p ELSE r - (n - 4) = p
        BY <1>2
    <2> QED
        BY <1>2, <1>3, <1>4, <2>1
<1>6. /\ Rearranged(w) \in Seq(Character) /\ Len(Rearranged(w)) = n
      /\ \A i \in 1 .. n : Rearranged(w)[i] = IF i <= n - 4 THEN w[i + 4] ELSE w[i - (n - 4)]
    BY <1>1, <1>4
<1> HIDE DEF x, r
<1>7. /\ Put(x, r, d) \in Seq(Character) /\ Len(Put(x, r, d)) = n
      /\ \A i \in 1 .. n : Put(x, r, d)[i] = IF i = r THEN d ELSE x[i]
    <2>1. r \in 1 .. Len(x)
        BY <1>3, <1>5
    <2>2. /\ Put(x, r, d) \in Seq(Character) /\ Len(Put(x, r, d)) = Len(x)
          /\ \A i \in 1 .. Len(x) : Put(x, r, d)[i] = IF i = r THEN d ELSE x[i]
        <3>1. x \in Seq(Character) /\ d \in Character
            BY <1>5
        <3> QED
            BY <2>1, <3>1, PutIs
    <2> QED
        BY <1>5, <2>2
<1>8. ASSUME NEW i \in 1 .. n
      PROVE  Rearranged(w)[i] = Put(x, r, d)[i]
    <2>1. IF i <= n - 4 THEN i + 4 \in 1 .. n /\ (i + 4 = p <=> i = r)
          ELSE i - (n - 4) \in 1 .. n /\ (i - (n - 4) = p <=> i = r)
        BY <1>2 DEF r
    <2> QED
        BY <1>1, <1>5, <1>6, <1>7, <2>1
<1>9. Rearranged(w) = Put(x, r, d)
    BY <1>6, <1>7, <1>8, SeqEqual
<1>10. Mod97(Rearranged(w)) # Mod97(x)
    BY <1>3, <1>5, <1>9, RemainderPut
<1> QED
    BY <1>2, <1>10 DEF IbanValid, w, x

-------------------------------------------------------------------------------
(* The checksums of the scene                                              *)

\* What is left when 97 is taken away as often as it goes.
LEMMA Division ==
    ASSUME NEW x \in Nat
    PROVE  /\ x \div 97 \in Nat /\ x % 97 \in 0 .. 96
           /\ x = 97 * (x \div 97) + (x % 97)
    OBVIOUS

LEMMA LeavesOne ==
    ASSUME NEW k \in Int
    PROVE  (97 * k + 1) % 97 = 1
    OBVIOUS

\* The two digits that a check makes, which is at least two and below a hundred.
LEMMA CheckDigits ==
    ASSUME NEW r \in Remainder, NEW m, m = Carried(Carried(r, 0), 0)
    PROVE  /\ m \in Remainder /\ (98 - m) \div 10 \in Digit /\ (98 - m) % 10 \in Digit
           /\ Carried(Carried(r, (98 - m) \div 10), (98 - m) % 10) = 1
<1> DEFINE c == (98 - m) \div 10
           d == (98 - m) % 10
           a == (10 * r) \div 97
           x == (10 * r) % 97
           b == (10 * x) \div 97
           e == (10 * r + c) \div 97
           y == (10 * r + c) % 97
<1>1. r \in 0 .. 96 /\ m = (x * 10) % 97 /\ x = (r * 10) % 97
    BY DEF Carried, Remainder
<1>2. a \in Nat /\ x \in 0 .. 96 /\ 10 * r = 97 * a + x
    <2>1. 10 * r \in Nat
        BY <1>1
    <2> QED
        BY <2>1, Division
<1> HIDE DEF x, a
<1>3. b \in Nat /\ m \in 0 .. 96 /\ 10 * x = 97 * b + m
    <2>1. 10 * x \in Nat /\ x * 10 = 10 * x
        BY <1>2
    <2> QED
        BY <1>1, <2>1, Division
<1> HIDE DEF b
<1>4. c \in 0 .. 9 /\ d \in 0 .. 9 /\ 10 * c + d = 98 - m
    BY <1>3
<1> HIDE DEF c, d
<1>5. e \in Nat /\ y \in 0 .. 96 /\ 10 * r + c = 97 * e + y
    <2>1. 10 * r + c \in Nat
        BY <1>1, <1>4
    <2> QED
        BY <2>1, Division
<1>6. Carried(r, c) = y
    <2>1. ~(c > 9) /\ r * 10 + c = 10 * r + c
        BY <1>1, <1>4
    <2> QED
        BY <2>1 DEF Carried, y
<1> HIDE DEF e, y
<1>7. y * 10 + d = 97 * (10 * a + b + 1 - 10 * e) + 1
    BY <1>1, <1>2, <1>3, <1>4, <1>5
<1>8. (y * 10 + d) % 97 = 1
    <2> DEFINE k == 10 * a + b + 1 - 10 * e
    <2>1. k \in Int
        BY <1>2, <1>3, <1>5
    <2> HIDE DEF k
    <2>2. (97 * k + 1) % 97 = 1
        BY <2>1, LeavesOne
    <2> QED
        BY <1>7, <2>2 DEF k
<1>9. Carried(y, d) = 1
    <2>1. ~(d > 9)
        BY <1>4
    <2> QED
        BY <1>8, <2>1 DEF Carried
<1> QED
    BY <1>3, <1>4, <1>6, <1>9 DEF Remainder, Digit, c, d

\* An account number with its right check digits is an IBAN.
LEMMA IbanIsValid ==
    ASSUME NEW body \in Seq(Digit), Len(body) \in 11 .. 30
    PROVE  /\ IbanOf(body) \in Seq(Character) /\ Len(IbanOf(body)) = Len(body) + 4
           /\ \A i \in 1 .. Len(body) : IbanOf(body)[i + 4] = body[i]
           /\ IbanValid(IbanOf(body))
<1> DEFINE n == Len(body)
           zeros == <<0, 0, 0, 0>>
           u == body \o zeros
           m == Mod97(u)
           c == (98 - m) \div 10
           d == (98 - m) % 10
           four == <<0, 0, c, d>>
           w == body \o four
           v == four \o body
<1>1. n \in 11 .. 30 /\ body \in Seq(Character) /\ \A i \in 1 .. n : body[i] \in Character
    BY ElementOfSeq DEF Digit, Character
<1>2. zeros \in Seq(Character) /\ Len(zeros) = 4
    BY DEF Character
<1> HIDE DEF n
<1>3. /\ u \in Seq(Character) /\ Len(u) = n + 4
      /\ \A i \in 1 .. n + 4 : u[i] = IF i <= n THEN body[i] ELSE zeros[i - n]
    BY <1>1, <1>2, ConcatProperties DEF n
<1>4. PICK f : RemainderRuns(u, f)
    BY <1>3, RemainderUnfolds
<1> DEFINE r == f[n + 2]
<1>5. r \in Remainder /\ m = Carried(Carried(r, 0), 0)
    <2>1. n + 2 \in 0 .. n + 4 /\ n + 3 \in 1 .. n + 4 /\ n + 4 \in 1 .. n + 4
        BY <1>1
    <2>2. u[n + 3] = 0 /\ u[n + 4] = 0
        BY <1>1, <1>3, <2>1
    <2>3. f[n + 3] = Carried(f[n + 2], 0) /\ f[n + 4] = Carried(f[n + 3], 0)
        <3>1. (n + 3) - 1 = n + 2 /\ (n + 4) - 1 = n + 3
            BY <1>1
        <3> HIDE DEF u
        <3> QED
            BY <1>3, <1>4, <2>1, <2>2, <3>1 DEF RemainderRuns
    <2> HIDE DEF u
    <2>4. f[n + 2] \in Remainder /\ m = f[n + 4]
        BY <1>3, <1>4, <2>1 DEF RemainderRuns
    <2> QED
        BY <2>3, <2>4
<1> HIDE DEF u
<1>6. c \in Digit /\ d \in Digit /\ Carried(Carried(r, c), d) = 1
    <2> HIDE DEF m, r
    <2> QED
        BY <1>5, CheckDigits
<1> HIDE DEF c, d
<1>7. four \in Seq(Character) /\ Len(four) = 4
    BY <1>6 DEF Character, Digit
<1>8. /\ w \in Seq(Character) /\ Len(w) = n + 4
      /\ \A i \in 1 .. n + 4 : w[i] = IF i <= n THEN body[i] ELSE four[i - n]
    BY <1>1, <1>7, ConcatProperties DEF n
<1>9. /\ v \in Seq(Character) /\ Len(v) = n + 4
      /\ \A i \in 1 .. n + 4 : v[i] = IF i <= 4 THEN four[i] ELSE body[i - 4]
    BY <1>1, <1>7, ConcatProperties DEF n
<1>10. IbanOf(body) = v
    BY DEF IbanOf, c, d, u
<1>11. Mod97(w) = 1
    <2>1. PICK g : RemainderRuns(w, g)
        BY <1>8, RemainderUnfolds
    <2>2. /\ n + 3 \in 1 .. n + 4 /\ n + 4 \in 1 .. n + 4 /\ n + 2 \in Nat
          /\ (n + 3) - 1 = n + 2 /\ (n + 4) - 1 = n + 3
          /\ \A i \in 1 .. n + 2 : i \in 1 .. n + 4
        BY <1>1
    <2>3. w[n + 3] = c /\ w[n + 4] = d
        BY <1>1, <1>8, <2>2
    <2>4. \A i \in 1 .. n + 2 : w[i] = u[i]
        <3>1. ASSUME NEW i \in 1 .. n + 2, ~(i <= n)
              PROVE  four[i - n] = 0 /\ zeros[i - n] = 0
            <4>1. i - n = 1 \/ i - n = 2
                BY <1>1, <3>1
            <4> QED
                BY <4>1
        <3> HIDE DEF w, zeros, four
        <3> QED
            BY <1>3, <1>8, <2>2, <3>1
    <2> HIDE DEF w
    <2>5. f[n + 2] = g[n + 2]
        <3>1. f[0] = g[0]
            BY <1>4, <2>1 DEF RemainderRuns
        <3>2. \A i \in 1 .. n + 2 : f[i - 1] = g[i - 1] => f[i] = g[i]
            BY <1>3, <1>4, <1>8, <2>1, <2>2, <2>4 DEF RemainderRuns
        <3> QED
            BY <2>2, <3>1, <3>2, StaysSame
    <2>6. g[n + 3] = Carried(g[n + 2], c) /\ g[n + 4] = Carried(g[n + 3], d) /\ Mod97(w) = g[n + 4]
        BY <1>8, <2>1, <2>2, <2>3 DEF RemainderRuns
    <2> QED
        BY <1>6, <2>5, <2>6
<1>12. Rearranged(v) = w
    <2> DEFINE a == SubSeq(v, 5, n + 4)
               b == SubSeq(v, 1, 4)
    <2> HIDE DEF v, four, w
    <2>1. /\ a \in Seq(Character) /\ Len(a) = n
          /\ \A i \in 1 .. n : a[i] = v[i + 4]
        BY <1>1, <1>9, SubSeqProperties, ElementOfSeq
    <2>2. /\ b \in Seq(Character) /\ Len(b) = 4
          /\ \A i \in 1 .. 4 : b[i] = v[i]
        BY <1>1, <1>9, SubSeqProperties, ElementOfSeq
    <2>3. Rearranged(v) = a \o b
        BY <1>9 DEF Rearranged
    <2> HIDE DEF a, b
    <2>4. a = body
        <3>1. \A i \in 1 .. n : i + 4 \in 1 .. n + 4 /\ ~(i + 4 <= 4) /\ (i + 4) - 4 = i
            BY <1>1
        <3>2. \A i \in 1 .. n : a[i] = body[i]
            BY <1>9, <2>1, <3>1
        <3> QED
            BY <1>1, <2>1, <3>2, SeqEqual DEF n
    <2>5. b = four
        <3>1. \A i \in 1 .. 4 : i \in 1 .. n + 4 /\ i <= 4
            BY <1>1
        <3>2. \A i \in 1 .. 4 : b[i] = four[i]
            BY <1>9, <2>2, <3>1
        <3> QED
            BY <1>7, <2>2, <3>2, SeqEqual
    <2> QED
        BY <2>3, <2>4, <2>5 DEF w
<1>13. \A i \in 1 .. n : v[i + 4] = body[i]
    <2>1. \A i \in 1 .. n : i + 4 \in 1 .. n + 4 /\ ~(i + 4 <= 4) /\ (i + 4) - 4 = i
        BY <1>1
    <2> HIDE DEF v
    <2> QED
        BY <1>9, <2>1
<1> HIDE DEF v, w
<1>14. IbanValid(v)
    BY <1>1, <1>9, <1>11, <1>12 DEF IbanValid
<1> QED
    BY <1>9, <1>10, <1>13, <1>14 DEF n

-------------------------------------------------------------------------------
(* The numbers of the scene "inputs"                                       *)

\* The window of digits that vary lies in the number, behind its first digit.
NumberInv ==
    /\ number \in [at : 2 .. Digits + 1 - Varied, digits : Seq(Digit)]
    /\ Len(number.digits) <= Varied

LEMMA NextNumber == NumberInv /\ [Next]_vars => NumberInv'
<1> SUFFICES ASSUME NumberInv, [Next]_vars
             PROVE  NumberInv'
    OBVIOUS
<1>1. CASE NextDigit
    <2>1. PICK d \in Digit : number' = [number EXCEPT !.digits = Append(@, d)]
        BY <1>1 DEF NextDigit
    <2>2. Len(number.digits) < Varied
        BY <1>1 DEF NextDigit
    <2>3. /\ number'.at = number.at /\ number'.digits = Append(number.digits, d)
          /\ number' = [at |-> number'.at, digits |-> number'.digits]
        BY <2>1 DEF NumberInv
    <2>4. /\ Append(number.digits, d) \in Seq(Digit)
          /\ Len(Append(number.digits, d)) = Len(number.digits) + 1
        BY AppendProperties DEF NumberInv
    <2>5. Len(number.digits) \in Nat
        BY LenProperties DEF NumberInv
    <2>6. Len(number.digits) + 1 <= Varied
        BY <2>2, <2>5, PartsAssumption
    <2>7. number' \in [at : 2 .. Digits + 1 - Varied, digits : Seq(Digit)]
        BY <2>3, <2>4 DEF NumberInv
    <2> QED
        BY <2>3, <2>4, <2>6, <2>7 DEF NumberInv
<1>2. CASE number' = number
    BY <1>2 DEF NumberInv
<1>3. [Next]_vars => NextDigit \/ number' = number
    BY DEF Next, vars, inputs, NextItem, NextField, NextPlace, NextNamer, NextWord, NextSpan
<1> QED
    BY <1>1, <1>2, <1>3

LEMMA ValueIsNumber ==
    ASSUME NumberInv
    PROVE  /\ Value \in Seq(Digit) /\ Len(Value) = Digits
           /\ Touched \subseteq 1 .. Digits
<1>1. /\ number.at \in Nat /\ number.at >= 2 /\ number.at + Varied <= Digits + 1
      /\ number.digits \in Seq(Digit) /\ Len(number.digits) \in Nat
      /\ Len(number.digits) <= Varied /\ Digits \in Nat /\ Varied \in Nat
    BY PartsAssumption, LenProperties DEF NumberInv
<1>2. Touched \subseteq 1 .. Digits
    BY <1>1 DEF Touched
<1>3. \A i \in 1 .. Digits : Value[i] \in Digit
    <2> SUFFICES ASSUME NEW i \in 1 .. Digits
                 PROVE  Value[i] \in Digit
        OBVIOUS
    <2> DEFINE k == i - number.at + 1
    <2>1. k \in DOMAIN number.digits => number.digits[k] \in Digit
        BY <1>1, ElementOfSeq, LenProperties
    <2>2. 0 \in Digit /\ 2 \in Digit
        BY DEF Digit
    <2> HIDE DEF k
    <2>3. Value[i] = IF k \in DOMAIN number.digits THEN number.digits[k]
                     ELSE IF i = 1 THEN 2 ELSE 0
        BY DEF Value, k
    <2> QED
        BY <2>1, <2>2, <2>3
<1>4. Value \in [1 .. Digits -> Digit]
    BY <1>3 DEF Value
<1>5. Value \in Seq(Digit) /\ Len(Value) = Digits
    BY <1>1, <1>4, SeqDef, LenProperties
<1> QED
    BY <1>2, <1>5

LEMMA NumbersAreChecked == NumberInv => ChecksumsCatch
<1> SUFFICES ASSUME NumberInv
             PROVE  ChecksumsCatch
    OBVIOUS
<1> DEFINE v == Value
           iban == IbanOf(v)
<1>1. v \in Seq(Digit) /\ Len(v) = Digits /\ Touched \subseteq 1 .. Len(v)
    BY ValueIsNumber
<1>2. /\ iban \in Seq(Character) /\ Len(iban) = Len(v) + 4 /\ IbanValid(iban)
      /\ \A i \in 1 .. Len(v) : iban[i + 4] = v[i]
    BY <1>1, IbanIsValid, PartsAssumption
<1>3. Pairs = {i \in Touched : i + 1 \in Touched /\ v[i] # v[i + 1]}
    BY DEF Pairs
<1> HIDE DEF v, iban
<1>4. ASSUME NEW i \in Touched, NEW d \in Digit \ {v[i]}
      PROVE  /\ VerhoeffSum(Put(v, i, d)) # VerhoeffSum(v)
             /\ LuhnSum(Put(v, i, d)) % 10 # LuhnSum(v) % 10
             /\ AadhaarValid(v) => ~AadhaarValid(Put(v, i, d))
             /\ LuhnValid(v) => ~LuhnValid(Put(v, i, d))
             /\ ~IbanValid(Put(iban, i + 4, d))
    <2>1. i \in 1 .. Len(v) /\ d \in Digit /\ d # v[i]
        BY <1>1
    <2>2. i + 4 \in 1 .. Len(iban)
        BY <1>1, <1>2, <2>1, PartsAssumption
    <2>3. iban[i + 4] = v[i] /\ v[i] \in Digit
        BY <1>1, <1>2, <2>1, ElementOfSeq
    <2>4. d \in Character \ {iban[i + 4]} /\ (d > 9 <=> iban[i + 4] > 9)
        BY <2>1, <2>3 DEF Digit, Character
    <2>5. ~IbanValid(Put(iban, i + 4, d))
        BY <1>2, <2>2, <2>4, WrongCharactersCaught
    <2>6. /\ VerhoeffSum(Put(v, i, d)) # VerhoeffSum(v)
          /\ LuhnSum(Put(v, i, d)) % 10 # LuhnSum(v) % 10
          /\ AadhaarValid(v) => ~AadhaarValid(Put(v, i, d))
          /\ LuhnValid(v) => ~LuhnValid(Put(v, i, d))
        BY <1>1, <2>1, WrongDigitsCaught
    <2> QED
        BY <2>5, <2>6
<1>5. ASSUME NEW i \in Pairs
      PROVE  /\ VerhoeffSum(Swap(v, i)) # VerhoeffSum(v)
             /\ {v[i], v[i + 1]} # {0, 9} => LuhnSum(Swap(v, i)) % 10 # LuhnSum(v) % 10
    <2>1. i \in 1 .. Len(v) /\ i + 1 \in 1 .. Len(v) /\ v[i] # v[i + 1]
        BY <1>1, <1>3
    <2> QED
        BY <1>1, <2>1, SwappedDigitsCaught
<1> QED
    BY <1>2, <1>4, <1>5 DEF ChecksumsCatch, v, iban

\* Whatever digits a number of the scene gets: one wrong digit, two neighbours swapped and
\* a wrong character of an IBAN do not pass the validators of patterns.py.
THEOREM ChecksumsNotice == Spec => []ChecksumsCatch
<1>1. Init => NumberInv
    <2> SUFFICES ASSUME Init
                 PROVE  NumberInv
        OBVIOUS
    <2>1. number \in [at : 2 .. Digits + 1 - Varied, digits : {<<>>}]
        BY DEF Init
    <2>2. number.at \in 2 .. Digits + 1 - Varied /\ number.digits = <<>>
          /\ number = [at |-> number.at, digits |-> number.digits]
        BY <2>1
    <2>3. <<>> \in Seq(Digit) /\ Len(<<>>) = 0
        OBVIOUS
    <2>4. number \in [at : 2 .. Digits + 1 - Varied, digits : Seq(Digit)]
        BY <2>2, <2>3
    <2> QED
        BY <2>2, <2>3, <2>4, PartsAssumption DEF NumberInv
<1>2. Spec => []NumberInv
    BY <1>1, NextNumber, PTL DEF Spec
<1> QED
    BY <1>2, NumbersAreChecked, PTL

-------------------------------------------------------------------------------
(* What the judge is shown                                                 *)

\* f adds up some numbers, one by one.
Running(numbers, f) ==
    /\ f \in [0 .. Len(numbers) -> Nat]
    /\ f[0] = 0
    /\ \A i \in 1 .. Len(numbers) : f[i] = f[i - 1] + numbers[i]

RunningSum(numbers) ==
    CHOOSE f : f = [i \in 0 .. Len(numbers) |-> IF i = 0 THEN 0 ELSE f[i - 1] + numbers[i]]

LEMMA SumRuns ==
    ASSUME NEW numbers \in Seq(Nat)
    PROVE  Running(numbers, RunningSum(numbers))
<1> DEFINE n == Len(numbers)
           Body(f, i) == IF i = 0 THEN 0 ELSE f[i - 1] + numbers[i]
           Def(f) == f = [i \in 0 .. n |-> Body(f, i)]
           sum == CHOOSE f : Def(f)
           step == [q \in (1 .. n) \X Nat |-> q[2] + numbers[q[1]]]
<1>1. n \in Nat /\ \A i \in 1 .. n : numbers[i] \in Nat
    BY LenProperties, ElementOfSeq
<1>2. sum = RunningSum(numbers)
    BY DEF RunningSum
<1> HIDE DEF n
<1>3. step \in [(1 .. n) \X Nat -> Nat]
    BY <1>1
<1>4. \E f : Def(f)
    <2> HIDE DEF step
    <2>1. PICK f \in [0 .. n -> Nat] : Follows(f, n, 0, step)
        BY <1>1, <1>3, Recursion
    <2>2. ASSUME NEW i \in 0 .. n
          PROVE  f[i] = Body(f, i)
        <3>1. CASE i = 0
            BY <2>1, <3>1 DEF Follows
        <3>2. CASE i # 0
            <4>1. i \in 1 .. n /\ i - 1 \in 0 .. n /\ f[i - 1] \in Nat
                BY <1>1, <2>1, <3>2
            <4>2. f[i] = step[<<i, f[i - 1]>>]
                BY <2>1, <4>1 DEF Follows
            <4> QED
                BY <3>2, <4>1, <4>2 DEF step
        <3> QED
            BY <3>1, <3>2
    <2>3. DOMAIN f = 0 .. n /\ f = [i \in DOMAIN f |-> f[i]]
        BY <2>1
    <2> HIDE DEF Body
    <2> QED
        BY <2>2, <2>3
<1>5. Def(sum)
    BY <1>4
<1> HIDE DEF sum, step
<1>6. sum[0] = 0
    BY <1>1, <1>5
<1>7. ASSUME NEW i \in 1 .. n
      PROVE  sum[i] = sum[i - 1] + numbers[i]
    <2>1. i \in 0 .. n /\ i # 0
        BY <1>1
    <2> QED
        BY <1>5, <2>1
<1>8. \A i \in 0 .. n : sum[i] \in Nat
    <2> DEFINE P == {i \in Nat : i <= n => sum[i] \in Nat}
    <2>1. 0 \in P
        BY <1>6
    <2>2. ASSUME NEW i \in P
          PROVE  i + 1 \in P
        <3> SUFFICES ASSUME i + 1 <= n
                     PROVE  sum[i + 1] \in Nat
            OBVIOUS
        <3>1. i + 1 \in 1 .. n /\ sum[i] \in Nat /\ (i + 1) - 1 = i
            BY <1>1, <2>2
        <3>2. sum[i + 1] = sum[i] + numbers[i + 1]
            BY <1>7, <3>1
        <3> QED
            BY <1>1, <3>1, <3>2
    <2>3. P = Nat
        <3>1. P \in SUBSET Nat
            OBVIOUS
        <3> HIDE DEF P
        <3> QED
            BY <2>1, <2>2, <3>1, Induction
    <2> QED
        BY <1>1, <2>3
<1>9. sum = [i \in 0 .. n |-> sum[i]]
    <2>1. DOMAIN sum = 0 .. n /\ sum = [i \in DOMAIN sum |-> sum[i]]
        BY <1>5
    <2> QED
        BY <2>1
<1>10. sum \in [0 .. n -> Nat]
    BY <1>8, <1>9
<1> QED
    BY <1>2, <1>6, <1>7, <1>10 DEF Running, n

\* Sums do not fall.
LEMMA SumsRise ==
    ASSUME NEW numbers \in Seq(Nat), NEW f, Running(numbers, f),
           NEW i \in 0 .. Len(numbers), NEW j \in 0 .. Len(numbers), i <= j
    PROVE  f[i] <= f[j]
<1> DEFINE n == Len(numbers)
           P == {k \in Nat : i + k <= n => f[i] <= f[i + k]}
<1>1. n \in Nat /\ f \in [0 .. n -> Nat] /\ \A k \in 1 .. n : f[k] = f[k - 1] + numbers[k]
    BY LenProperties DEF Running
<1>2. \A k \in 1 .. n : numbers[k] \in Nat
    BY ElementOfSeq
<1>3. i \in 0 .. n /\ j \in 0 .. n
    OBVIOUS
<1> HIDE DEF n
<1>4. 0 \in P
    BY <1>1, <1>3
<1>5. ASSUME NEW k \in P
      PROVE  k + 1 \in P
    <2> SUFFICES ASSUME i + (k + 1) <= n
                 PROVE  f[i] <= f[i + (k + 1)]
        OBVIOUS
    <2>1. /\ i + (k + 1) \in 1 .. n /\ (i + (k + 1)) - 1 = i + k /\ i + k \in 0 .. n
          /\ f[i] <= f[i + k]
        BY <1>1, <1>3, <1>5
    <2>2. f[i + (k + 1)] = f[i + k] + numbers[i + (k + 1)]
        BY <1>1, <2>1
    <2>3. f[i] \in Nat /\ f[i + k] \in Nat /\ numbers[i + (k + 1)] \in Nat
        BY <1>1, <1>2, <1>3, <2>1
    <2> QED
        BY <2>1, <2>2, <2>3
<1>6. P = Nat
    <2>1. P \in SUBSET Nat
        OBVIOUS
    <2> HIDE DEF P
    <2> QED
        BY <1>4, <1>5, <2>1, Induction
<1>7. j - i \in Nat /\ i + (j - i) = j /\ j <= n
    BY <1>1, <1>3
<1>8. j - i \in P
    BY <1>6, <1>7
<1> QED
    BY <1>7, <1>8

\* How many of the contexts are shown: all, or as many as it takes to spend the budget.
ShownOf(contexts, f, k) ==
    /\ k \in 0 .. Len(contexts)
    /\ \A i \in 1 .. k : f[i - 1] < MaxContextChars
    /\ k < Len(contexts) => f[k] >= MaxContextChars

LEMMA TruncatedContexts ==
    ASSUME NEW contexts \in Seq(Nat)
    PROVE  \E f, k : /\ Running(contexts, f)
                     /\ ShownOf(contexts, f, k)
                     /\ Truncated(contexts) =
                          [i \in 1 .. k |-> AtMost(contexts[i], MaxContextChars - f[i - 1])]
<1> DEFINE n == Len(contexts)
           f == RunningSum(contexts)
           whole == {i \in DOMAIN contexts : f[i - 1] < MaxContextChars}
           spent == {j \in Nat : j <= n /\ f[j] >= MaxContextChars}
<1>1. Running(contexts, f) /\ n \in Nat /\ DOMAIN contexts = 1 .. n
    BY SumRuns, LenProperties
<1>2. Truncated(contexts) =
          [i \in 1 .. Cardinality(whole) |-> AtMost(contexts[i], MaxContextChars - f[i - 1])]
    BY DEF Truncated, RunningSum
<1>3. ASSUME NEW i \in 0 .. n, NEW j \in 0 .. n, i <= j
      PROVE  f[i] <= f[j]
    BY <1>1, <1>3, SumsRise
<1>4. f \in [0 .. n -> Nat]
    BY <1>1 DEF Running
<1>5. MaxContextChars \in Nat
    BY JudgingAssumption
<1> HIDE DEF n, f
<1>6. \E k : ShownOf(contexts, f, k) /\ whole = 1 .. k
    <2>1. CASE spent = {}
        <3>1. \A i \in 1 .. n : i - 1 \in Nat /\ i - 1 \in 0 .. n /\ i - 1 <= n
            BY <1>1
        <3>2. \A i \in 1 .. n : f[i - 1] < MaxContextChars
            BY <1>4, <1>5, <2>1, <3>1
        <3>3. whole = 1 .. n
            BY <1>1, <3>2
        <3>4. ShownOf(contexts, f, n)
            BY <1>1, <3>2 DEF ShownOf, n
        <3> QED
            BY <3>3, <3>4
    <2>2. CASE spent # {}
        <3>1. PICK x \in spent : \A y \in spent : x <= y
            <4>1. spent \in SUBSET Nat
                OBVIOUS
            <4> HIDE DEF spent
            <4> QED
                BY <2>2, <4>1, LeastElement
        <3>2. x \in 0 .. n /\ f[x] >= MaxContextChars
            BY <1>1, <3>1
        <3>3. ASSUME NEW i \in 1 .. n
              PROVE  f[i - 1] < MaxContextChars <=> i <= x
            <4>1. i - 1 \in 0 .. n /\ i - 1 \in Nat /\ f[i - 1] \in Nat /\ f[x] \in Nat
                BY <1>1, <1>4, <3>2
            <4>2. CASE i <= x
                <5>1. i - 1 \notin spent
                    BY <3>1, <3>2, <4>1, <4>2
                <5> QED
                    BY <1>1, <1>5, <4>1, <4>2, <5>1
            <4>3. CASE ~(i <= x)
                <5>1. x <= i - 1
                    BY <1>1, <3>2, <4>3
                <5>2. f[x] <= f[i - 1]
                    BY <1>3, <3>2, <4>1, <5>1
                <5> QED
                    BY <1>5, <3>2, <4>1, <4>3, <5>2
            <4> QED
                BY <4>2, <4>3
        <3>4. \A i \in 1 .. x : i \in 1 .. n /\ i <= x
            BY <1>1, <3>2
        <3>5. whole = 1 .. x
            BY <1>1, <3>2, <3>3, <3>4
        <3>6. ShownOf(contexts, f, x)
            BY <3>2, <3>3, <3>4 DEF ShownOf, n
        <3> QED
            BY <3>5, <3>6
    <2> QED
        BY <2>1, <2>2
<1>7. PICK k : ShownOf(contexts, f, k) /\ whole = 1 .. k
    BY <1>6
<1> HIDE DEF whole
<1>8. Cardinality(whole) = k
    <2>1. k \in Nat
        BY <1>7 DEF ShownOf
    <2>2. Cardinality(1 .. k) = k
        BY <2>1, FS_Interval
    <2> QED
        BY <1>7, <2>2
<1> QED
    BY <1>1, <1>2, <1>7, <1>8

LEMMA TruncatedIsContexts ==
    ASSUME NEW contexts \in Seq(Nat)
    PROVE  Truncated(contexts) \in Seq(Nat)
<1>1. PICK f, k : /\ Running(contexts, f)
                  /\ ShownOf(contexts, f, k)
                  /\ Truncated(contexts) =
                       [i \in 1 .. k |-> AtMost(contexts[i], MaxContextChars - f[i - 1])]
    BY TruncatedContexts
<1>2. k \in Nat /\ \A i \in 1 .. k : i \in 1 .. Len(contexts) /\ i - 1 \in 0 .. Len(contexts)
    BY <1>1, LenProperties DEF ShownOf
<1>3. ASSUME NEW i \in 1 .. k
      PROVE  AtMost(contexts[i], MaxContextChars - f[i - 1]) \in Nat
    <2>1. contexts[i] \in Nat /\ f[i - 1] \in Nat /\ f[i - 1] < MaxContextChars
        BY <1>1, <1>2, ElementOfSeq DEF Running, ShownOf
    <2> QED
        BY <2>1, JudgingAssumption DEF AtMost
<1>4. Truncated(contexts) \in [1 .. k -> Nat]
    BY <1>1, <1>3
<1> QED
    BY <1>2, <1>4, SeqDef

\* The contexts the judge is shown are those of the trace, in their order, the last of
\* them perhaps cut; together they are as long as the budget, or as all of them if they
\* are shorter (EvalSample.truncated).
THEOREM ContextsFillBudget ==
    ASSUME NEW contexts \in Seq(Nat), NEW f, Running(contexts, f),
           NEW t, Running(Truncated(contexts), t)
    PROVE  /\ Len(Truncated(contexts)) <= Len(contexts)
           /\ \A i \in 1 .. Len(Truncated(contexts)) : Truncated(contexts)[i] <= contexts[i]
           /\ \A i \in 1 .. Len(Truncated(contexts)) - 1 : Truncated(contexts)[i] = contexts[i]
           /\ t[Len(Truncated(contexts))] = AtMost(f[Len(contexts)], MaxContextChars)
<1> DEFINE n == Len(contexts)
           shown == Truncated(contexts)
<1>1. PICK g, k : /\ Running(contexts, g)
                  /\ ShownOf(contexts, g, k)
                  /\ shown = [i \in 1 .. k |-> AtMost(contexts[i], MaxContextChars - g[i - 1])]
    BY TruncatedContexts
<1>2. n \in Nat /\ k \in 0 .. n /\ \A i \in 1 .. n : contexts[i] \in Nat
    BY <1>1, LenProperties, ElementOfSeq DEF ShownOf
<1>3. shown \in Seq(Nat) /\ Len(shown) = k
    <2>1. k \in Nat /\ DOMAIN shown = 1 .. k
        BY <1>1, <1>2
    <2> QED
        BY <2>1, TruncatedIsContexts, LenProperties
<1>4. /\ f \in [0 .. n -> Nat] /\ f[0] = 0 /\ \A i \in 1 .. n : f[i] = f[i - 1] + contexts[i]
      /\ g[0] = 0 /\ \A i \in 1 .. n : g[i] = g[i - 1] + contexts[i]
    BY <1>1 DEF Running
<1>5. t \in [0 .. k -> Nat] /\ t[0] = 0 /\ \A i \in 1 .. k : t[i] = t[i - 1] + shown[i]
    BY <1>3 DEF Running
<1>6. \A i \in 0 .. n : f[i] = g[i]
    <2> SUFFICES ASSUME NEW i \in 0 .. n
                 PROVE  f[i] = g[i]
        OBVIOUS
    <2>1. i \in Nat /\ \A j \in 1 .. i : j \in 1 .. n
        BY <1>2
    <2>2. \A j \in 1 .. i : f[j - 1] = g[j - 1] => f[j] = g[j]
        BY <1>4, <2>1
    <2>3. f[0] = g[0]
        BY <1>4
    <2> HIDE DEF n, shown
    <2> QED
        BY <2>1, <2>2, <2>3, StaysSame
<1>7. /\ \A i \in 1 .. k : f[i - 1] < MaxContextChars
      /\ k < n => f[k] >= MaxContextChars
      /\ \A i \in 1 .. k : shown[i] = AtMost(contexts[i], MaxContextChars - f[i - 1])
    <2>1. \A i \in 1 .. k : i - 1 \in 0 .. n
        BY <1>2
    <2>2. \A i \in 1 .. k : f[i - 1] = g[i - 1]
        BY <1>6, <2>1
    <2>3. f[k] = g[k]
        BY <1>2, <1>6
    <2>4. /\ \A i \in 1 .. k : g[i - 1] < MaxContextChars
          /\ k < n => g[k] >= MaxContextChars
        BY <1>1 DEF ShownOf
    <2>5. \A i \in 1 .. k : shown[i] = AtMost(contexts[i], MaxContextChars - g[i - 1])
        BY <1>1
    <2> HIDE DEF shown, n
    <2> QED
        BY <2>2, <2>3, <2>4, <2>5
<1>8. MaxContextChars \in Nat
    BY JudgingAssumption
<1>9. \A i \in 0 .. n : i <= n /\ f[i] <= f[n]
    <2>1. n \in 0 .. n /\ \A i \in 0 .. n : i <= n
        BY <1>2
    <2> QED
        BY <2>1, SumsRise
<1> HIDE DEF n, shown
<1>10. \A i \in 1 .. k : /\ i \in 1 .. n /\ i - 1 \in 0 .. k /\ i - 1 \in 0 .. n /\ i \in 0 .. n
                         /\ contexts[i] \in Nat /\ f[i - 1] \in Nat
    BY <1>2, <1>4
<1>11. \A i \in 0 .. k : t[i] = AtMost(f[i], MaxContextChars)
    <2> DEFINE P == {i \in Nat : i <= k => t[i] = AtMost(f[i], MaxContextChars)}
    <2>1. 0 \in P
        BY <1>4, <1>5, <1>8 DEF AtMost
    <2>2. ASSUME NEW i \in P
          PROVE  i + 1 \in P
        <3> SUFFICES ASSUME i + 1 <= k
                     PROVE  t[i + 1] = AtMost(f[i + 1], MaxContextChars)
            OBVIOUS
        <3> DEFINE j == i + 1
        <3>1. j \in 1 .. k /\ j - 1 = i /\ t[i] = AtMost(f[i], MaxContextChars)
            BY <1>2, <2>2
        <3> HIDE DEF j
        <3>2. f[i] < MaxContextChars /\ shown[j] = AtMost(contexts[j], MaxContextChars - f[i])
            BY <1>7, <3>1
        <3>3. contexts[j] \in Nat /\ f[i] \in Nat /\ f[j] = f[i] + contexts[j]
            BY <1>4, <1>10, <3>1
        <3>4. t[j] = t[i] + shown[j]
            BY <1>5, <3>1
        <3> QED
            BY <1>8, <3>1, <3>2, <3>3, <3>4 DEF AtMost, j
    <2>3. P = Nat
        <3>1. P \in SUBSET Nat
            OBVIOUS
        <3> HIDE DEF P
        <3> QED
            BY <2>1, <2>2, <3>1, Induction
    <2> QED
        BY <1>2, <2>3
<1>12. t[k] = AtMost(f[n], MaxContextChars)
    <2>1. t[k] = AtMost(f[k], MaxContextChars) /\ k \in 0 .. n /\ f[k] \in Nat /\ f[n] \in Nat
        BY <1>2, <1>4, <1>11
    <2>2. k < n \/ k = n
        BY <1>2
    <2> QED
        BY <1>7, <1>8, <1>9, <2>1, <2>2 DEF AtMost
<1>13. ASSUME NEW i \in 1 .. k - 1
       PROVE  shown[i] = contexts[i]
    <2>1. i \in 1 .. k /\ i + 1 \in 1 .. k /\ (i + 1) - 1 = i /\ i \in 1 .. n
        BY <1>2
    <2>2. f[i] < MaxContextChars
        BY <1>7, <2>1
    <2>3. f[i] = f[i - 1] + contexts[i] /\ shown[i] = AtMost(contexts[i], MaxContextChars - f[i - 1])
        BY <1>4, <1>7, <2>1
    <2>4. contexts[i] \in Nat /\ f[i - 1] \in Nat
        BY <1>10, <2>1
    <2> QED
        BY <1>8, <2>2, <2>3, <2>4 DEF AtMost
<1>14. \A i \in 1 .. k : shown[i] <= contexts[i]
    <2> SUFFICES ASSUME NEW i \in 1 .. k
                 PROVE  shown[i] <= contexts[i]
        OBVIOUS
    <2>1. f[i - 1] < MaxContextChars /\ shown[i] = AtMost(contexts[i], MaxContextChars - f[i - 1])
        BY <1>7
    <2>2. contexts[i] \in Nat /\ f[i - 1] \in Nat
        BY <1>10
    <2> QED
        BY <1>8, <2>1, <2>2 DEF AtMost
<1> QED
    BY <1>2, <1>3, <1>12, <1>13, <1>14 DEF n, shown

\* The samples that a judge is asked about.
Asked(samples) == {j \in DOMAIN samples : samples[j].question > 0 /\ samples[j].answer > 0}

\* The judge is asked about every sample that has a question and an answer, once and in the
\* order of the batch, its contexts truncated (_parse_verdicts, scorable).
THEOREM UsableInOrder ==
    ASSUME NEW samples \in Seq(Sample)
    PROVE  \E place \in [1 .. Cardinality(Asked(samples)) -> Asked(samples)] :
             /\ Cardinality(Asked(samples)) \in Nat
             /\ Usable(samples) = [i \in 1 .. Cardinality(Asked(samples)) |->
                   [samples[place[i]] EXCEPT !.contexts = Truncated(@)]]
             /\ \A j \in Asked(samples) : \E i \in DOMAIN place : place[i] = j
             /\ \A i, l \in DOMAIN place : i < l => place[i] < place[l]
<1> DEFINE S == Asked(samples)
           size == Cardinality(S)
           Upto(j) == {k \in S : k <= j}
           rank == [j \in S |-> Cardinality(Upto(j))]
           nth(i) == CHOOSE j \in S : Cardinality(Upto(j)) = i
           place == [i \in 1 .. size |-> nth(i)]
<1>1. IsFiniteSet(S) /\ size \in Nat /\ S \subseteq Nat
    <2>1. S \subseteq 1 .. Len(samples) /\ Len(samples) \in Nat
        BY LenProperties DEF Asked
    <2>2. IsFiniteSet(1 .. Len(samples)) /\ 1 .. Len(samples) \subseteq Nat
        BY <2>1, FS_Interval
    <2> HIDE DEF S
    <2> QED
        BY <2>1, <2>2, FS_Subset, FS_CardinalityType
<1>2. Usable(samples) =
        [i \in 1 .. size |-> [samples[nth(i)] EXCEPT !.contexts = Truncated(@)]]
    BY DEF Usable, Asked
<1> HIDE DEF S
<1>3. ASSUME NEW j \in S
      PROVE  IsFiniteSet(Upto(j)) /\ Cardinality(Upto(j)) \in 1 .. size
    <2>1. Upto(j) \in SUBSET S /\ j \in Upto(j)
        BY <1>1
    <2>2. IsFiniteSet(Upto(j)) /\ Cardinality(Upto(j)) <= size /\ Cardinality(Upto(j)) \in Nat
        BY <1>1, <2>1, FS_Subset, FS_CardinalityType
    <2>3. Cardinality(Upto(j)) # 0
        BY <2>1, <2>2, FS_EmptySet
    <2> QED
        BY <1>1, <2>2, <2>3
<1>4. ASSUME NEW j \in S, NEW k \in S, j < k
      PROVE  Cardinality(Upto(j)) < Cardinality(Upto(k))
    <2>1. Upto(j) \in SUBSET Upto(k) /\ k \in Upto(k) /\ k \notin Upto(j)
        <3>1. j \in Nat /\ k \in Nat /\ ~(k <= j) /\ \A x \in S : x <= j => x <= k
            BY <1>1, <1>4
        <3>2. Upto(j) \subseteq Upto(k)
            BY <3>1
        <3>3. k \in Upto(k) /\ k \notin Upto(j)
            BY <3>1
        <3> QED
            BY <3>2, <3>3
    <2>2. Cardinality(Upto(j)) <= Cardinality(Upto(k)) /\ Cardinality(Upto(j)) # Cardinality(Upto(k))
        BY <1>3, <2>1, FS_Subset
    <2> HIDE DEF Upto
    <2>3. Cardinality(Upto(j)) \in Nat /\ Cardinality(Upto(k)) \in Nat
        BY <1>1, <1>3
    <2> QED
        BY <2>2, <2>3
<1> HIDE DEF Upto
<1>5. ASSUME NEW j \in S, NEW k \in S, Cardinality(Upto(j)) = Cardinality(Upto(k))
      PROVE  j = k
    <2>1. j \in Nat /\ k \in Nat /\ Cardinality(Upto(j)) \in Nat
        BY <1>1, <1>3
    <2>2. ~(j < k) /\ ~(k < j)
        BY <1>4, <1>5, <2>1
    <2> QED
        BY <2>1, <2>2
<1>6. rank \in [S -> 1 .. size]
    BY <1>3
<1>7. rank \in Injection(S, 1 .. size)
    <2>1. \A j, k \in DOMAIN rank : rank[j] = rank[k] => j = k
        BY <1>5
    <2> HIDE DEF rank
    <2> QED
        BY <1>6, <2>1 DEF Injection, IsInjective
<1>8. IsFiniteSet(1 .. size) /\ Cardinality(1 .. size) = size
    BY <1>1, FS_Interval
<1>9. \A i \in 1 .. size : \E j \in S : rank[j] = i
    <2> HIDE DEF rank
    <2>1. rank \in Surjection(S, 1 .. size)
        BY <1>1, <1>7, <1>8, FS_Injection
    <2> QED
        BY <2>1 DEF Surjection
<1>10. ASSUME NEW i \in 1 .. size
       PROVE  nth(i) \in S /\ Cardinality(Upto(nth(i))) = i
    <2>1. \E j \in S : Cardinality(Upto(j)) = i
        BY <1>9
    <2> QED
        BY <2>1
<1>11. place \in [1 .. size -> S]
    BY <1>10
<1>12. \A i \in 1 .. size : place[i] = nth(i)
    OBVIOUS
<1> HIDE DEF nth
<1>13. \A i \in 1 .. size : place[i] \in S /\ Cardinality(Upto(place[i])) = i
    BY <1>10
<1>14. Usable(samples) =
         [i \in 1 .. size |-> [samples[place[i]] EXCEPT !.contexts = Truncated(@)]]
    BY <1>2, <1>12
<1> HIDE DEF place
<1>15. ASSUME NEW j \in S
       PROVE  \E i \in DOMAIN place : place[i] = j
    <2> DEFINE i == Cardinality(Upto(j))
    <2>1. i \in 1 .. size
        BY <1>3
    <2>2. place[i] \in S /\ Cardinality(Upto(place[i])) = Cardinality(Upto(j))
        BY <1>13, <2>1
    <2>3. place[i] = j
        BY <1>5, <2>2
    <2> QED
        BY <1>11, <2>1, <2>3
<1>16. ASSUME NEW i \in 1 .. size, NEW l \in 1 .. size, i < l
       PROVE  place[i] < place[l]
    <2>1. place[i] \in S /\ place[l] \in S /\ Cardinality(Upto(place[i])) = i /\ Cardinality(Upto(place[l])) = l
        BY <1>13
    <2>2. place[i] \in Nat /\ place[l] \in Nat /\ i \in Nat /\ l \in Nat
        <3>1. i \in Nat /\ l \in Nat
            BY <1>1
        <3> QED
            BY <1>1, <2>1, <3>1
    <2>3. place[i] # place[l]
        BY <1>16, <2>1, <2>2
    <2>4. ~(place[l] < place[i])
        <3> SUFFICES ASSUME place[l] < place[i]
                     PROVE  FALSE
            OBVIOUS
        <3>1. Cardinality(Upto(place[l])) < Cardinality(Upto(place[i]))
            BY <1>4, <2>1
        <3> QED
            BY <1>16, <2>1, <2>2, <3>1
    <2> QED
        BY <2>2, <2>3, <2>4
<1> QED
    BY <1>1, <1>11, <1>14, <1>15, <1>16 DEF S

-------------------------------------------------------------------------------
(* What the judge says                                                     *)

\* A set of places in a sequence has a last one, if it has any.
LEMMA LastPlace ==
    ASSUME NEW n \in Nat, NEW S \in SUBSET (1 .. n), S # {}
    PROVE  \E x \in S : \A y \in S : y <= x
<1> DEFINE below == {z \in Nat : n - z \in S}
<1>1. PICK z \in below : \A y \in below : z <= y
    <2>1. below \in SUBSET Nat
        OBVIOUS
    <2>2. below # {}
        <3>1. PICK x \in S : TRUE
            OBVIOUS
        <3>2. n - x \in Nat /\ n - (n - x) = x
            OBVIOUS
        <3> QED
            BY <3>1, <3>2
    <2> HIDE DEF below
    <2> QED
        BY <2>1, <2>2, LeastElement
<1>2. ASSUME NEW y \in S
      PROVE  y <= n - z
    <2>1. y \in 1 .. n /\ n - y \in Nat /\ n - (n - y) = y
        OBVIOUS
    <2>2. n - y \in below
        BY <2>1
    <2>3. z <= n - y /\ z \in Nat
        BY <1>1, <2>2
    <2> QED
        BY <2>1, <2>3
<1> QED
    BY <1>1, <1>2

\* What a judge may say: of an id, two scores that may be anything.
IsAnswers(answers) ==
    \E n \in Nat : /\ DOMAIN answers = 1 .. n
                   /\ \A k \in 1 .. n :
                        answers[k].scores \in [Metrics -> Int \cup {NotANumber}]

LEMMA ClampIs ==
    ASSUME NEW value \in Int \cup {NotANumber}
    PROVE  /\ Clamp(value) = NotANumber <=> value = NotANumber
           /\ value # NotANumber => Clamp(value) \in 0 .. One
           /\ value \in 0 .. One => Clamp(value) = value
BY JudgingAssumption DEF Clamp, AtMost, One

\* Each sample the judge was asked about has its verdict, under its own trace; it is made
\* of the last thing the judge said of that id, its scores between nought and one, and it
\* has an error if nothing was said or nothing could be read (_parse_verdicts).
THEOREM VerdictsKeepTheLast ==
    ASSUME NEW answers, IsAnswers(answers), NEW samples, NEW i \in DOMAIN Usable(samples)
    PROVE  LET verdict == Verdicts(answers, samples)[i]
               said == {k \in DOMAIN answers : answers[k].id = i}
           IN  /\ DOMAIN Verdicts(answers, samples) = DOMAIN Usable(samples)
               /\ verdict.trace = Usable(samples)[i].trace
               /\ DOMAIN verdict.scores = {} <=> verdict.error # ""
               /\ said = {} => DOMAIN verdict.scores = {}
               /\ said # {} =>
                    \E k \in said :
                       /\ \A l \in said : l <= k
                       /\ DOMAIN verdict.scores =
                            {m \in Metrics : answers[k].scores[m] # NotANumber}
                       /\ \A m \in DOMAIN verdict.scores :
                            /\ verdict.scores[m] \in 0 .. One
                            /\ answers[k].scores[m] \in 0 .. One =>
                                 verdict.scores[m] = answers[k].scores[m]
<1> DEFINE usable == Usable(samples)
           said == {k \in DOMAIN answers : answers[k].id = i}
           last == CHOOSE k \in said : \A l \in said : l <= k
           graded == [m \in {n \in Metrics : Clamp(answers[last].scores[n]) # NotANumber} |->
                        Clamp(answers[last].scores[m])]
           verdict == Verdicts(answers, samples)[i]
<1>1. DOMAIN Verdicts(answers, samples) = DOMAIN usable
    BY DEF Verdicts
<1>2. verdict = IF said = {}
                THEN [trace |-> usable[i].trace, scores |-> <<>>, error |-> "no result returned"]
                ELSE [trace |-> usable[i].trace, scores |-> graded,
                      error |-> IF DOMAIN graded = {} THEN "no parseable scores" ELSE ""]
    <2> HIDE DEF usable
    <2> QED
        BY DEF Verdicts, usable
<1> HIDE DEF usable, verdict
<1>3. CASE said = {}
    <2>1. DOMAIN <<>> = {}
        OBVIOUS
    <2> HIDE DEF said
    <2>2. /\ verdict.trace = usable[i].trace /\ verdict.scores = <<>>
          /\ verdict.error = "no result returned"
        BY <1>2, <1>3
    <2> QED
        BY <1>1, <1>3, <2>1, <2>2 DEF said, usable, verdict
<1>4. CASE said # {}
    <2>1. PICK n \in Nat : /\ DOMAIN answers = 1 .. n
                           /\ \A k \in 1 .. n :
                                answers[k].scores \in [Metrics -> Int \cup {NotANumber}]
        BY DEF IsAnswers
    <2>2. said \in SUBSET (1 .. n)
        BY <2>1
    <2> HIDE DEF said
    <2>3. \E k \in said : \A l \in said : l <= k
        BY <1>4, <2>2, LastPlace
    <2>4. last \in said /\ \A l \in said : l <= last
        BY <2>3
    <2> HIDE DEF last
    <2>5. \A m \in Metrics : answers[last].scores[m] \in Int \cup {NotANumber}
        BY <2>1, <2>2, <2>4
    <2>6. \A m \in Metrics :
            /\ Clamp(answers[last].scores[m]) = NotANumber <=> answers[last].scores[m] = NotANumber
            /\ answers[last].scores[m] # NotANumber => Clamp(answers[last].scores[m]) \in 0 .. One
            /\ answers[last].scores[m] \in 0 .. One =>
                 Clamp(answers[last].scores[m]) = answers[last].scores[m]
        BY <2>5, ClampIs
    <2>7. DOMAIN graded = {m \in Metrics : answers[last].scores[m] # NotANumber}
        BY <2>6
    <2>8. \A m \in DOMAIN graded :
            /\ graded[m] \in 0 .. One
            /\ answers[last].scores[m] \in 0 .. One => graded[m] = answers[last].scores[m]
        BY <2>6, <2>7
    <2> HIDE DEF graded
    <2>9. /\ verdict.trace = usable[i].trace /\ verdict.scores = graded
          /\ verdict.error = IF DOMAIN graded = {} THEN "no parseable scores" ELSE ""
        BY <1>2, <1>4
    <2> QED
        BY <1>1, <1>4, <2>4, <2>7, <2>8, <2>9 DEF said, usable, verdict
<1> QED
    BY <1>3, <1>4

\* A share of something, in ten-thousandths.
LEMMA Shares ==
    ASSUME NEW n \in Nat \ {0}, NEW x \in 0 .. n
    PROVE  /\ (x * One) \div n \in 0 .. One
           /\ (x * One) \div (n + 1) <= (x * One) \div n
<1> DEFINE y == x * One
           p == y \div n
           q == y \div (n + 1)
<1>1. y \in Nat /\ y <= n * 10000
    BY DEF One
<1> HIDE DEF y
<1>2. p \in Int /\ n * p <= y /\ y < n * p + n
    BY <1>1
<1>3. q \in Int /\ (n + 1) * q <= y /\ y < (n + 1) * q + (n + 1)
    BY <1>1
<1> HIDE DEF p, q
<1>4. p >= 0
    BY <1>1, <1>2
<1>5. p <= 10000
    BY <1>1, <1>2
<1>6. q >= 0
    BY <1>1, <1>3
<1>7. q <= p
    <2> SUFFICES ASSUME ~(q <= p)
                 PROVE  FALSE
        OBVIOUS
    <2> DEFINE e == q - p - 1
    <2>1. e \in Nat /\ q = p + 1 + e
        BY <1>2, <1>3
    <2> HIDE DEF e
    <2>2. n * q = n * p + n + n * e
        BY <1>2, <2>1
    <2>3. n * e >= 0
        BY <2>1
    <2>4. n * q <= y
        BY <1>1, <1>3, <1>6
    <2> QED
        BY <1>1, <1>2, <1>3, <2>2, <2>3, <2>4
<1> QED
    BY <1>2, <1>3, <1>4, <1>5, <1>7 DEF One, y, p, q

\* The scores of the heuristic judge lie between nought and one; an answer of which the
\* contexts say nothing has no faithfulness, or half when there are no contexts, and one
\* more word of which they say nothing never raises it (HeuristicJudge).
THEOREM HeuristicIsFair ==
    ASSUME NEW a, IsFiniteSet(a), a # {}, NEW q, IsFiniteSet(q), NEW c
    PROVE  LET graded == Heuristic(a, q, c)
           IN  /\ graded.faithfulness \in 0 .. One /\ graded.answer_relevancy \in 0 .. One
               /\ a \cap c = {} => graded.faithfulness = IF c = {} THEN One \div 2 ELSE 0
               /\ \A w : w \notin c =>
                    Heuristic(a \cup {w}, q, c).faithfulness <= graded.faithfulness
<1> DEFINE n == Cardinality(a)
           x == Cardinality(a \cap c)
           o == Cardinality(a \cap q)
           wanted == IF q = {} THEN 1 ELSE AtMost(Cardinality(q), 8)
           relevancy == AtMost(One, (o * One) \div wanted)
           faithfulness == IF c = {} THEN One \div 2 ELSE (x * One) \div n
<1>1. n \in Nat \ {0} /\ x \in 0 .. n /\ o \in Nat
    <2>1. n \in Nat /\ n # 0
        BY FS_CardinalityType, FS_EmptySet
    <2>2. \A t : IsFiniteSet(a \cap t) /\ Cardinality(a \cap t) <= n /\ Cardinality(a \cap t) \in Nat
        BY FS_Subset, FS_CardinalityType
    <2> QED
        BY <2>1, <2>2
<1>2. wanted \in Nat \ {0}
    <2>1. Cardinality(q) \in Nat /\ (q # {} => Cardinality(q) # 0)
        BY FS_CardinalityType, FS_EmptySet
    <2> QED
        BY <2>1 DEF AtMost
<1>3. /\ Heuristic(a, q, c).faithfulness = faithfulness
      /\ Heuristic(a, q, c).answer_relevancy = (relevancy * (12 + AtMost(12, n))) \div 24
    BY DEF Heuristic
<1>4. ASSUME NEW w, w \notin c
      PROVE  Heuristic(a \cup {w}, q, c).faithfulness
               = IF c = {} THEN One \div 2
                 ELSE (x * One) \div (IF w \in a THEN n ELSE n + 1)
    <2>1. (a \cup {w}) \cap c = a \cap c /\ a \cup {w} # {}
        BY <1>4
    <2>2. Cardinality(a \cup {w}) = IF w \in a THEN n ELSE n + 1
        BY FS_AddElement
    <2> QED
        BY <2>1, <2>2 DEF Heuristic
<1>5. a \cap c = {} => x = 0
    BY FS_EmptySet
<1> HIDE DEF n, x, o, wanted
<1>6. One \div 2 \in 0 .. One /\ One \in Nat
    BY DEF One
<1>7. /\ (x * One) \div n \in 0 .. One
      /\ (x * One) \div (n + 1) <= (x * One) \div n
    BY <1>1, Shares
<1>8. faithfulness \in 0 .. One
    BY <1>6, <1>7
<1>9. x = 0 => (x * One) \div n = 0
    BY <1>1 DEF One
<1>10. relevancy \in 0 .. One
    <2> DEFINE y == o * One
               d == y \div wanted
    <2>1. y \in Nat
        BY <1>1 DEF One
    <2> HIDE DEF y
    <2>2. d \in Int /\ d >= 0
        BY <1>2, <2>1
    <2>3. relevancy = AtMost(One, d)
        BY DEF y
    <2> HIDE DEF d
    <2> QED
        BY <1>6, <2>2, <2>3 DEF AtMost
<1> HIDE DEF relevancy
<1>11. (relevancy * (12 + AtMost(12, n))) \div 24 \in 0 .. One
    <2> DEFINE f == 12 + AtMost(12, n)
               p == relevancy * f
    <2>1. f \in 12 .. 24
        BY <1>1 DEF AtMost
    <2> HIDE DEF f
    <2>2. p \in Nat /\ p <= 24 * 10000
        <3>1. relevancy \in Nat /\ f \in Nat /\ relevancy <= 10000 /\ f <= 24
            BY <1>10, <2>1 DEF One
        <3>2. p \in Nat
            BY <3>1
        <3>3. relevancy * f <= 10000 * f
            BY <3>1
        <3> QED
            BY <3>1, <3>2, <3>3
    <2>3. (relevancy * (12 + AtMost(12, n))) \div 24 = p \div 24
        BY DEF f
    <2> HIDE DEF p
    <2>4. p \div 24 \in 0 .. 10000
        BY <2>2
    <2>5. 0 .. One = 0 .. 10000
        BY DEF One
    <2> QED
        BY <2>3, <2>4, <2>5
<1>12. ASSUME NEW w, w \notin c
       PROVE  Heuristic(a \cup {w}, q, c).faithfulness <= faithfulness
    <2> DEFINE now_ == (x * One) \div n
               then == (x * One) \div (n + 1)
               half == One \div 2
    <2>1. now_ \in Int /\ then <= now_ /\ half \in Int
        BY <1>6, <1>7
    <2>2. Heuristic(a \cup {w}, q, c).faithfulness
            = IF c = {} THEN half ELSE IF w \in a THEN now_ ELSE then
        BY <1>4, <1>12
    <2>3. faithfulness = IF c = {} THEN half ELSE now_
        OBVIOUS
    <2> HIDE DEF now_, then, half, faithfulness
    <2> QED
        BY <2>1, <2>2, <2>3
<1> QED
    BY <1>3, <1>5, <1>8, <1>9, <1>11, <1>12

-------------------------------------------------------------------------------
(* The answers and the texts of the scene "inputs"                         *)

\* An answer is about the trace that its id stood for.
ItemInv ==
    /\ items \in Seq([id : 1 .. 4, about : 0 .. 3, scores : [Metrics -> Values]])
    /\ \A k \in DOMAIN items :
         items[k].about = IF items[k].id \in {1, 2} THEN items[k].id + 1 ELSE 0

TextInv ==
    texts \in [answer : SUBSET (1 .. 4), question : SUBSET (1 .. 4), context : SUBSET (1 .. 4)]

\* Two of the three traces of the batch are graded.
LEMMA BatchIs ==
    /\ Batch \in Seq(Sample) /\ DOMAIN Batch = {1, 2, 3}
    /\ DOMAIN Usable(Batch) = {1, 2}
    /\ Usable(Batch)[1].trace = 2 /\ Usable(Batch)[1].contexts = Truncated(<<2, 0, 9, 1>>)
    /\ Usable(Batch)[2].trace = 3 /\ Usable(Batch)[2].contexts = Truncated(<<8>>)
<1>1. /\ DOMAIN Batch = {1, 2, 3}
      /\ Batch[1] = [trace |-> 1, question |-> 3, answer |-> 0, contexts |-> <<>>]
      /\ Batch[2] = [trace |-> 2, question |-> 3, answer |-> 4, contexts |-> <<2, 0, 9, 1>>]
      /\ Batch[3] = [trace |-> 3, question |-> 1, answer |-> 4, contexts |-> <<8>>]
    BY DEF Batch
<1>2. /\ Batch \in Seq(Sample)
    <2>1. <<>> \in Seq(Nat) /\ <<2, 0, 9, 1>> \in Seq(Nat) /\ <<8>> \in Seq(Nat)
        OBVIOUS
    <2>2. Batch[1] \in Sample /\ Batch[2] \in Sample /\ Batch[3] \in Sample
        BY <1>1, <2>1 DEF Sample
    <2>3. Batch = <<Batch[1], Batch[2], Batch[3]>>
        BY <1>1 DEF Batch
    <2>4. \A x, y, z \in Sample : <<x, y, z>> \in Seq(Sample)
        OBVIOUS
    <2> QED
        BY <2>2, <2>3, <2>4
<1>3. Asked(Batch) = {2, 3}
    BY <1>1 DEF Asked
<1>4. Cardinality(Asked(Batch)) = 2
    <2>1. Cardinality({2}) = 1 /\ IsFiniteSet({2})
        BY FS_Singleton
    <2>2. Cardinality({2} \cup {3}) = 2
        BY <2>1, FS_AddElement
    <2>3. {2} \cup {3} = {2, 3}
        OBVIOUS
    <2> QED
        BY <1>3, <2>2, <2>3
<1>5. PICK place \in [1 .. 2 -> {2, 3}] :
        /\ Usable(Batch) = [i \in 1 .. 2 |->
              [Batch[place[i]] EXCEPT !.contexts = Truncated(@)]]
        /\ \A i, l \in DOMAIN place : i < l => place[i] < place[l]
    BY <1>2, <1>3, <1>4, UsableInOrder
<1>6. place[1] = 2 /\ place[2] = 3
    <2>1. place[1] \in {2, 3} /\ place[2] \in {2, 3} /\ place[1] < place[2]
        BY <1>5
    <2> QED
        BY <2>1
<1>7. /\ Usable(Batch)[1] = [Batch[2] EXCEPT !.contexts = Truncated(@)]
      /\ Usable(Batch)[2] = [Batch[3] EXCEPT !.contexts = Truncated(@)]
      /\ DOMAIN Usable(Batch) = 1 .. 2
    BY <1>5, <1>6
<1>8. 1 .. 2 = {1, 2}
    OBVIOUS
<1> QED
    BY <1>1, <1>2, <1>7, <1>8

LEMMA AnswersOfItems ==
    ASSUME ItemInv
    PROVE  /\ IsAnswers(items)
           /\ \A i \in {1, 2} : {k \in DOMAIN items : items[k].about = i + 1}
                                  = {k \in DOMAIN items : items[k].id = i}
<1>1. Len(items) \in Nat /\ DOMAIN items = 1 .. Len(items)
    BY LenProperties DEF ItemInv
<1>2. \A k \in DOMAIN items : items[k] \in [id : 1 .. 4, about : 0 .. 3, scores : [Metrics -> Values]]
    BY <1>1, ElementOfSeq DEF ItemInv
<1>3. Values \subseteq Int \cup {NotANumber}
    BY DEF Values
<1>4. \A k \in DOMAIN items : items[k].scores \in [Metrics -> Int \cup {NotANumber}]
    BY <1>2, <1>3
<1>5. ASSUME NEW i \in {1, 2}, NEW k \in DOMAIN items
      PROVE  items[k].about = i + 1 <=> items[k].id = i
    <2>1. items[k].id \in 1 .. 4
        BY <1>2
    <2> QED
        BY <2>1 DEF ItemInv
<1> QED
    BY <1>1, <1>4, <1>5 DEF IsAnswers

\* The contexts of the batch are longer than the budget.
LEMMA BatchFillsBudget ==
    ASSUME NEW i \in {1, 2}
    PROVE  LET contexts == Usable(Batch)[i].contexts
           IN  RunningSum(contexts)[Len(contexts)] = MaxContextChars
<1>1. MaxContextChars \in 1 .. 8
    BY PartsAssumption
<1>2. ASSUME NEW given \in Seq(Nat), RunningSum(given)[Len(given)] >= 8
      PROVE  RunningSum(Truncated(given))[Len(Truncated(given))] = MaxContextChars
    <2> DEFINE whole == RunningSum(given)[Len(given)]
    <2>1. Truncated(given) \in Seq(Nat)
        BY TruncatedIsContexts
    <2>2. Running(given, RunningSum(given)) /\ Running(Truncated(given), RunningSum(Truncated(given)))
        BY <2>1, SumRuns
    <2>3. RunningSum(Truncated(given))[Len(Truncated(given))] = AtMost(whole, MaxContextChars)
        BY <2>2, ContextsFillBudget
    <2>4. whole \in Nat
        BY <2>2, LenProperties DEF Running
    <2> HIDE DEF whole
    <2> QED
        BY <1>1, <1>2, <2>3, <2>4 DEF AtMost, whole
<1>3. CASE i = 1
    <2> DEFINE given == <<2, 0, 9, 1>>
               f == RunningSum(given)
    <2>1. given \in Seq(Nat) /\ Len(given) = 4
        OBVIOUS
    <2>2. Running(given, f)
        BY <2>1, SumRuns
    <2>3. /\ f[0] = 0
          /\ f[1] = f[0] + given[1] /\ f[2] = f[1] + given[2]
          /\ f[3] = f[2] + given[3] /\ f[4] = f[3] + given[4]
        <3>1. /\ 1 \in 1 .. 4 /\ 2 \in 1 .. 4 /\ 3 \in 1 .. 4 /\ 4 \in 1 .. 4
              /\ 1 - 1 = 0 /\ 2 - 1 = 1 /\ 3 - 1 = 2 /\ 4 - 1 = 3
            OBVIOUS
        <3> HIDE DEF given, f
        <3> QED
            BY <2>1, <2>2, <3>1 DEF Running
    <2>4. given[1] = 2 /\ given[2] = 0 /\ given[3] = 9 /\ given[4] = 1
        OBVIOUS
    <2> HIDE DEF f
    <2>5. f[4] = 12
        <3> HIDE DEF given
        <3> QED
            BY <2>3, <2>4
    <2>6. Usable(Batch)[i].contexts = Truncated(given)
        BY <1>3, BatchIs
    <2> HIDE DEF given, f
    <2>7. f[Len(given)] >= 8
        BY <2>1, <2>5
    <2>8. RunningSum(Truncated(given))[Len(Truncated(given))] = MaxContextChars
        BY <1>2, <2>1, <2>7 DEF f
    <2> QED
        BY <2>6, <2>8
<1>4. CASE i = 2
    <2> DEFINE given == <<8>>
               f == RunningSum(given)
    <2>1. given \in Seq(Nat) /\ Len(given) = 1 /\ given[1] = 8
        OBVIOUS
    <2>2. Running(given, f)
        BY <2>1, SumRuns
    <2>3. f[1] = 8
        <3>1. 1 \in 1 .. 1 /\ 1 - 1 = 0
            OBVIOUS
        <3> HIDE DEF given, f
        <3>2. f[0] = 0 /\ f[1] = f[0] + given[1]
            BY <2>1, <2>2, <3>1 DEF Running
        <3> QED
            BY <2>1, <3>2
    <2>4. Usable(Batch)[i].contexts = Truncated(given)
        BY <1>4, BatchIs
    <2> HIDE DEF given, f
    <2>5. f[Len(given)] >= 8
        BY <2>1, <2>3
    <2>6. RunningSum(Truncated(given))[Len(Truncated(given))] = MaxContextChars
        BY <1>2, <2>1, <2>5 DEF f
    <2> QED
        BY <2>4, <2>6
<1> QED
    BY <1>3, <1>4

LEMMA NextItems == ItemInv /\ [Next]_vars => ItemInv'
<1> SUFFICES ASSUME ItemInv, [Next]_vars
             PROVE  ItemInv'
    OBVIOUS
<1> DEFINE Item == [id : 1 .. 4, about : 0 .. 3, scores : [Metrics -> Values]]
<1>1. CASE NextItem
    <2>1. PICK id \in 1 .. 4, f \in Values, r \in Values :
            items' = Append(items, [id |-> id,
                    about |-> IF id \in DOMAIN PromptIds(Batch) THEN PromptIds(Batch)[id] ELSE 0,
                    scores |-> [faithfulness |-> f, answer_relevancy |-> r]])
        BY <1>1 DEF NextItem
    <2> DEFINE about == IF id \in {1, 2} THEN id + 1 ELSE 0
               said == [faithfulness |-> f, answer_relevancy |-> r]
               new == [id |-> id, about |-> about, scores |-> said]
    <2>2. (IF id \in DOMAIN PromptIds(Batch) THEN PromptIds(Batch)[id] ELSE 0) = about
        <3>1. /\ DOMAIN PromptIds(Batch) = {1, 2}
              /\ PromptIds(Batch)[1] = 2 /\ PromptIds(Batch)[2] = 3
            BY BatchIs DEF PromptIds
        <3> QED
            BY <3>1
    <2>3. about \in 0 .. 3
        OBVIOUS
    <2>4. said \in [Metrics -> Values]
        BY DEF Metrics
    <2> HIDE DEF said, about
    <2>5. new \in Item
        BY <2>3, <2>4
    <2>6. items' = Append(items, new)
        BY <2>1, <2>2 DEF said
    <2>7. new.about = IF new.id \in {1, 2} THEN new.id + 1 ELSE 0
        BY DEF about
    <2> HIDE DEF new
    <2> DEFINE n == Len(items)
    <2>8. items \in Seq(Item) /\ n \in Nat /\ DOMAIN items = 1 .. n
        BY LenProperties DEF ItemInv
    <2> HIDE DEF Item
    <2>9. /\ Append(items, new) \in Seq(Item) /\ Len(Append(items, new)) = n + 1
          /\ Append(items, new)[n + 1] = new
          /\ \A k \in 1 .. n : Append(items, new)[k] = items[k]
        BY <2>5, <2>8, AppendProperties
    <2>10. DOMAIN items' = 1 .. n + 1
        BY <2>6, <2>8, <2>9, LenProperties
    <2>11. ASSUME NEW k \in DOMAIN items'
           PROVE  items'[k].about = IF items'[k].id \in {1, 2} THEN items'[k].id + 1 ELSE 0
        <3>1. CASE k = n + 1
            BY <2>6, <2>7, <2>9, <3>1
        <3>2. CASE k # n + 1
            <4>1. k \in DOMAIN items
                BY <2>8, <2>10, <3>2
            <4>2. items'[k] = items[k]
                BY <2>6, <2>8, <2>9, <4>1
            <4> QED
                BY <4>1, <4>2 DEF ItemInv
        <3> QED
            BY <3>1, <3>2
    <2> QED
        BY <2>6, <2>9, <2>11 DEF ItemInv, Item
<1>2. CASE items' = items
    BY <1>2 DEF ItemInv
<1>3. [Next]_vars => NextItem \/ items' = items
    BY DEF Next, vars, inputs, NextDigit, NextField, NextPlace, NextNamer, NextWord, NextSpan
<1> QED
    BY <1>1, <1>2, <1>3

LEMMA NextTexts == TextInv /\ [Next]_vars => TextInv'
<1> SUFFICES ASSUME TextInv, [Next]_vars
             PROVE  TextInv'
    OBVIOUS
<1>1. CASE NextWord
    <2>1. PICK t \in DOMAIN texts : \E w \in 1 .. 4 \ texts[t] :
            texts' = [texts EXCEPT ![t] = @ \cup {w}]
        BY <1>1 DEF NextWord
    <2>2. PICK w \in 1 .. 4 \ texts[t] : texts' = [texts EXCEPT ![t] = @ \cup {w}]
        BY <2>1
    <2>3. t \in {"answer", "question", "context"}
        BY DEF TextInv
    <2> QED
        BY <2>2, <2>3 DEF TextInv
<1>2. CASE texts' = texts
    BY <1>2 DEF TextInv
<1>3. [Next]_vars => NextWord \/ texts' = texts
    BY DEF Next, vars, inputs, NextDigit, NextItem, NextField, NextPlace, NextNamer, NextSpan
<1> QED
    BY <1>1, <1>2, <1>3

LEMMA VerdictsOfScene == ItemInv /\ TextInv => VerdictsFindTheirTrace
<1> SUFFICES ASSUME ItemInv, TextInv
             PROVE  VerdictsFindTheirTrace
    OBVIOUS
<1> DEFINE verdicts == Verdicts(items, Batch)
           said(t) == {k \in DOMAIN items : items[k].about = t}
           usable == Usable(Batch)
<1>1. /\ DOMAIN Batch = {1, 2, 3} /\ DOMAIN usable = {1, 2}
      /\ usable[1].trace = 2 /\ usable[2].trace = 3
    BY BatchIs
<1>2. /\ IsAnswers(items)
      /\ \A i \in {1, 2} : said(i + 1) = {k \in DOMAIN items : items[k].id = i}
    BY AnswersOfItems
<1>3. ASSUME NEW i \in {1, 2}
      PROVE  /\ DOMAIN verdicts = {1, 2}
             /\ verdicts[i].trace = i + 1
             /\ said(i + 1) = {} => verdicts[i].error # ""
             /\ \A m \in DOMAIN verdicts[i].scores :
                  \E k \in said(i + 1) :
                     /\ \A l \in said(i + 1) : l <= k
                     /\ items[k].scores[m] # NotANumber
                     /\ verdicts[i].scores[m] \in 0 .. One
                     /\ items[k].scores[m] \in 0 .. One =>
                          verdicts[i].scores[m] = items[k].scores[m]
    <2> DEFINE here == {k \in DOMAIN items : items[k].id = i}
               verdict == verdicts[i]
    <2>1. i \in DOMAIN usable /\ usable[i].trace = i + 1
        BY <1>1
    <2>2. /\ DOMAIN verdicts = DOMAIN usable
          /\ verdict.trace = usable[i].trace
          /\ DOMAIN verdict.scores = {} <=> verdict.error # ""
          /\ here = {} => DOMAIN verdict.scores = {}
          /\ here # {} =>
               \E k \in here :
                  /\ \A l \in here : l <= k
                  /\ DOMAIN verdict.scores = {m \in Metrics : items[k].scores[m] # NotANumber}
                  /\ \A m \in DOMAIN verdict.scores :
                       /\ verdict.scores[m] \in 0 .. One
                       /\ items[k].scores[m] \in 0 .. One =>
                            verdict.scores[m] = items[k].scores[m]
        BY <1>2, <2>1, VerdictsKeepTheLast
    <2>3. said(i + 1) = here
        BY <1>2
    <2> HIDE DEF said, here, verdicts, usable
    <2>4. ASSUME NEW m \in DOMAIN verdict.scores
          PROVE  \E k \in here :
                     /\ \A l \in here : l <= k
                     /\ items[k].scores[m] # NotANumber
                     /\ verdict.scores[m] \in 0 .. One
                     /\ items[k].scores[m] \in 0 .. One =>
                          verdict.scores[m] = items[k].scores[m]
        BY <2>2
    <2> QED
        BY <1>1, <2>1, <2>2, <2>3, <2>4
<1>4. ASSUME NEW i \in {1, 2}, NEW m \in DOMAIN verdicts[i].scores
      PROVE  LET last == CHOOSE k \in said(verdicts[i].trace) :
                           \A l \in said(verdicts[i].trace) : l <= k
                 value == items[last].scores[m]
             IN  /\ value # NotANumber
                 /\ verdicts[i].scores[m] \in 0 .. One
                 /\ value \in 0 .. One => verdicts[i].scores[m] = value
    <2> DEFINE here == said(i + 1)
               last == CHOOSE k \in here : \A l \in here : l <= k
    <2>1. verdicts[i].trace = i + 1
        BY <1>3
    <2>2. PICK k \in here :
             /\ \A l \in here : l <= k
             /\ items[k].scores[m] # NotANumber
             /\ verdicts[i].scores[m] \in 0 .. One
             /\ items[k].scores[m] \in 0 .. One => verdicts[i].scores[m] = items[k].scores[m]
        BY <1>3, <1>4
    <2>3. \A j \in here : j \in Nat
        <3>1. DOMAIN items \subseteq Nat
            BY <1>2 DEF IsAnswers
        <3> QED
            BY <3>1
    <2> HIDE DEF said, here, verdicts
    <2>4. last \in here /\ \A l \in here : l <= last
        BY <2>2
    <2> HIDE DEF last
    <2>5. last = k
        BY <2>2, <2>3, <2>4
    <2> QED
        BY <2>1, <2>2, <2>5 DEF last, here
<1>5. ASSUME NEW j \in {1, 2, 3}
      PROVE  Cardinality({i \in DOMAIN verdicts : verdicts[i].trace = Batch[j].trace})
               = IF Batch[j].answer > 0 THEN 1 ELSE 0
    <2>1. /\ DOMAIN verdicts = {1, 2}
          /\ verdicts[1].trace = 2 /\ verdicts[2].trace = 3
        <3> HIDE DEF verdicts, said
        <3>1. 1 \in {1, 2} /\ 2 \in {1, 2} /\ 1 + 1 = 2 /\ 2 + 1 = 3
            OBVIOUS
        <3> QED
            BY <1>3, <3>1
    <2> HIDE DEF verdicts
    <2>2. /\ Batch[j].trace = j /\ (Batch[j].answer > 0 <=> j # 1)
        BY DEF Batch
    <2>3. CASE j = 1
        <3>1. {i \in DOMAIN verdicts : verdicts[i].trace = Batch[j].trace} = {}
            BY <2>1, <2>2, <2>3
        <3> QED
            BY <2>2, <2>3, <3>1, FS_EmptySet
    <2>4. CASE j # 1
        <3>1. {i \in DOMAIN verdicts : verdicts[i].trace = Batch[j].trace} = {j - 1}
            BY <2>1, <2>2, <2>4
        <3> QED
            BY <2>2, <2>4, <3>1, FS_Singleton
    <2> QED
        BY <2>3, <2>4
<1>6. ASSUME NEW i \in DOMAIN usable
      PROVE  LET sum[n \in 0 .. Len(usable[i].contexts)] ==
                   IF n = 0 THEN 0 ELSE sum[n - 1] + usable[i].contexts[n]
             IN  sum[Len(usable[i].contexts)] = MaxContextChars
    <2>1. RunningSum(usable[i].contexts)[Len(usable[i].contexts)] = MaxContextChars
        BY <1>1, BatchFillsBudget
    <2> HIDE DEF usable
    <2> QED
        BY <2>1 DEF RunningSum
<1>7. ASSUME texts.answer # {}
      PROVE  LET graded == Heuristic(texts.answer, texts.question, texts.context)
             IN  /\ {graded.faithfulness, graded.answer_relevancy} \subseteq 0 .. One
                 /\ texts.answer \cap texts.context = {} =>
                      graded.faithfulness = IF texts.context = {} THEN One \div 2 ELSE 0
                 /\ \A w \in 1 .. 4 \ texts.context :
                      Heuristic(texts.answer \cup {w}, texts.question, texts.context).faithfulness
                        <= graded.faithfulness
    <2>1. IsFiniteSet(1 .. 4)
        <3>1. \A n \in Nat : IsFiniteSet(1 .. n)
            BY FS_Interval
        <3> QED
            BY <3>1
    <2>2. IsFiniteSet(texts.answer) /\ IsFiniteSet(texts.question)
        BY <2>1, FS_Subset DEF TextInv
    <2> DEFINE a == texts.answer
               q == texts.question
               c == texts.context
               graded == Heuristic(a, q, c)
    <2> HIDE DEF a, q, c
    <2>3. /\ graded.faithfulness \in 0 .. One /\ graded.answer_relevancy \in 0 .. One
          /\ a \cap c = {} => graded.faithfulness = IF c = {} THEN One \div 2 ELSE 0
          /\ \A w : w \notin c =>
               Heuristic(a \cup {w}, q, c).faithfulness <= graded.faithfulness
        BY <1>7, <2>2, HeuristicIsFair DEF a, q
    <2> HIDE DEF graded
    <2>4. /\ {graded.faithfulness, graded.answer_relevancy} \subseteq 0 .. One
          /\ a \cap c = {} => graded.faithfulness = IF c = {} THEN One \div 2 ELSE 0
          /\ \A w \in 1 .. 4 \ c :
               Heuristic(a \cup {w}, q, c).faithfulness <= graded.faithfulness
        BY <2>3
    <2> QED
        BY <2>4 DEF a, q, c, graded
<1>8. ASSUME NEW i \in DOMAIN verdicts
      PROVE  /\ said(verdicts[i].trace) = {} => verdicts[i].error # ""
             /\ \A m \in DOMAIN verdicts[i].scores :
                  LET last == CHOOSE k \in said(verdicts[i].trace) :
                                \A l \in said(verdicts[i].trace) : l <= k
                      value == items[last].scores[m]
                  IN  /\ value # NotANumber
                      /\ verdicts[i].scores[m] \in 0 .. One
                      /\ value \in 0 .. One => verdicts[i].scores[m] = value
    <2>1. i \in {1, 2}
        BY <1>3
    <2>2. said(verdicts[i].trace) = {} => verdicts[i].error # ""
        <3> HIDE DEF said, verdicts
        <3> QED
            BY <1>3, <2>1
    <2> QED
        BY <1>4, <2>1, <2>2
<1>9. \A s \in {Batch[j] : j \in DOMAIN Batch} :
        Cardinality({i \in DOMAIN verdicts : verdicts[i].trace = s.trace})
          = IF s.answer > 0 THEN 1 ELSE 0
    BY <1>1, <1>5
<1> QED
    BY <1>6, <1>7, <1>8, <1>9 DEF VerdictsFindTheirTrace

\* Whatever the judge of the scene answers, in whatever order and as often as it likes:
\* each trace that could be graded has one verdict, made of the last thing said of it.
THEOREM VerdictsFound == Spec => []VerdictsFindTheirTrace
<1>1. Init => ItemInv /\ TextInv
    <2> SUFFICES ASSUME Init
                 PROVE  ItemInv /\ TextInv
        OBVIOUS
    <2>1. items = <<>> /\ texts = NoTexts
        BY DEF Init
    <2>2. <<>> \in Seq([id : 1 .. 4, about : 0 .. 3, scores : [Metrics -> Values]])
          /\ DOMAIN <<>> = {}
        OBVIOUS
    <2>3. ItemInv
        BY <2>1, <2>2 DEF ItemInv
    <2>4. TextInv
        BY <2>1 DEF TextInv, NoTexts
    <2> QED
        BY <2>3, <2>4
<1>2. Spec => [](ItemInv /\ TextInv)
    <2>1. ItemInv /\ TextInv /\ [Next]_vars => (ItemInv /\ TextInv)'
        BY NextItems, NextTexts
    <2> QED
        BY <1>1, <2>1, PTL DEF Spec
<1> QED
    BY <1>2, VerdictsOfScene, PTL

-------------------------------------------------------------------------------
(* The call tree                                                           *)

\* The spans of a trace: each names a parent, and when it started.
SpanInv ==
    /\ DOMAIN spans \subseteq SpanIds
    /\ \A a \in DOMAIN spans :
          spans[a].parent \in SpanIds \cup {Top} /\ spans[a].started \in Int \cup {Unset}

\* Siblings have an order: none comes before itself, and of two one comes first.
LEMMA SoonerOrders ==
    ASSUME SpanInv
    PROVE  /\ \A a \in DOMAIN spans : ~Sooner(spans, a, a)
           /\ \A a, b, c \in DOMAIN spans :
                 Sooner(spans, a, b) /\ Sooner(spans, b, c) => Sooner(spans, a, c)
           /\ \A a, b \in DOMAIN spans :
                 a = b \/ Sooner(spans, a, b) \/ Sooner(spans, b, a)
<1>1. \A a \in DOMAIN spans : a \in Nat /\ (spans[a].started \in Int \/ spans[a].started = Unset)
    BY PartsAssumption DEF SpanInv
<1>2. Unset \notin Int
    BY PartsAssumption
<1>3. ASSUME NEW a \in DOMAIN spans, NEW b \in DOMAIN spans, NEW c \in DOMAIN spans,
             Sooner(spans, a, b), Sooner(spans, b, c)
      PROVE  Sooner(spans, a, c)
    <2> DEFINE s == spans[a].started
               t == spans[b].started
               u == spans[c].started
    <2>1. /\ IF s = t THEN a < b ELSE t = Unset \/ (s # Unset /\ s < t)
          /\ IF t = u THEN b < c ELSE u = Unset \/ (t # Unset /\ t < u)
        BY <1>3 DEF Sooner
    <2>2. Sooner(spans, a, c) <=> IF s = u THEN a < c ELSE u = Unset \/ (s # Unset /\ s < u)
        BY DEF Sooner
    <2>3. /\ a \in Nat /\ b \in Nat /\ c \in Nat
          /\ (s \in Int \/ s = Unset) /\ (t \in Int \/ t = Unset) /\ (u \in Int \/ u = Unset)
        BY <1>1
    <2> HIDE DEF s, t, u
    <2> QED
        BY <1>2, <2>1, <2>2, <2>3
<1>4. ASSUME NEW a \in DOMAIN spans, NEW b \in DOMAIN spans
      PROVE  a = b \/ Sooner(spans, a, b) \/ Sooner(spans, b, a)
    <2> DEFINE s == spans[a].started
               t == spans[b].started
    <2>1. /\ Sooner(spans, a, b) <=> IF s = t THEN a < b ELSE t = Unset \/ (s # Unset /\ s < t)
          /\ Sooner(spans, b, a) <=> IF t = s THEN b < a ELSE s = Unset \/ (t # Unset /\ t < s)
        BY DEF Sooner
    <2>2. a \in Nat /\ b \in Nat /\ (s \in Int \/ s = Unset) /\ (t \in Int \/ t = Unset)
        BY <1>1
    <2> HIDE DEF s, t
    <2> QED
        BY <1>2, <2>1, <2>2
<1>5. \A a \in DOMAIN spans : ~Sooner(spans, a, a)
    BY <1>1 DEF Sooner
<1> QED
    BY <1>3, <1>4, <1>5

LEMMA SpansAreFinite ==
    ASSUME SpanInv, NEW S \in SUBSET DOMAIN spans
    PROVE  IsFiniteSet(S) /\ Cardinality(S) \in Nat
<1>1. S \in SUBSET SpanIds /\ IsFiniteSet(SpanIds)
    BY PartsAssumption DEF SpanInv
<1>2. IsFiniteSet(S)
    BY <1>1, FS_Subset
<1> QED
    BY <1>2, FS_CardinalityType

\* InTime has each of the spans once, in their order.
LEMMA InTimeOrders ==
    ASSUME SpanInv, NEW S \in SUBSET DOMAIN spans
    PROVE  LET order == InTime(spans, S)
           IN  /\ Cardinality(S) \in Nat
               /\ order \in [1 .. Cardinality(S) -> S]
               /\ \A a \in S : \E n \in 1 .. Cardinality(S) : order[n] = a
               /\ \A m, n \in 1 .. Cardinality(S) : m < n => Sooner(spans, order[m], order[n])
<1> DEFINE size == Cardinality(S)
           Lower(a) == {b \in S : Sooner(spans, b, a)}
           rank == [a \in S |-> Cardinality(Lower(a)) + 1]
           pick(n) == CHOOSE a \in S : Cardinality(Lower(a)) = n - 1
           order == InTime(spans, S)
<1>1. IsFiniteSet(S) /\ size \in Nat
    BY SpansAreFinite
<1>2. /\ \A a \in S : ~Sooner(spans, a, a)
      /\ \A a, b, c \in S : Sooner(spans, a, b) /\ Sooner(spans, b, c) => Sooner(spans, a, c)
      /\ \A a, b \in S : a = b \/ Sooner(spans, a, b) \/ Sooner(spans, b, a)
    BY SoonerOrders
<1>3. ASSUME NEW a \in S
      PROVE  IsFiniteSet(Lower(a)) /\ Cardinality(Lower(a)) \in 0 .. size - 1
    <2>1. Lower(a) \in SUBSET S /\ a \notin Lower(a)
        BY <1>2
    <2>2. IsFiniteSet(Lower(a)) /\ Cardinality(Lower(a)) <= size /\ Cardinality(Lower(a)) # size
        BY <1>1, <2>1, FS_Subset
    <2> QED
        BY <1>1, <2>2, FS_CardinalityType
<1>4. ASSUME NEW a \in S, NEW b \in S, Sooner(spans, a, b)
      PROVE  Cardinality(Lower(a)) < Cardinality(Lower(b))
    <2>1. Lower(a) \in SUBSET Lower(b) /\ a \in Lower(b) /\ a \notin Lower(a)
        BY <1>2, <1>4
    <2>2. Cardinality(Lower(a)) <= Cardinality(Lower(b)) /\ Cardinality(Lower(a)) # Cardinality(Lower(b))
        BY <1>3, <2>1, FS_Subset
    <2> HIDE DEF Lower
    <2> QED
        BY <1>1, <1>3, <2>2
<1>5. order = [n \in 1 .. size |-> pick(n)]
    BY DEF InTime
<1> HIDE DEF Lower
<1>6. ASSUME NEW a \in S, NEW b \in S, Cardinality(Lower(a)) = Cardinality(Lower(b))
      PROVE  a = b
    <2>1. Cardinality(Lower(a)) \in Nat
        BY <1>1, <1>3
    <2>2. ~Sooner(spans, a, b) /\ ~Sooner(spans, b, a)
        BY <1>4, <1>6, <2>1
    <2> QED
        BY <1>2, <2>2
<1>7. rank \in [S -> 1 .. size]
    BY <1>1, <1>3
<1>8. rank \in Injection(S, 1 .. size)
    <2>1. \A a, b \in DOMAIN rank : rank[a] = rank[b] => a = b
        BY <1>3, <1>6
    <2> HIDE DEF rank
    <2> QED
        BY <1>7, <2>1 DEF Injection, IsInjective
<1>9. IsFiniteSet(1 .. size) /\ Cardinality(1 .. size) = size
    BY <1>1, FS_Interval
<1>10. \A n \in 1 .. size : \E a \in S : rank[a] = n
    <2> HIDE DEF rank
    <2>1. rank \in Surjection(S, 1 .. size)
        BY <1>1, <1>8, <1>9, FS_Injection
    <2> QED
        BY <2>1 DEF Surjection
<1>11. ASSUME NEW n \in 1 .. size
       PROVE  pick(n) \in S /\ Cardinality(Lower(pick(n))) = n - 1
    <2>1. \E a \in S : Cardinality(Lower(a)) = n - 1
        BY <1>3, <1>10
    <2> QED
        BY <2>1
<1>12. order \in [1 .. size -> S] /\ \A n \in 1 .. size : Cardinality(Lower(order[n])) = n - 1
    BY <1>5, <1>11
<1> HIDE DEF order, pick
<1>13. ASSUME NEW a \in S
       PROVE  \E n \in 1 .. size : order[n] = a
    <2> DEFINE n == Cardinality(Lower(a)) + 1
    <2>1. n \in 1 .. size
        BY <1>1, <1>3
    <2>2. order[n] \in S /\ Cardinality(Lower(order[n])) = Cardinality(Lower(a))
        BY <1>3, <1>12, <2>1
    <2>3. order[n] = a
        BY <1>6, <2>2
    <2> QED
        BY <2>1, <2>3
<1>14. ASSUME NEW m \in 1 .. size, NEW n \in 1 .. size, m < n
       PROVE  Sooner(spans, order[m], order[n])
    <2>1. order[m] \in S /\ order[n] \in S
        BY <1>12
    <2>2. Cardinality(Lower(order[m])) = m - 1 /\ Cardinality(Lower(order[n])) = n - 1
        BY <1>12
    <2>3. m \in Nat /\ n \in Nat
        BY <1>1
    <2>4. order[m] # order[n]
        BY <1>14, <2>2, <2>3
    <2>5. ~Sooner(spans, order[n], order[m])
        <3> SUFFICES ASSUME Sooner(spans, order[n], order[m])
                     PROVE  FALSE
            OBVIOUS
        <3>1. Cardinality(Lower(order[n])) < Cardinality(Lower(order[m]))
            BY <1>4, <2>1
        <3> QED
            BY <1>14, <2>2, <2>3, <3>1
    <2> QED
        BY <1>2, <2>1, <2>4, <2>5
<1> QED
    BY <1>1, <1>12, <1>13, <1>14 DEF order

ShownItem == [span : DOMAIN spans, depth : Nat]

\* What is shown after n calls of walk: a span is there when it is at the top or its parent
\* was among the first n; it is right below its parent, and siblings are in their order.
Shows(w, n) ==
    /\ w \in Seq(ShownItem)
    /\ \A i, j \in 1 .. Len(w) : i < j => w[i].span # w[j].span
    /\ \A a \in DOMAIN spans :
          (\E i \in 1 .. Len(w) : w[i].span = a) <=>
             \/ ParentOf(spans, a) = Top
             \/ \E i \in 1 .. Len(w) : i <= n /\ w[i].span = ParentOf(spans, a)
    /\ \A i \in 1 .. Len(w) :
          \/ w[i].depth = 0 /\ ParentOf(spans, w[i].span) = Top
          \/ \E j \in 1 .. Len(w) :
                /\ j < i /\ w[j].span = ParentOf(spans, w[i].span)
                /\ w[i].depth = w[j].depth + 1
                /\ \A k \in 1 .. Len(w) : j < k /\ k < i => w[k].depth >= w[i].depth
    /\ \A i, j \in 1 .. Len(w) :
          i < j /\ ParentOf(spans, w[i].span) = ParentOf(spans, w[j].span) =>
             Sooner(spans, w[i].span, w[j].span)

\* The items that a call of walk puts in.
LEMMA KidsShown ==
    ASSUME SpanInv, NEW p \in DOMAIN spans \cup {Top}, NEW d \in Nat
    PROVE  LET kids == AtDepth(d, ChildrenOf(spans, p))
           IN  /\ kids \in Seq(ShownItem)
               /\ \A i \in 1 .. Len(kids) :
                     kids[i].depth = d /\ ParentOf(spans, kids[i].span) = p
               /\ \A a \in DOMAIN spans :
                     ParentOf(spans, a) = p => \E i \in 1 .. Len(kids) : kids[i].span = a
               /\ \A i, j \in 1 .. Len(kids) : i < j => Sooner(spans, kids[i].span, kids[j].span)
<1> DEFINE S == {a \in DOMAIN spans : ParentOf(spans, a) = p}
           order == InTime(spans, S)
           size == Cardinality(S)
           kids == AtDepth(d, order)
<1>1. S \in SUBSET DOMAIN spans
    OBVIOUS
<1>2. \A a \in DOMAIN spans : a \in S <=> ParentOf(spans, a) = p
    OBVIOUS
<1>3. ChildrenOf(spans, p) = order
    BY DEF ChildrenOf
<1> HIDE DEF S
<1>4. /\ size \in Nat
      /\ order \in [1 .. size -> S]
      /\ \A a \in S : \E n \in 1 .. size : order[n] = a
      /\ \A m, n \in 1 .. size : m < n => Sooner(spans, order[m], order[n])
    BY <1>1, InTimeOrders
<1> HIDE DEF order, size
<1>5. kids = [i \in 1 .. size |-> [span |-> order[i], depth |-> d]]
    BY <1>4 DEF AtDepth
<1>6. kids \in [1 .. size -> ShownItem]
    BY <1>1, <1>4, <1>5 DEF ShownItem
<1>7. kids \in Seq(ShownItem) /\ Len(kids) = size
    BY <1>4, <1>6, LenProperties
<1>8. \A i \in 1 .. size : kids[i].span = order[i] /\ kids[i].depth = d /\ order[i] \in S
    BY <1>4, <1>5
<1> HIDE DEF kids
<1>9. \A i \in 1 .. Len(kids) : kids[i].depth = d /\ ParentOf(spans, kids[i].span) = p
    BY <1>1, <1>2, <1>7, <1>8
<1>10. \A a \in DOMAIN spans :
          ParentOf(spans, a) = p => \E i \in 1 .. Len(kids) : kids[i].span = a
    BY <1>2, <1>4, <1>7, <1>8
<1>11. \A i, j \in 1 .. Len(kids) : i < j => Sooner(spans, kids[i].span, kids[j].span)
    BY <1>4, <1>7, <1>8
<1> QED
    BY <1>3, <1>7, <1>9, <1>10, <1>11 DEF kids

\* A sequence with another put in behind its n-th element.
PutIn(w, n, kids) == SubSeq(w, 1, n) \o kids \o SubSeq(w, n + 1, Len(w))

HasIn(v, w, n, kids, S) ==
    /\ v \in Seq(S) /\ Len(v) = Len(w) + Len(kids)
    /\ \A i \in 1 .. n : v[i] = w[i]
    /\ \A i \in 1 .. Len(kids) : v[n + i] = kids[i]
    /\ \A i \in n + 1 .. Len(w) : v[i + Len(kids)] = w[i]

LEMMA PuttingIn ==
    ASSUME NEW S, NEW w \in Seq(S), NEW kids \in Seq(S), NEW n \in 1 .. Len(w)
    PROVE  HasIn(PutIn(w, n, kids), w, n, kids, S)
<1> DEFINE a == SubSeq(w, 1, n)
           b == SubSeq(w, n + 1, Len(w))
           ak == a \o kids
           v == PutIn(w, n, kids)
<1>0. v = ak \o b
    BY DEF PutIn
<1>1. Len(w) \in Nat /\ Len(kids) \in Nat
    BY LenProperties
<1>2. a \in Seq(S) /\ Len(a) = n /\ \A i \in 1 .. n : a[i] = w[i]
    BY <1>1, SubSeqProperties
<1>3. /\ b \in Seq(S) /\ Len(b) = Len(w) - n
      /\ \A i \in 1 .. Len(w) - n : b[i] = w[n + i]
    <2>1. /\ n + 1 \in 1 .. Len(w) + 1 /\ Len(w) \in n .. Len(w)
          /\ Len(w) - (n + 1) + 1 = Len(w) - n
        BY <1>1
    <2>2. /\ b \in Seq(S)
          /\ Len(b) = IF n + 1 <= Len(w) THEN Len(w) - (n + 1) + 1 ELSE 0
          /\ \A i \in 1 .. Len(w) - (n + 1) + 1 : b[i] = w[(n + 1) + i - 1]
        BY <1>1, <2>1, SubSeqProperties
    <2> HIDE DEF b
    <2>3. Len(b) = Len(w) - n
        <3>1. n \in Nat /\ n <= Len(w) /\ (n + 1 <= Len(w) \/ n = Len(w))
            BY <1>1
        <3>2. CASE n + 1 <= Len(w)
            BY <2>1, <2>2, <3>2
        <3>3. CASE n = Len(w)
            <4>1. ~(n + 1 <= Len(w)) /\ Len(w) - n = 0
                BY <1>1, <3>3
            <4> QED
                BY <2>2, <4>1
        <3> QED
            BY <3>1, <3>2, <3>3
    <2>4. ASSUME NEW i \in 1 .. Len(w) - n
          PROVE  b[i] = w[n + i]
        <3>1. (n + 1) + i - 1 = n + i /\ i \in 1 .. Len(w) - (n + 1) + 1
            BY <1>1
        <3>2. b[i] = w[(n + 1) + i - 1]
            BY <2>2, <3>1
        <3> QED
            BY <3>1, <3>2
    <2> QED
        BY <2>2, <2>3, <2>4
<1> HIDE DEF a, b, v
<1>4. /\ ak \in Seq(S) /\ Len(ak) = n + Len(kids)
      /\ \A i \in 1 .. n + Len(kids) : ak[i] = IF i <= n THEN a[i] ELSE kids[i - n]
    BY <1>1, <1>2, ConcatProperties
<1> HIDE DEF ak
<1>5. /\ v \in Seq(S) /\ Len(v) = Len(w) + Len(kids)
      /\ \A i \in 1 .. Len(w) + Len(kids) :
            v[i] = IF i <= n + Len(kids) THEN ak[i] ELSE b[i - (n + Len(kids))]
    <2>1. Len(ak) + Len(b) = Len(w) + Len(kids)
        BY <1>1, <1>3, <1>4
    <2>2. /\ ak \o b \in Seq(S) /\ Len(ak \o b) = Len(ak) + Len(b)
          /\ \A i \in 1 .. Len(ak) + Len(b) :
                (ak \o b)[i] = IF i <= Len(ak) THEN ak[i] ELSE b[i - Len(ak)]
        BY <1>3, <1>4, ConcatProperties
    <2>3. /\ v \in Seq(S) /\ Len(v) = Len(ak) + Len(b)
          /\ \A i \in 1 .. Len(ak) + Len(b) :
                v[i] = IF i <= Len(ak) THEN ak[i] ELSE b[i - Len(ak)]
        BY <1>0, <2>2, Zenon
    <2> QED
        BY <1>4, <2>1, <2>3
<1>6. ASSUME NEW i \in 1 .. n
      PROVE  v[i] = w[i]
    <2>1. /\ i <= n /\ i <= n + Len(kids) /\ i \in 1 .. n + Len(kids)
          /\ i \in 1 .. Len(w) + Len(kids)
        BY <1>1
    <2> QED
        BY <1>2, <1>4, <1>5, <2>1
<1>7. ASSUME NEW i \in 1 .. Len(kids)
      PROVE  v[n + i] = kids[i]
    <2>1. n + i \in 1 .. n + Len(kids) /\ ~(n + i <= n) /\ (n + i) - n = i
          /\ n + i \in 1 .. Len(w) + Len(kids)
        BY <1>1
    <2> QED
        BY <1>4, <1>5, <2>1
<1>8. ASSUME NEW i \in n + 1 .. Len(w)
      PROVE  v[i + Len(kids)] = w[i]
    <2>1. /\ i + Len(kids) \in 1 .. Len(w) + Len(kids) /\ ~(i + Len(kids) <= n + Len(kids))
          /\ (i + Len(kids)) - (n + Len(kids)) = i - n /\ i - n \in 1 .. Len(w) - n
          /\ n + (i - n) = i
        BY <1>1
    <2> QED
        BY <1>3, <1>5, <2>1
<1> QED
    BY <1>5, <1>6, <1>7, <1>8 DEF v, HasIn

\* The n-th call of walk.
Walked(w, n) ==
    IF n > Len(w) THEN w
    ELSE PutIn(w, n, AtDepth(w[n].depth + 1, ChildrenOf(spans, w[n].span)))

LEMMA ParentIs ==
    ASSUME SpanInv, NEW a \in DOMAIN spans
    PROVE  /\ Top \notin DOMAIN spans
           /\ ParentOf(spans, a) \in DOMAIN spans \cup {Top}
           /\ ParentOf(spans, a) # Top => spans[a].parent = ParentOf(spans, a)
           /\ ParentOf(spans, a) = Top => spans[a].parent \notin DOMAIN spans
BY PartsAssumption DEF SpanInv, ParentOf

LEMMA TopShows ==
    ASSUME SpanInv
    PROVE  Shows(AtDepth(0, ChildrenOf(spans, Top)), 0)
<1> DEFINE w == AtDepth(0, ChildrenOf(spans, Top))
<1>1. /\ w \in Seq(ShownItem)
      /\ \A i \in 1 .. Len(w) : w[i].depth = 0 /\ ParentOf(spans, w[i].span) = Top
      /\ \A a \in DOMAIN spans :
            ParentOf(spans, a) = Top => \E i \in 1 .. Len(w) : w[i].span = a
      /\ \A i, j \in 1 .. Len(w) : i < j => Sooner(spans, w[i].span, w[j].span)
    BY KidsShown
<1> HIDE DEF w
<1>2. \A i \in 1 .. Len(w) : w[i].span \in DOMAIN spans
    <2>1. \A i \in 1 .. Len(w) : w[i] \in ShownItem
        BY <1>1, ElementOfSeq
    <2> QED
        BY <2>1 DEF ShownItem
<1>3. \A a \in DOMAIN spans : ~Sooner(spans, a, a)
    BY SoonerOrders
<1>4. \A i, j \in 1 .. Len(w) : i < j => w[i].span # w[j].span
    BY <1>1, <1>2, <1>3
<1>5. \A i \in 1 .. Len(w) : ~(i <= 0)
    BY <1>1, LenProperties
<1> QED
    BY <1>1, <1>4, <1>5 DEF Shows, w

LEMMA WalkShows ==
    ASSUME SpanInv, NEW n \in Nat \ {0}, NEW w, Shows(w, n - 1)
    PROVE  Shows(Walked(w, n), n)
<1>1. /\ w \in Seq(ShownItem) /\ Len(w) \in Nat
      /\ \A i \in 1 .. Len(w) : w[i] \in ShownItem
    BY LenProperties, ElementOfSeq DEF Shows
<1>2. \A i \in 1 .. Len(w) : w[i].span \in DOMAIN spans /\ w[i].depth \in Nat
    BY <1>1 DEF ShownItem
<1>3. CASE n > Len(w)
    <2>1. Walked(w, n) = w
        BY <1>3 DEF Walked
    <2>2. \A i \in 1 .. Len(w) : i <= n - 1 /\ i <= n
        BY <1>1, <1>3
    <2> QED
        BY <2>1, <2>2 DEF Shows
<1>4. CASE ~(n > Len(w))
    <2> DEFINE p == w[n].span
               d == w[n].depth
               kids == AtDepth(d + 1, ChildrenOf(spans, p))
               K == Len(kids)
               L == Len(w)
               v == Walked(w, n)
               Par(a) == ParentOf(spans, a)
    <2>1. n \in 1 .. L /\ L \in Nat
        BY <1>1, <1>4
    <2>2. p \in DOMAIN spans /\ d \in Nat /\ d + 1 \in Nat
        BY <1>2, <2>1
    <2>3. /\ kids \in Seq(ShownItem)
          /\ \A i \in 1 .. K : kids[i].depth = d + 1 /\ Par(kids[i].span) = p
          /\ \A a \in DOMAIN spans : Par(a) = p => \E i \in 1 .. K : kids[i].span = a
          /\ \A i, j \in 1 .. K : i < j => Sooner(spans, kids[i].span, kids[j].span)
        BY <2>2, KidsShown
    <2>4. v = PutIn(w, n, kids)
        BY <1>4 DEF Walked
    <2> HIDE DEF kids, v
    <2> HIDE DEF K, L
    <2>5. /\ v \in Seq(ShownItem) /\ Len(v) = L + K
          /\ \A i \in 1 .. n : v[i] = w[i]
          /\ \A i \in 1 .. K : v[n + i] = kids[i]
          /\ \A i \in n + 1 .. L : v[i + K] = w[i]
        <3>1. w \in Seq(ShownItem) /\ kids \in Seq(ShownItem) /\ n \in 1 .. Len(w)
            BY <1>1, <2>1, <2>3 DEF L
        <3>2. HasIn(PutIn(w, n, kids), w, n, kids, ShownItem)
            BY <3>1, PuttingIn, Zenon
        <3> QED
            BY <2>4, <3>2 DEF K, L, HasIn
    <2>6. K \in Nat /\ \A i \in 1 .. K : kids[i].span \in DOMAIN spans
        <3>1. K \in Nat /\ \A i \in 1 .. K : kids[i] \in ShownItem
            BY <2>3, LenProperties, ElementOfSeq DEF K
        <3> QED
            BY <3>1 DEF ShownItem
    <2> DEFINE to(i) == IF i <= n THEN i ELSE i + K
    <2>7. \A i \in 1 .. L : to(i) \in 1 .. L + K /\ v[to(i)] = w[i]
        BY <2>1, <2>5, <2>6
    <2>8. \A i \in 1 .. K : n + i \in 1 .. L + K /\ v[n + i] = kids[i]
        BY <2>1, <2>5, <2>6
    <2>9. \A i, j \in 1 .. L : i < j <=> to(i) < to(j)
        BY <2>1, <2>6
    <2>10. \A m \in 1 .. L + K : \/ \E i \in 1 .. L : m = to(i)
                                 \/ \E i \in 1 .. K : m = n + i
        <3> SUFFICES ASSUME NEW m \in 1 .. L + K
                     PROVE  \/ \E i \in 1 .. L : m = to(i)
                            \/ \E i \in 1 .. K : m = n + i
            OBVIOUS
        <3>1. CASE m <= n
            <4>1. m \in 1 .. L /\ m = to(m)
                BY <2>1, <3>1
            <4> QED
                BY <4>1
        <3>2. CASE m > n /\ m <= n + K
            <4>1. m - n \in 1 .. K /\ m = n + (m - n)
                BY <2>1, <2>6, <3>2
            <4> QED
                BY <4>1
        <3>3. CASE m > n + K
            <4>1. m - K \in 1 .. L /\ m = to(m - K)
                BY <2>1, <2>6, <3>3
            <4> QED
                BY <4>1
        <3> QED
            BY <2>1, <2>6, <3>1, <3>2, <3>3
    <2>11. \A i \in 1 .. L, k \in 1 .. K :
              /\ to(i) < n + k <=> i <= n
              /\ n + k < to(i) <=> n < i
        BY <2>1, <2>6
    <2>12. \A k, l \in 1 .. K : n + k < n + l <=> k < l
        BY <2>1, <2>6
    <2>13. \A i \in 1 .. L : i <= n => to(i) = i
        OBVIOUS
    <2> HIDE DEF to
    <2>14. /\ \A i, j \in 1 .. L : i < j => w[i].span # w[j].span
           /\ \A a \in DOMAIN spans :
                 (\E i \in 1 .. L : w[i].span = a) <=>
                    Par(a) = Top \/ \E i \in 1 .. L : i <= n - 1 /\ w[i].span = Par(a)
           /\ \A i \in 1 .. L :
                 \/ w[i].depth = 0 /\ Par(w[i].span) = Top
                 \/ \E j \in 1 .. L :
                       /\ j < i /\ w[j].span = Par(w[i].span)
                       /\ w[i].depth = w[j].depth + 1
                       /\ \A k \in 1 .. L : j < k /\ k < i => w[k].depth >= w[i].depth
           /\ \A i, j \in 1 .. L :
                 i < j /\ Par(w[i].span) = Par(w[j].span) =>
                    Sooner(spans, w[i].span, w[j].span)
        BY DEF Shows, L
    \* What is not among the first n - 1 has no child yet.
    <2>15. \A i, j \in 1 .. L : n <= j => Par(w[i].span) # w[j].span
        <3> SUFFICES ASSUME NEW i \in 1 .. L, NEW j \in 1 .. L, n <= j,
                            Par(w[i].span) = w[j].span
                     PROVE  FALSE
            OBVIOUS
        <3>1. w[i].span \in DOMAIN spans /\ w[j].span \in DOMAIN spans /\ Top \notin DOMAIN spans
            BY <1>2, ParentIs DEF L
        <3>2. PICK m \in 1 .. L : m <= n - 1 /\ w[m].span = w[j].span
            BY <2>14, <3>1
        <3>3. m < j
            BY <2>1, <3>2
        <3> QED
            BY <2>14, <3>2, <3>3
    <2>16. ASSUME NEW i \in 1 .. L, NEW k \in 1 .. K
           PROVE  w[i].span # kids[k].span /\ Par(w[i].span) # Par(kids[k].span)
        <3>1. Par(kids[k].span) = w[n].span
            BY <2>3
        <3>2. n <= n
            OBVIOUS
        <3> QED
            BY <2>1, <2>15, <3>1, <3>2
    <2>17. \A i, j \in 1 .. K : i < j => kids[i].span # kids[j].span
        <3>1. \A a \in DOMAIN spans : ~Sooner(spans, a, a)
            BY SoonerOrders
        <3> QED
            BY <2>3, <2>6, <3>1
    <2> HIDE DEF p, d, Par
    <2>18. \A x, y \in 1 .. L + K : x < y => v[x].span # v[y].span
        <3> SUFFICES ASSUME NEW x \in 1 .. L + K, NEW y \in 1 .. L + K, x < y
                     PROVE  v[x].span # v[y].span
            OBVIOUS
        <3>1. CASE (\E i \in 1 .. L : x = to(i)) /\ (\E j \in 1 .. L : y = to(j))
            BY <2>7, <2>9, <2>14, <3>1
        <3>2. CASE (\E i \in 1 .. L : x = to(i)) /\ (\E j \in 1 .. K : y = n + j)
            BY <2>7, <2>8, <2>16, <3>2
        <3>3. CASE (\E i \in 1 .. K : x = n + i) /\ (\E j \in 1 .. L : y = to(j))
            <4>1. PICK i \in 1 .. K, j \in 1 .. L : x = n + i /\ y = to(j)
                BY <3>3
            <4>2. v[x] = kids[i] /\ v[y] = w[j]
                BY <2>7, <2>8, <4>1
            <4>3. w[j].span # kids[i].span
                BY <2>16
            <4> QED
                BY <4>2, <4>3
        <3>4. CASE (\E i \in 1 .. K : x = n + i) /\ (\E j \in 1 .. K : y = n + j)
            <4>1. PICK i \in 1 .. K, j \in 1 .. K : x = n + i /\ y = n + j
                BY <3>4
            <4>2. v[x] = kids[i] /\ v[y] = kids[j] /\ i < j
                BY <2>8, <2>12, <4>1
            <4> QED
                BY <2>17, <4>2
        <3> QED
            BY <2>10, <3>1, <3>2, <3>3, <3>4
    <2>19. ASSUME NEW a \in DOMAIN spans
           PROVE  (\E x \in 1 .. L + K : v[x].span = a) <=>
                     Par(a) = Top \/ \E x \in 1 .. L + K : x <= n /\ v[x].span = Par(a)
        <3>1. (\E x \in 1 .. L + K : v[x].span = a) <=>
                 (\E i \in 1 .. L : w[i].span = a) \/ (\E i \in 1 .. K : kids[i].span = a)
            <4>1. (\E x \in 1 .. L + K : v[x].span = a) =>
                     (\E i \in 1 .. L : w[i].span = a) \/ (\E i \in 1 .. K : kids[i].span = a)
                BY <2>7, <2>8, <2>10
            <4>2. (\E i \in 1 .. L : w[i].span = a) => \E x \in 1 .. L + K : v[x].span = a
                BY <2>7
            <4>3. (\E i \in 1 .. K : kids[i].span = a) => \E x \in 1 .. L + K : v[x].span = a
                BY <2>8
            <4> QED
                BY <4>1, <4>2, <4>3
        <3>2. (\E i \in 1 .. K : kids[i].span = a) <=> Par(a) = w[n].span
            <4>1. (\E i \in 1 .. K : kids[i].span = a) => Par(a) = w[n].span
                BY <2>3 DEF p
            <4>2. Par(a) = w[n].span => \E i \in 1 .. K : kids[i].span = a
                BY <2>3 DEF p
            <4> QED
                BY <4>1, <4>2
        <3>3. (\E x \in 1 .. L + K : x <= n /\ v[x].span = Par(a)) <=>
                 \E i \in 1 .. L : i <= n /\ w[i].span = Par(a)
            <4>1. \A x \in 1 .. L + K : x <= n => x \in 1 .. L /\ v[x] = w[x]
                BY <2>1, <2>5, <2>6
            <4>2. \A i \in 1 .. L : i <= n => i \in 1 .. L + K /\ v[i] = w[i]
                BY <2>1, <2>5, <2>6
            <4> QED
                BY <4>1, <4>2
        <3>4. (\E i \in 1 .. L : i <= n /\ w[i].span = Par(a)) <=>
                 \/ \E i \in 1 .. L : i <= n - 1 /\ w[i].span = Par(a)
                 \/ w[n].span = Par(a)
            <4>1. \A i \in 1 .. L : i <= n <=> i <= n - 1 \/ i = n
                BY <2>1
            <4> QED
                BY <2>1, <4>1
        <3> QED
            BY <2>14, <3>1, <3>2, <3>3, <3>4
    <2>20. ASSUME NEW x \in 1 .. L + K
           PROVE  \/ v[x].depth = 0 /\ Par(v[x].span) = Top
                  \/ \E y \in 1 .. L + K :
                        /\ y < x /\ v[y].span = Par(v[x].span)
                        /\ v[x].depth = v[y].depth + 1
                        /\ \A k \in 1 .. L + K : y < k /\ k < x => v[k].depth >= v[x].depth
        <3>1. CASE \E i \in 1 .. L : x = to(i)
            <4>1. PICK i \in 1 .. L : x = to(i) /\ v[x] = w[i]
                BY <2>7, <3>1
            <4>2. CASE w[i].depth = 0 /\ Par(w[i].span) = Top
                BY <4>1, <4>2
            <4>3. CASE ~(w[i].depth = 0 /\ Par(w[i].span) = Top)
                <5>1. PICK j \in 1 .. L :
                         /\ j < i /\ w[j].span = Par(w[i].span)
                         /\ w[i].depth = w[j].depth + 1
                         /\ \A k \in 1 .. L : j < k /\ k < i => w[k].depth >= w[i].depth
                    BY <2>14, <4>3
                <5>2. to(j) \in 1 .. L + K /\ v[to(j)] = w[j] /\ to(j) < x
                    BY <2>7, <2>9, <4>1, <5>1
                <5>3. j < n
                    <6>1. ~(n <= j)
                        BY <2>15, <5>1
                    <6> QED
                        BY <2>1, <6>1
                <5>4. ASSUME NEW k \in 1 .. L + K, to(j) < k, k < x
                      PROVE  v[k].depth >= w[i].depth
                    <6>1. CASE \E l \in 1 .. L : k = to(l)
                        <7>1. PICK l \in 1 .. L : k = to(l) /\ v[k] = w[l]
                            BY <2>7, <6>1
                        <7>2. j < l /\ l < i
                            BY <2>9, <4>1, <5>4, <7>1
                        <7> QED
                            BY <5>1, <7>1, <7>2
                    <6>2. CASE \E l \in 1 .. K : k = n + l
                        <7>1. PICK l \in 1 .. K : k = n + l /\ v[k] = kids[l]
                            BY <2>8, <6>2
                        <7>2. n < i
                            BY <2>11, <4>1, <5>4, <7>1
                        <7>3. w[n].depth >= w[i].depth
                            BY <2>1, <5>1, <5>3, <7>2
                        <7>4. v[k].depth = w[n].depth + 1
                            BY <2>3, <7>1 DEF d
                        <7>5. w[n].depth \in Nat /\ w[i].depth \in Nat
                            BY <1>2, <2>1 DEF L
                        <7> QED
                            BY <7>3, <7>4, <7>5
                    <6> QED
                        BY <2>10, <6>1, <6>2
                <5> QED
                    BY <4>1, <5>1, <5>2, <5>4
            <4> QED
                BY <4>2, <4>3
        <3>2. CASE \E i \in 1 .. K : x = n + i
            <4>1. PICK i \in 1 .. K : x = n + i /\ v[x] = kids[i]
                BY <2>8, <3>2
            <4>2. /\ n \in 1 .. L + K /\ v[n] = w[n] /\ n < x
                BY <2>1, <2>5, <2>6, <4>1
            <4>3. w[n].span = Par(v[x].span) /\ v[x].depth = w[n].depth + 1
                BY <2>3, <4>1 DEF p, d
            <4>4. ASSUME NEW k \in 1 .. L + K, n < k, k < x
                  PROVE  v[k].depth >= v[x].depth
                <5>1. k - n \in 1 .. K /\ k = n + (k - n)
                    BY <2>1, <2>6, <4>1, <4>4
                <5>2. v[k].depth = d + 1
                    BY <2>3, <2>8, <5>1
                <5>3. v[x].depth = d + 1
                    BY <2>3, <4>1
                <5> QED
                    BY <2>2, <5>2, <5>3
            <4> QED
                BY <4>2, <4>3, <4>4
        <3> QED
            BY <2>10, <3>1, <3>2
    <2>21. \A x, y \in 1 .. L + K :
              x < y /\ Par(v[x].span) = Par(v[y].span) => Sooner(spans, v[x].span, v[y].span)
        <3> SUFFICES ASSUME NEW x \in 1 .. L + K, NEW y \in 1 .. L + K, x < y,
                            Par(v[x].span) = Par(v[y].span)
                     PROVE  Sooner(spans, v[x].span, v[y].span)
            OBVIOUS
        <3>1. CASE (\E i \in 1 .. L : x = to(i)) /\ (\E j \in 1 .. L : y = to(j))
            <4>1. PICK i \in 1 .. L, j \in 1 .. L : x = to(i) /\ y = to(j)
                BY <3>1
            <4>2. v[x] = w[i] /\ v[y] = w[j] /\ i < j
                BY <2>7, <2>9, <4>1
            <4> QED
                BY <2>14, <4>2
        <3>2. CASE (\E i \in 1 .. L : x = to(i)) /\ (\E j \in 1 .. K : y = n + j)
            BY <2>7, <2>8, <2>16, <3>2
        <3>3. CASE (\E i \in 1 .. K : x = n + i) /\ (\E j \in 1 .. L : y = to(j))
            <4>1. PICK i \in 1 .. K, j \in 1 .. L : x = n + i /\ y = to(j)
                BY <3>3
            <4>2. v[x] = kids[i] /\ v[y] = w[j]
                BY <2>7, <2>8, <4>1
            <4>3. Par(w[j].span) # Par(kids[i].span)
                BY <2>16
            <4> QED
                BY <4>2, <4>3
        <3>4. CASE (\E i \in 1 .. K : x = n + i) /\ (\E j \in 1 .. K : y = n + j)
            <4>1. PICK i \in 1 .. K, j \in 1 .. K : x = n + i /\ y = n + j
                BY <3>4
            <4>2. v[x] = kids[i] /\ v[y] = kids[j] /\ i < j
                BY <2>8, <2>12, <4>1
            <4> QED
                BY <2>3, <4>2
        <3> QED
            BY <2>10, <3>1, <3>2, <3>3, <3>4
    <2>22. Shows(v, n)
        BY <2>5, <2>18, <2>19, <2>20, <2>21 DEF Shows, Par, L
    <2> QED
        BY <2>22 DEF v
<1> QED
    BY <1>3, <1>4

LEMMA WalkedItems ==
    ASSUME SpanInv, NEW n \in Nat \ {0}, NEW w \in Seq(ShownItem)
    PROVE  Walked(w, n) \in Seq(ShownItem)
<1>1. CASE n > Len(w)
    BY <1>1 DEF Walked
<1>2. CASE ~(n > Len(w))
    <2> DEFINE kids == AtDepth(w[n].depth + 1, ChildrenOf(spans, w[n].span))
    <2>1. n \in 1 .. Len(w)
        BY <1>2, LenProperties
    <2>2. w[n] \in ShownItem
        BY <2>1, ElementOfSeq
    <2>3. w[n].span \in DOMAIN spans /\ w[n].depth + 1 \in Nat
        BY <2>2 DEF ShownItem
    <2>4. kids \in Seq(ShownItem)
        BY <2>3, KidsShown
    <2>5. Walked(w, n) = PutIn(w, n, kids)
        BY <1>2 DEF Walked
    <2> HIDE DEF kids
    <2>6. HasIn(PutIn(w, n, kids), w, n, kids, ShownItem)
        BY <2>1, <2>4, PuttingIn, Zenon
    <2> QED
        BY <2>5, <2>6 DEF HasIn
<1> QED
    BY <1>1, <1>2

\* The tree, and behind it the spans that it does not reach.
LEMMA TreeOfSpans ==
    ASSUME SpanInv
    PROVE  \E tree :
             /\ Shows(tree, Cardinality(DOMAIN spans))
             /\ OrderSpans(spans) =
                  tree \o AtDepth(0, InTime(spans, DOMAIN spans \
                                                   {tree[i].span : i \in DOMAIN tree}))
<1> DEFINE N == Cardinality(DOMAIN spans)
           first == AtDepth(0, ChildrenOf(spans, Top))
           Then(f, n) == IF n = 0 THEN first ELSE Walked(f[n - 1], n)
           Def(f) == f = [n \in 0 .. N |-> Then(f, n)]
           walk == CHOOSE f : Def(f)
           step == [q \in (1 .. N) \X Seq(ShownItem) |-> Walked(q[2], q[1])]
           tree == walk[N]
<1>1. N \in Nat
    BY SpansAreFinite
<1>2. first \in Seq(ShownItem)
    BY KidsShown
<1>3. OrderSpans(spans) =
        tree \o AtDepth(0, InTime(spans, DOMAIN spans \ {tree[i].span : i \in DOMAIN tree}))
    BY DEF OrderSpans, Walked, PutIn
<1> HIDE DEF N, first
<1>4. step \in [(1 .. N) \X Seq(ShownItem) -> Seq(ShownItem)]
    <2>1. \A n \in 1 .. N, w \in Seq(ShownItem) : Walked(w, n) \in Seq(ShownItem)
        BY <1>1, WalkedItems
    <2> QED
        BY <2>1
<1>5. \E f : Def(f)
    <2> HIDE DEF step
    <2>1. PICK f \in [0 .. N -> Seq(ShownItem)] : Follows(f, N, first, step)
        BY <1>1, <1>2, <1>4, Recursion
    <2>2. ASSUME NEW n \in 0 .. N
          PROVE  f[n] = Then(f, n)
        <3>1. CASE n = 0
            BY <2>1, <3>1 DEF Follows
        <3>2. CASE n # 0
            <4>1. n \in 1 .. N /\ n - 1 \in 0 .. N /\ f[n - 1] \in Seq(ShownItem)
                BY <1>1, <2>1, <3>2
            <4>2. f[n] = step[<<n, f[n - 1]>>]
                BY <2>1, <4>1 DEF Follows
            <4> QED
                BY <3>2, <4>1, <4>2 DEF step
        <3> QED
            BY <3>1, <3>2
    <2>3. DOMAIN f = 0 .. N /\ f = [n \in DOMAIN f |-> f[n]]
        BY <2>1
    <2> HIDE DEF Then
    <2> QED
        BY <2>2, <2>3
<1>6. Def(walk)
    BY <1>5
<1> HIDE DEF walk, step
<1>7. walk[0] = first
    BY <1>1, <1>6
<1>8. ASSUME NEW n \in 1 .. N
      PROVE  walk[n] = Walked(walk[n - 1], n)
    <2>1. n \in 0 .. N /\ n # 0
        BY <1>1
    <2> QED
        BY <1>6, <2>1, Zenon
<1> HIDE DEF Def
<1> DEFINE P == {n \in Nat : n <= N => Shows(walk[n], n)}
<1>9. 0 \in P
    BY <1>7, TopShows DEF first
<1>10. ASSUME NEW n \in P
       PROVE  n + 1 \in P
    <2> SUFFICES ASSUME n + 1 <= N
                 PROVE  Shows(walk[n + 1], n + 1)
        BY <1>10
    <2>1. n \in Nat /\ n + 1 \in 1 .. N /\ n + 1 \in Nat \ {0} /\ (n + 1) - 1 = n /\ n <= N
        BY <1>1, <1>10
    <2>2. Shows(walk[n], (n + 1) - 1)
        BY <1>10, <2>1
    <2>3. walk[n + 1] = Walked(walk[n], n + 1)
        BY <1>8, <2>1
    <2> HIDE DEF P
    <2>4. Shows(Walked(walk[n], n + 1), n + 1)
        BY <2>1, <2>2, WalkShows
    <2> QED
        BY <2>3, <2>4
<1>11. P = Nat
    <2>1. P \in SUBSET Nat
        OBVIOUS
    <2> HIDE DEF P
    <2> QED
        BY <1>9, <1>10, <2>1, Induction
<1>12. Shows(tree, N)
    BY <1>1, <1>11
<1> QED
    BY <1>3, <1>12 DEF N

\* Spans that are shown once each are as many as what is shown.
LEMMA ShownOnce ==
    ASSUME SpanInv, NEW w \in Seq(ShownItem),
           \A i, j \in 1 .. Len(w) : i < j => w[i].span # w[j].span
    PROVE  LET T == {w[i].span : i \in 1 .. Len(w)}
           IN  /\ T \in SUBSET DOMAIN spans
               /\ Cardinality(T) = Len(w)
               /\ Len(w) <= Cardinality(DOMAIN spans)
               /\ Cardinality(DOMAIN spans \ T) = Cardinality(DOMAIN spans) - Len(w)
<1> DEFINE L == Len(w)
           T == {w[i].span : i \in 1 .. L}
           f == [i \in 1 .. L |-> w[i].span]
<1>1. L \in Nat /\ \A i \in 1 .. L : w[i] \in ShownItem
    BY LenProperties, ElementOfSeq
<1>2. T \in SUBSET DOMAIN spans
    BY <1>1 DEF ShownItem
<1>3. \A i, j \in 1 .. L : w[i].span = w[j].span => i = j
    <2> SUFFICES ASSUME NEW i \in 1 .. L, NEW j \in 1 .. L, w[i].span = w[j].span
                 PROVE  i = j
        OBVIOUS
    <2>1. ~(i < j) /\ ~(j < i)
        OBVIOUS
    <2> QED
        BY <1>1, <2>1
<1>4. f \in Bijection(1 .. L, T)
    <2>1. f \in [1 .. L -> T]
        OBVIOUS
    <2>2. \A i, j \in DOMAIN f : f[i] = f[j] => i = j
        BY <1>3
    <2>3. \A t \in T : \E i \in 1 .. L : f[i] = t
        OBVIOUS
    <2> HIDE DEF f, T
    <2> QED
        BY <2>1, <2>2, <2>3 DEF Bijection, Injection, Surjection, IsInjective
<1>5. IsFiniteSet(1 .. L) /\ Cardinality(1 .. L) = L
    <2>1. \A n \in Nat : IsFiniteSet(1 .. n) /\ Cardinality(1 .. n) = n
        BY FS_Interval
    <2> QED
        BY <1>1, <2>1
<1> HIDE DEF f, T, L
<1>6. Cardinality(T) = L /\ IsFiniteSet(T)
    <2>1. ExistsBijection(1 .. L, T)
        BY <1>4 DEF ExistsBijection
    <2> QED
        BY <1>5, <2>1, FS_Bijection
<1>7. IsFiniteSet(DOMAIN spans) /\ Cardinality(DOMAIN spans) \in Nat
    BY SpansAreFinite
<1>8. L <= Cardinality(DOMAIN spans)
    BY <1>2, <1>6, <1>7, FS_Subset
<1>9. Cardinality(DOMAIN spans \ T) = Cardinality(DOMAIN spans) - Cardinality(DOMAIN spans \cap T)
    BY <1>7, FS_Difference
<1>10. DOMAIN spans \cap T = T
    BY <1>2
<1> QED
    BY <1>2, <1>6, <1>8, <1>9, <1>10 DEF T, L

\* The climb of Circles, step by step.
Climbs(g, a) ==
    /\ g[0] = a
    /\ \A n \in 1 .. Cardinality(SpanIds) :
          g[n] = IF g[n - 1] \in DOMAIN spans THEN spans[g[n - 1]].parent ELSE Top

LEMMA ClimbOfSpan ==
    ASSUME SpanInv, NEW a \in DOMAIN spans
    PROVE  \E g : Climbs(g, a) /\ (Circles(a) <=> g[Cardinality(SpanIds)] \in DOMAIN spans)
<1> DEFINE C == Cardinality(SpanIds)
           S == SpanIds \cup {Top}
           Up(b) == IF b \in DOMAIN spans THEN spans[b].parent ELSE Top
           Then(f, n) == IF n = 0 THEN a ELSE Up(f[n - 1])
           Def(f) == f = [n \in 0 .. C |-> Then(f, n)]
           climb == CHOOSE f : Def(f)
           step == [q \in (1 .. C) \X S |-> Up(q[2])]
<1>1. C \in Nat
    BY PartsAssumption, FS_CardinalityType
<1>2. a \in S /\ \A b \in S : Up(b) \in S
    BY DEF SpanInv
<1>3. Circles(a) <=> climb[C] \in DOMAIN spans
    BY DEF Circles
<1> HIDE DEF C, S
<1>4. step \in [(1 .. C) \X S -> S]
    BY <1>2
<1>5. \E f : Def(f)
    <2> HIDE DEF step
    <2>1. PICK f \in [0 .. C -> S] : Follows(f, C, a, step)
        BY <1>1, <1>2, <1>4, Recursion
    <2>2. ASSUME NEW n \in 0 .. C
          PROVE  f[n] = Then(f, n)
        <3>1. CASE n = 0
            BY <2>1, <3>1 DEF Follows
        <3>2. CASE n # 0
            <4>1. n \in 1 .. C /\ n - 1 \in 0 .. C /\ f[n - 1] \in S
                BY <1>1, <2>1, <3>2
            <4>2. f[n] = step[<<n, f[n - 1]>>]
                BY <2>1, <4>1 DEF Follows
            <4>3. step[<<n, f[n - 1]>>] = Up(f[n - 1])
                BY <4>1 DEF step
            <4> QED
                BY <3>2, <4>2, <4>3
        <3> QED
            BY <3>1, <3>2
    <2>3. DOMAIN f = 0 .. C /\ f = [n \in DOMAIN f |-> f[n]]
        BY <2>1
    <2> HIDE DEF Then
    <2> QED
        BY <2>2, <2>3
<1>6. Def(climb)
    BY <1>5
<1> HIDE DEF climb, step, Up
<1>7. climb[0] = a
    BY <1>1, <1>6
<1>8. ASSUME NEW n \in 1 .. C
      PROVE  climb[n] = Up(climb[n - 1])
    <2>1. n \in 0 .. C /\ n # 0
        BY <1>1
    <2> QED
        BY <1>6, <2>1, Zenon
<1> HIDE DEF Def
<1>9. Climbs(climb, a)
    BY <1>7, <1>8 DEF Climbs, C, Up
<1> QED
    BY <1>3, <1>9 DEF C

\* From a span of the tree the parents lead to the top: each is shown further up.
LEMMA TreeEnds ==
    ASSUME SpanInv, NEW w, Shows(w, Cardinality(DOMAIN spans)),
           Len(w) <= Cardinality(DOMAIN spans), NEW i \in 1 .. Len(w)
    PROVE  ~Circles(w[i].span)
<1> DEFINE C == Cardinality(SpanIds)
           L == Len(w)
           a == w[i].span
<1>1. /\ w \in Seq(ShownItem) /\ L \in Nat /\ \A j \in 1 .. L : w[j] \in ShownItem
    BY LenProperties, ElementOfSeq DEF Shows
<1>2. a \in DOMAIN spans /\ \A j \in 1 .. L : w[j].span \in DOMAIN spans
    BY <1>1 DEF ShownItem
<1>3. C \in Nat /\ Cardinality(DOMAIN spans) \in Nat /\ Cardinality(DOMAIN spans) <= C
    <2>1. DOMAIN spans \in SUBSET SpanIds /\ IsFiniteSet(SpanIds)
        BY PartsAssumption DEF SpanInv
    <2> QED
        BY <2>1, SpansAreFinite, FS_Subset, FS_CardinalityType
<1>4. PICK g : Climbs(g, a) /\ (Circles(a) <=> g[C] \in DOMAIN spans)
    BY <1>2, ClimbOfSpan
<1> HIDE DEF C, L, a
<1>5. g[0] = a /\ \A n \in 1 .. C : g[n] = IF g[n - 1] \in DOMAIN spans
                                           THEN spans[g[n - 1]].parent ELSE Top
    BY <1>4 DEF Climbs, C
<1> DEFINE Good(n) == g[n] \in DOMAIN spans => \E j \in 1 .. L : w[j].span = g[n] /\ j + n <= i
           P == {n \in Nat : n <= C => Good(n)}
<1>6. 0 \in P
    <2>1. w[i].span = g[0] /\ i + 0 <= i /\ i \in 1 .. L
        BY <1>1, <1>5 DEF a, L
    <2> QED
        BY <2>1
<1>7. ASSUME NEW n \in P
      PROVE  n + 1 \in P
    <2> SUFFICES ASSUME n + 1 <= C, g[n + 1] \in DOMAIN spans
                 PROVE  \E j \in 1 .. L : w[j].span = g[n + 1] /\ j + (n + 1) <= i
        BY <1>7
    <2>1. n \in Nat /\ n + 1 \in 1 .. C /\ (n + 1) - 1 = n /\ n <= C
        BY <1>3, <1>7
    <2>2. g[n + 1] = IF g[n] \in DOMAIN spans THEN spans[g[n]].parent ELSE Top
        BY <1>5, <2>1
    <2>3. Top \notin DOMAIN spans
        BY PartsAssumption DEF SpanInv
    <2>4. g[n] \in DOMAIN spans /\ g[n + 1] = spans[g[n]].parent
        BY <2>2, <2>3
    <2>5. PICK j \in 1 .. L : w[j].span = g[n] /\ j + n <= i
        BY <1>7, <2>1, <2>4
    <2>6. ParentOf(spans, w[j].span) = g[n + 1] /\ g[n + 1] # Top
        BY <2>3, <2>4, <2>5 DEF ParentOf
    <2>7. PICK k \in 1 .. L : k < j /\ w[k].span = g[n + 1]
        BY <2>5, <2>6 DEF Shows, L
    <2>8. i \in Nat /\ k + (n + 1) <= i
        <3>1. i \in Nat /\ k \in Nat /\ j \in Nat
            BY <1>1 DEF L
        <3> QED
            BY <2>1, <2>5, <2>7, <3>1
    <2> QED
        BY <2>7, <2>8
<1>8. P = Nat
    <2>1. P \in SUBSET Nat
        OBVIOUS
    <2> HIDE DEF P
    <2> QED
        BY <1>6, <1>7, <2>1, Induction
<1>9. Good(C)
    BY <1>3, <1>8
<1>10. ~\E j \in 1 .. L : j + C <= i
    <2>1. i \in Nat /\ i <= L /\ L <= Cardinality(DOMAIN spans)
        BY <1>1 DEF L
    <2> QED
        BY <1>1, <1>3, <2>1
<1> QED
    BY <1>4, <1>9, <1>10 DEF a

\* From a span that the tree does not reach they never lead there.
LEMMA RestCircles ==
    ASSUME SpanInv, NEW w, Shows(w, Cardinality(DOMAIN spans)),
           Len(w) <= Cardinality(DOMAIN spans),
           NEW a \in DOMAIN spans, \A i \in 1 .. Len(w) : w[i].span # a
    PROVE  Circles(a)
<1> DEFINE C == Cardinality(SpanIds)
           R == {b \in DOMAIN spans : \A i \in 1 .. Len(w) : w[i].span # b}
<1>1. C \in Nat
    BY PartsAssumption, FS_CardinalityType
<1>2. PICK g : Climbs(g, a) /\ (Circles(a) <=> g[C] \in DOMAIN spans)
    BY ClimbOfSpan
<1>3. ASSUME NEW b \in R
      PROVE  spans[b].parent \in R
    <2>1. Len(w) \in Nat /\ Cardinality(DOMAIN spans) \in Nat
        BY LenProperties, SpansAreFinite DEF Shows
    <2>2. \A i \in 1 .. Len(w) : i <= Cardinality(DOMAIN spans)
        BY <2>1
    <2>3. ParentOf(spans, b) # Top /\ \A i \in 1 .. Len(w) : w[i].span # ParentOf(spans, b)
        BY <1>3, <2>2 DEF Shows
    <2>4. ParentOf(spans, b) \in DOMAIN spans /\ spans[b].parent = ParentOf(spans, b)
        BY <1>3, <2>3, ParentIs
    <2> QED
        BY <2>3, <2>4
<1>4. a \in R /\ R \subseteq DOMAIN spans
    OBVIOUS
<1> HIDE DEF C, R
<1>5. g[0] = a /\ \A n \in 1 .. C : g[n] = IF g[n - 1] \in DOMAIN spans
                                           THEN spans[g[n - 1]].parent ELSE Top
    BY <1>2 DEF Climbs, C
<1> DEFINE P == {n \in Nat : n <= C => g[n] \in R}
<1>6. 0 \in P
    BY <1>4, <1>5
<1>7. ASSUME NEW n \in P
      PROVE  n + 1 \in P
    <2> SUFFICES ASSUME n + 1 <= C
                 PROVE  g[n + 1] \in R
        BY <1>7
    <2>1. n \in Nat /\ n + 1 \in 1 .. C /\ (n + 1) - 1 = n /\ n <= C
        BY <1>1, <1>7
    <2>2. g[n] \in R
        BY <1>7, <2>1
    <2>3. g[n + 1] = spans[g[n]].parent
        BY <1>4, <1>5, <2>1, <2>2
    <2> QED
        BY <1>3, <2>2, <2>3
<1>8. P = Nat
    <2>1. P \in SUBSET Nat
        OBVIOUS
    <2> HIDE DEF P
    <2> QED
        BY <1>6, <1>7, <2>1, Induction
<1> QED
    BY <1>1, <1>2, <1>4, <1>8

LEMMA SpansShown == SpanInv => EverySpanShown
<1> SUFFICES ASSUME SpanInv
             PROVE  EverySpanShown
    OBVIOUS
<1> DEFINE D == DOMAIN spans
           N == Cardinality(D)
           shown == OrderSpans(spans)
           of(i) == shown[i].span
           above(i) == {j \in 1 .. i - 1 : shown[j].depth < shown[i].depth}
<1>1. PICK tree :
        /\ Shows(tree, N)
        /\ shown = tree \o AtDepth(0, InTime(spans, D \ {tree[i].span : i \in DOMAIN tree}))
    BY TreeOfSpans
<1> DEFINE L == Len(tree)
           T == {tree[i].span : i \in 1 .. L}
           R == D \ T
           K == Cardinality(R)
           order == InTime(spans, R)
           rest == AtDepth(0, order)
<1>2. /\ tree \in Seq(ShownItem) /\ L \in Nat /\ DOMAIN tree = 1 .. L
      /\ \A i \in 1 .. L : tree[i] \in ShownItem
    BY <1>1, LenProperties, ElementOfSeq DEF Shows
<1>3. \A i \in 1 .. L : tree[i].span \in D /\ tree[i].depth \in Nat
    BY <1>2 DEF ShownItem
<1>4. /\ T \in SUBSET D /\ L <= N /\ K = N - L
    <2>1. \A i, j \in 1 .. Len(tree) : i < j => tree[i].span # tree[j].span
        BY <1>1 DEF Shows
    <2> QED
        BY <1>2, <2>1, ShownOnce
<1>5. N \in Nat /\ K \in Nat
    BY SpansAreFinite
<1>6. /\ order \in [1 .. K -> R]
      /\ \A a \in R : \E n \in 1 .. K : order[n] = a
      /\ \A m, n \in 1 .. K : m < n => Sooner(spans, order[m], order[n])
    <2>1. R \in SUBSET DOMAIN spans
        OBVIOUS
    <2> HIDE DEF R
    <2> QED
        BY <2>1, InTimeOrders
<1>7. shown = tree \o rest
    BY <1>1, <1>2
<1> HIDE DEF shown, order, K
<1>8. rest \in Seq(ShownItem) /\ Len(rest) = K /\ \A i \in 1 .. K : rest[i] = [span |-> order[i], depth |-> 0]
    <2>1. rest = [i \in 1 .. K |-> [span |-> order[i], depth |-> 0]]
        BY <1>6 DEF AtDepth
    <2>2. \A i \in 1 .. K : [span |-> order[i], depth |-> 0] \in ShownItem
        BY <1>6 DEF ShownItem
    <2> HIDE DEF rest, R
    <2>3. rest \in [1 .. K -> ShownItem]
        BY <2>1, <2>2
    <2> QED
        BY <1>5, <2>1, <2>3, LenProperties
<1> HIDE DEF rest
<1>9. /\ Len(shown) = N /\ DOMAIN shown = 1 .. N
      /\ \A i \in 1 .. L : shown[i] = tree[i]
      /\ \A i \in L + 1 .. N : i - L \in 1 .. K /\ shown[i] = [span |-> order[i - L], depth |-> 0]
    <2> HIDE DEF T, R, N, L
    <2>1. /\ shown \in Seq(ShownItem) /\ Len(shown) = L + K
          /\ \A i \in 1 .. L + K : shown[i] = IF i <= L THEN tree[i] ELSE rest[i - L]
        BY <1>2, <1>7, <1>8, ConcatProperties DEF L
    <2>2. L + K = N
        BY <1>2, <1>4, <1>5
    <2>3. DOMAIN shown = 1 .. N
        BY <2>1, <2>2, LenProperties
    <2>4. \A i \in 1 .. L : shown[i] = tree[i]
        BY <1>2, <1>4, <1>5, <2>1, <2>2
    <2>5. ASSUME NEW i \in L + 1 .. N
          PROVE  i - L \in 1 .. K /\ shown[i] = [span |-> order[i - L], depth |-> 0]
        <3>1. i - L \in 1 .. K /\ i \in 1 .. L + K /\ ~(i <= L)
            BY <1>2, <1>5, <2>2
        <3> QED
            BY <1>8, <2>1, <3>1
    <2> QED
        BY <2>1, <2>2, <2>3, <2>4, <2>5
<1>10. \A i \in 1 .. N : i \in 1 .. L \/ i \in L + 1 .. N
    BY <1>2, <1>5
<1>11. \A i \in 1 .. L : i \in 1 .. N
    BY <1>2, <1>4, <1>5
\* Circles are behind the tree, and nothing else is.
<1>12. /\ \A i \in 1 .. L : of(i) = tree[i].span /\ ~Circles(of(i))
       /\ \A i \in L + 1 .. N : of(i) = order[i - L] /\ of(i) \in R /\ Circles(of(i))
    <2>1. ASSUME NEW i \in 1 .. L
          PROVE  of(i) = tree[i].span /\ ~Circles(of(i))
        <3>1. ~Circles(tree[i].span)
            BY <1>1, <1>4, TreeEnds
        <3> QED
            BY <1>9, <3>1
    <2>2. ASSUME NEW a \in R
          PROVE  Circles(a)
        <3>1. a \in DOMAIN spans /\ \A i \in 1 .. Len(tree) : tree[i].span # a
            OBVIOUS
        <3> QED
            BY <1>1, <1>4, <3>1, RestCircles
    <2> HIDE DEF R, T, L, N
    <2>3. ASSUME NEW i \in L + 1 .. N
          PROVE  of(i) = order[i - L] /\ of(i) \in R
        <3>1. i - L \in 1 .. K /\ shown[i] = [span |-> order[i - L], depth |-> 0]
            BY <1>9, <2>3
        <3>2. of(i) = order[i - L]
            BY <3>1
        <3> HIDE DEF of
        <3> QED
            BY <1>6, <3>1, <3>2
    <2> QED
        BY <2>1, <2>2, <2>3
<1>13. {of(i) : i \in DOMAIN shown} = D
    <2>1. \A i \in 1 .. N : of(i) \in D
        BY <1>3, <1>10, <1>12
    <2>2. ASSUME NEW a \in D
          PROVE  \E i \in 1 .. N : of(i) = a
        <3>1. CASE a \in T
            BY <1>11, <1>12, <3>1
        <3>2. CASE a \in R
            <4>1. PICK n \in 1 .. K : order[n] = a
                BY <1>6, <3>2
            <4> HIDE DEF L, N
            <4>2. n + L \in L + 1 .. N /\ (n + L) - L = n /\ n + L \in 1 .. N
                BY <1>2, <1>4, <1>5
            <4>3. of(n + L) = a
                BY <1>12, <4>1, <4>2
            <4> QED
                BY <4>2, <4>3
        <3> QED
            BY <3>1, <3>2
    <2> QED
        BY <1>9, <2>1, <2>2
<1> HIDE DEF R, T, N, K
<1>14. ASSUME NEW i \in DOMAIN shown
       PROVE  IF shown[i].depth = 0
              THEN spans[of(i)].parent \in DOMAIN spans => Circles(of(i))
              ELSE \E j \in above(i) :
                     /\ \A k \in above(i) : k <= j
                     /\ spans[of(i)].parent = of(j) /\ shown[i].depth = shown[j].depth + 1
    <2>1. CASE i \in 1 .. L
        <3>1. shown[i] = tree[i] /\ tree[i].span \in D
            BY <1>3, <1>9, <2>1
        <3>2. CASE tree[i].depth = 0 /\ ParentOf(spans, tree[i].span) = Top
            <4>1. spans[tree[i].span].parent \notin DOMAIN spans
                BY <3>1, <3>2, ParentIs
            <4> QED
                BY <3>1, <3>2, <4>1
        <3>3. CASE ~(tree[i].depth = 0 /\ ParentOf(spans, tree[i].span) = Top)
            <4>1. PICK j \in 1 .. L :
                     /\ j < i /\ tree[j].span = ParentOf(spans, tree[i].span)
                     /\ tree[i].depth = tree[j].depth + 1
                     /\ \A k \in 1 .. L : j < k /\ k < i => tree[k].depth >= tree[i].depth
                BY <1>1, <2>1, <3>3 DEF Shows
            <4>2. shown[j] = tree[j] /\ tree[j].span \in D /\ tree[j].depth \in Nat
                BY <1>3, <1>9
            <4>3. shown[i].depth # 0 /\ shown[i].depth \in Nat
                BY <3>1, <4>1, <4>2
            <4>4. spans[of(i)].parent = of(j)
                <5>1. ParentOf(spans, tree[i].span) # Top
                    BY <4>1, <4>2, PartsAssumption DEF SpanInv
                <5> QED
                    BY <3>1, <4>1, <4>2, <5>1, ParentIs
            <4>5. j \in above(i)
                <5>1. j \in 1 .. i - 1
                    BY <1>2, <2>1, <4>1
                <5>2. shown[j].depth < shown[i].depth
                    BY <3>1, <4>1, <4>2
                <5> QED
                    BY <5>1, <5>2
            <4>6. ASSUME NEW k \in above(i)
                  PROVE  k <= j
                <5>1. k \in 1 .. L /\ k < i /\ k \in Nat /\ j \in Nat
                    BY <1>2, <2>1
                <5>2. shown[k] = tree[k] /\ tree[k].depth \in Nat /\ tree[k].depth < tree[i].depth
                    BY <1>3, <1>9, <3>1, <5>1
                <5>3. tree[i].depth \in Nat
                    BY <3>1, <4>3
                <5>4. ~(j < k)
                    BY <4>1, <5>1, <5>2, <5>3
                <5> QED
                    BY <5>1, <5>4
            <4> HIDE DEF above
            <4>7. shown[i].depth = shown[j].depth + 1
                BY <3>1, <4>1, <4>2
            <4> QED
                BY <4>3, <4>4, <4>5, <4>6, <4>7
        <3> QED
            BY <3>2, <3>3
    <2>2. CASE i \in L + 1 .. N
        <3>1. shown[i].depth = 0 /\ Circles(of(i))
            <4>1. shown[i] = [span |-> order[i - L], depth |-> 0]
                BY <1>9, <2>2
            <4> QED
                BY <1>12, <2>2, <4>1
        <3> QED
            BY <3>1
    <2> QED
        BY <1>9, <1>10, <2>1, <2>2
<1> HIDE DEF above
<1>15. ASSUME NEW i \in DOMAIN shown, NEW j \in DOMAIN shown,
              i < j, shown[i].depth = shown[j].depth,
              shown[i].depth > 0 => spans[of(i)].parent = spans[of(j)].parent
       PROVE  IF Circles(of(i)) = Circles(of(j)) THEN Sooner(spans, of(i), of(j))
              ELSE Circles(of(j))
    <2>1. CASE i \in 1 .. L /\ j \in 1 .. L
        <3>1. /\ shown[i] = tree[i] /\ tree[i].span \in D /\ tree[i].depth \in Nat
              /\ shown[j] = tree[j] /\ tree[j].span \in D
            BY <1>3, <1>9, <2>1
        <3>2. ParentOf(spans, tree[i].span) = ParentOf(spans, tree[j].span)
            <4>1. CASE tree[i].depth = 0
                <5>1. tree[j].depth = 0
                    BY <1>15, <3>1, <4>1
                <5>2. \A k \in 1 .. L : tree[k].depth = 0 => ParentOf(spans, tree[k].span) = Top
                    <6> SUFFICES ASSUME NEW k \in 1 .. L, tree[k].depth = 0
                                 PROVE  ParentOf(spans, tree[k].span) = Top
                        OBVIOUS
                    <6>1. \A l \in 1 .. L : tree[k].depth # tree[l].depth + 1
                        BY <1>3
                    <6> QED
                        BY <1>1, <6>1 DEF Shows
                <5> QED
                    BY <2>1, <4>1, <5>1, <5>2
            <4>2. CASE tree[i].depth # 0
                <5>1. tree[i].depth > 0
                    BY <3>1, <4>2
                <5>2. spans[tree[i].span].parent = spans[tree[j].span].parent
                    BY <1>15, <3>1, <5>1
                <5> QED
                    BY <5>2 DEF ParentOf
            <4> QED
                BY <4>1, <4>2
        <3>3. Sooner(spans, tree[i].span, tree[j].span)
            BY <1>1, <1>15, <2>1, <3>2 DEF Shows
        <3>4. of(i) = tree[i].span /\ ~Circles(of(i)) /\ of(j) = tree[j].span /\ ~Circles(of(j))
            BY <1>12, <2>1
        <3> HIDE DEF of
        <3>5. Sooner(spans, of(i), of(j))
            BY <3>3, <3>4
        <3>6. \A a : Circles(a) \in BOOLEAN
            BY DEF Circles
        <3>7. Circles(of(i)) = Circles(of(j))
            BY <3>4, <3>6
        <3> QED
            BY <3>5, <3>7
    <2>2. CASE i \in L + 1 .. N /\ j \in L + 1 .. N
        <3>1. i - L \in 1 .. K /\ j - L \in 1 .. K /\ i - L < j - L
            <4>1. i - L \in 1 .. K /\ j - L \in 1 .. K
                BY <1>9, <2>2
            <4>2. i \in Int /\ j \in Int /\ L \in Int
                BY <1>2, <2>2
            <4> QED
                BY <1>15, <4>1, <4>2
        <3>2. Sooner(spans, order[i - L], order[j - L])
            BY <1>6, <3>1
        <3> QED
            BY <1>12, <2>2, <3>2
    <2>3. CASE j \in L + 1 .. N /\ i \in 1 .. L
        BY <1>12, <2>3
    <2>4. CASE i \in L + 1 .. N /\ j \in 1 .. L
        <3> HIDE DEF L
        <3> QED
            BY <1>2, <1>5, <1>15, <2>4
    <2> QED
        BY <1>9, <1>10, <2>1, <2>2, <2>3, <2>4
<1>16. Len(shown) = Cardinality(DOMAIN spans)
    BY <1>9 DEF N
<1> QED
    BY <1>13, <1>14, <1>15, <1>16 DEF EverySpanShown, shown, above

LEMMA NextSpans == SpanInv /\ [Next]_vars => SpanInv'
<1> SUFFICES ASSUME SpanInv, [Next]_vars
             PROVE  SpanInv'
    OBVIOUS
<1>1. CASE NextSpan
    <2>1. PICK a \in SpanIds \ DOMAIN spans, parent \in SpanIds \cup {Top}, started \in {Unset, 1, 2} :
            spans' = With(spans, a, [parent |-> parent, started |-> started])
        BY <1>1 DEF NextSpan
    <2>2. /\ DOMAIN spans' = DOMAIN spans \cup {a}
          /\ \A b \in DOMAIN spans' :
                spans'[b] = IF b = a THEN [parent |-> parent, started |-> started] ELSE spans[b]
        BY <2>1 DEF With
    <2> QED
        BY <2>2 DEF SpanInv
<1>2. CASE spans' = spans
    BY <1>2 DEF SpanInv
<1>3. [Next]_vars => NextSpan \/ spans' = spans
    BY DEF Next, vars, inputs, NextDigit, NextItem, NextField, NextPlace, NextNamer, NextWord
<1> QED
    BY <1>1, <1>2, <1>3

\* Of a trace with any spans, whatever parents they name and whatever they lack: each is
\* shown once and below its parent, and those that run in a circle behind all others.
THEOREM EverySpanIsShown == Spec => []EverySpanShown
<1>1. Init => SpanInv
    BY DEF Init, SpanInv
<1> QED
    BY <1>1, NextSpans, SpansShown, PTL DEF Spec

-------------------------------------------------------------------------------
(* Events of any version                                                   *)

\* What may stand in a field of an event; a field that no version knows, anything.
CountValue == Int \cup {Nonsense}

Tallies(u) == \E keys \in SUBSET (Counts \cup Details) : u \in [keys -> CountValue]

\* A text that was cut off was cut off at the limit.
Clipped(t) == t \in Text /\ (t.cut > 0 => t.shown = ErrorLimit)

Troubles(x) ==
    \E keys \in SUBSET (DOMAIN NoError \cup Details) :
       /\ x \in [keys -> Text \cup {Nonsense}]
       /\ \A k \in keys \cap {"message", "stack"} : x[k] # Nonsense => Clipped(x[k])

Fits(key, value) ==
    /\ key = "usage" => value \in {Nonsense, Garbage} \/ Tallies(value)
    /\ key = "error" => value \in {Nonsense, Garbage} \/ Troubles(value)

Readable(p) ==
    /\ ~Has(p, "raised")
    /\ Has(p, "schema_version") => p["schema_version"] \in CountValue
    /\ \A c \in Counts : Has(p, c) => p[c] \in CountValue
    /\ \A key \in {"usage", "error"} : Has(p, key) => Fits(key, p[key])
    /\ Has(p, "model") => p["model"] \in Seq(Letters) \cup {Nonsense, Garbage}

LEMMA CoercedIs ==
    ASSUME NEW n \in CountValue
    PROVE  Coerced(n) \in Nat /\ (n \in Nat => Coerced(n) = n)
BY EventSchemaAssumption DEF CountValue, Coerced

\* A table of counts is neither null nor garbage, and neither is one that tells of an error.
LEMMA TablesAreTables ==
    /\ \A u : Tallies(u) => u # Nonsense /\ u # Garbage
    /\ \A x : Troubles(x) => x # Nonsense /\ x # Garbage
<1>1. ASSUME NEW u, Tallies(u)
      PROVE  u # Nonsense /\ u # Garbage
    <2>1. PICK keys \in SUBSET (Counts \cup Details) : u \in [keys -> CountValue]
        BY <1>1 DEF Tallies
    <2> QED
        BY <2>1, EventSchemaAssumption DEF CountValue
<1>2. ASSUME NEW x, Troubles(x)
      PROVE  x # Nonsense /\ x # Garbage
    <2>1. PICK keys \in SUBSET (DOMAIN NoError \cup Details) : x \in [keys -> Text \cup {Nonsense}]
        BY <1>2 DEF Troubles
    <2> QED
        BY <2>1, EventSchemaAssumption
<1> QED
    BY <1>1, <1>2

\* A table of counts has three, none negative, and a total if it counts anything; what else it
\* has is kept, and made again from its own counts it is the same.
LEMMA UsageIs ==
    ASSUME NEW u, Tallies(u)
    PROVE  /\ DOMAIN UsageOf(u) = Counts \cup DOMAIN u
           /\ \A k \in Counts : UsageOf(u)[k] \in Nat
           /\ \A k \in DOMAIN u \ Counts : UsageOf(u)[k] = u[k]
           /\ UsageOf(u)["prompt_tokens"] = Coerced(Get(u, "prompt_tokens", 0))
           /\ UsageOf(u)["completion_tokens"] = Coerced(Get(u, "completion_tokens", 0))
           /\ UsageOf(u)["total_tokens"] =
                IF Coerced(Get(u, "total_tokens", 0)) = 0
                THEN Coerced(Get(u, "prompt_tokens", 0)) + Coerced(Get(u, "completion_tokens", 0))
                ELSE Coerced(Get(u, "total_tokens", 0))
           /\ Tallies(UsageOf(u))
           /\ UsageOf(UsageOf(u)) = UsageOf(u)
<1> DEFINE p == Coerced(Get(u, "prompt_tokens", 0))
           c == Coerced(Get(u, "completion_tokens", 0))
           t == Coerced(Get(u, "total_tokens", 0))
<1>0. PICK keys \in SUBSET (Counts \cup Details) : u \in [keys -> CountValue]
    BY DEF Tallies
<1>1. \A k \in Counts : Get(u, k, 0) \in CountValue
    BY <1>0 DEF Get, Has, CountValue
<1>2. p \in Nat /\ c \in Nat /\ t \in Nat
    BY <1>1, CoercedIs DEF Counts
<1>3. UsageOf(u) = [k \in Counts \cup DOMAIN u |->
                      IF k = "total_tokens" /\ t = 0 THEN p + c
                      ELSE IF k \in Counts THEN Coerced(Get(u, k, 0)) ELSE u[k]]
    BY DEF UsageOf
<1> DEFINE v == UsageOf(u)
<1>4. /\ v["prompt_tokens"] = p /\ v["completion_tokens"] = c
      /\ v["total_tokens"] = IF t = 0 THEN p + c ELSE t
    BY <1>3 DEF Counts
<1>5. /\ DOMAIN v = Counts \cup DOMAIN u
      /\ \A k \in Counts : v[k] \in Nat
      /\ \A k \in DOMAIN u \ Counts : v[k] = u[k]
      /\ v = [k \in Counts \cup DOMAIN u |-> v[k]]
    <2>1. \A k \in Counts : Coerced(Get(u, k, 0)) \in Nat
        BY <1>1, CoercedIs
    <2>2. "total_tokens" \in Counts
        BY DEF Counts
    <2> HIDE DEF p, c, t
    <2> QED
        BY <1>2, <1>3, <2>1, <2>2
<1> HIDE DEF p, c, t, v
<1>6. \A k \in Counts : Get(v, k, 0) = v[k] /\ Coerced(Get(v, k, 0)) = v[k]
    <2>1. \A k \in Counts : Get(v, k, 0) = v[k] /\ v[k] \in Nat
        BY <1>5 DEF Get, Has
    <2> QED
        BY <2>1, CoercedIs DEF CountValue
<1>7. UsageOf(v) = [k \in Counts \cup DOMAIN v |->
          IF k = "total_tokens" /\ Coerced(Get(v, "total_tokens", 0)) = 0
          THEN Coerced(Get(v, "prompt_tokens", 0)) + Coerced(Get(v, "completion_tokens", 0))
          ELSE IF k \in Counts THEN Coerced(Get(v, k, 0)) ELSE v[k]]
    BY DEF UsageOf
<1>8. \A k \in Counts \cup DOMAIN u : UsageOf(v)[k] = v[k]
    <2>1. v["total_tokens"] = 0 => v["prompt_tokens"] + v["completion_tokens"] = 0
        BY <1>2, <1>4
    <2>2. /\ Coerced(Get(v, "total_tokens", 0)) = v["total_tokens"]
          /\ Coerced(Get(v, "prompt_tokens", 0)) = v["prompt_tokens"]
          /\ Coerced(Get(v, "completion_tokens", 0)) = v["completion_tokens"]
        BY <1>6 DEF Counts
    <2> QED
        BY <1>5, <1>6, <1>7, <2>1, <2>2
<1>9. UsageOf(v) = [k \in Counts \cup DOMAIN u |-> UsageOf(v)[k]]
    <2>1. Counts \cup DOMAIN v = Counts \cup DOMAIN u
        BY <1>5
    <2> QED
        BY <1>7, <2>1
<1>10. UsageOf(v) = v
    BY <1>5, <1>8, <1>9
<1>11. Tallies(v)
    <2> DEFINE all == Counts \cup DOMAIN u
    <2>1. all \in SUBSET (Counts \cup Details)
        BY <1>0
    <2>2. \A k \in all : v[k] \in CountValue
        <3> SUFFICES ASSUME NEW k \in all
                     PROVE  v[k] \in CountValue
            OBVIOUS
        <3>1. CASE k \in Counts
            BY <1>5, <3>1 DEF CountValue
        <3>2. CASE k \in DOMAIN u \ Counts
            <4>1. u[k] \in CountValue
                BY <1>0, <3>2
            <4> QED
                BY <1>5, <3>2, <4>1
        <3> QED
            BY <3>1, <3>2
    <2>3. v \in [all -> CountValue]
        BY <1>5, <2>2
    <2> QED
        BY <2>1, <2>3 DEF Tallies
<1> QED
    BY <1>4, <1>5, <1>10, <1>11 DEF v, p, c, t

\* A mark has a length.
LEMMA MarkIs ==
    ASSUME NEW n \in Nat
    PROVE  MarkLength(n) \in Nat /\ MarkLength(n) > 0
<1> DEFINE D == {d \in 0 .. 9 : 10^d <= n}
<1>1. IsFiniteSet(0 .. 9)
    <2>1. 0 \in Int /\ 9 \in Int
        OBVIOUS
    <2> QED
        BY <2>1, FS_Interval
<1>2. D \in SUBSET (0 .. 9)
    OBVIOUS
<1> HIDE DEF D
<1>3. IsFiniteSet(D)
    BY <1>1, <1>2, FS_Subset
<1>4. Cardinality(D) \in Nat
    BY <1>3, FS_CardinalityType
<1>5. MarkLength(n) = 21 + Cardinality(D)
    BY DEF MarkLength, D
<1> QED
    BY <1>4, <1>5

\* Of a text that is clipped there is all of it, or as much as the limit leaves and a mark.
LEMMA ClipIs ==
    ASSUME NEW t, Clipped(t)
    PROVE  /\ Clipped(Clip(t))
           /\ \/ Clip(t) = t
              \/ /\ Length(t) > ErrorLimit /\ t.shown >= ErrorLimit
                 /\ Clip(t).shown = ErrorLimit /\ Clip(t).cut > 0
<1>1. t \in Text /\ t.shown \in Nat /\ t.cut \in Nat /\ ErrorLimit \in Nat
    BY EventSchemaAssumption DEF Clipped, Text
<1>2. MarkLength(t.cut) \in Nat /\ MarkLength(t.cut) > 0
    BY <1>1, MarkIs
<1> DEFINE n == Length(t)
<1>3. n \in Nat /\ n = t.shown + (IF t.cut = 0 THEN 0 ELSE MarkLength(t.cut))
    BY <1>1, <1>2 DEF Length
<1>4. Clip(t) = IF n <= ErrorLimit THEN t ELSE [shown |-> ErrorLimit, cut |-> n - ErrorLimit]
    BY DEF Clip
<1> HIDE DEF n
<1>5. CASE n <= ErrorLimit
    BY <1>4, <1>5
<1>6. CASE n > ErrorLimit
    <2>1. n - ErrorLimit \in Nat /\ n - ErrorLimit > 0
        BY <1>1, <1>3, <1>6
    <2>2. Clip(t) = [shown |-> ErrorLimit, cut |-> n - ErrorLimit]
        BY <1>1, <1>3, <1>4, <1>6
    <2>3. Clip(t) \in Text /\ Clip(t).shown = ErrorLimit /\ Clip(t).cut > 0
        BY <1>1, <2>1, <2>2 DEF Text
    <2>4. t.shown >= ErrorLimit
        <3>1. t.cut > 0 => t.shown = ErrorLimit
            BY DEF Clipped
        <3> QED
            BY <1>1, <1>3, <1>6, <3>1
    <2> QED
        BY <1>6, <2>3, <2>4 DEF Clipped, n
<1> QED
    BY <1>1, <1>3, <1>5, <1>6

\* What is read of an error tells what was written of it, and so does what is read of that.
LEMMA ErrorIs ==
    ASSUME NEW x, Troubles(x)
    PROVE  /\ Troubles(ErrorOf(x)) /\ Tells(ErrorOf(x), x)
           /\ Nonsense \notin {Get(x, "type", ""), Get(x, "message", "")} =>
                Nonsense \notin {Get(ErrorOf(x), "type", ""), Get(ErrorOf(x), "message", "")}
<1> DEFINE said(k) == IF Has(x, k) THEN x[k] ELSE NoError[k]
           e == ErrorOf(x)
<1>1. e = [k \in DOMAIN x \cup DOMAIN NoError |->
             IF k \in {"message", "stack"} /\ said(k) # Nonsense THEN Clip(said(k)) ELSE said(k)]
    BY DEF ErrorOf
<1>2. PICK keys \in SUBSET (DOMAIN NoError \cup Details) :
        /\ x \in [keys -> Text \cup {Nonsense}]
        /\ \A k \in keys \cap {"message", "stack"} : x[k] # Nonsense => Clipped(x[k])
    BY DEF Troubles
<1>3. /\ DOMAIN NoError = {"type", "message", "stack"}
      /\ NoError["type"] = Whole(9) /\ NoError["message"] = Whole(0) /\ NoError["stack"] = Nonsense
    BY DEF NoError
<1>4. Clipped(Whole(9)) /\ Clipped(Whole(0))
    BY DEF Clipped, Whole, Text
<1>5. \A k \in DOMAIN x \cup DOMAIN NoError :
         /\ said(k) \in Text \cup {Nonsense}
         /\ k \in {"message", "stack"} /\ said(k) # Nonsense => Clipped(said(k))
    BY <1>2, <1>3, <1>4 DEF Has, Clipped
<1>6. Nonsense \notin Text /\ \A t : Clipped(t) => t \in Text
    BY EventSchemaAssumption DEF Clipped
<1> HIDE DEF e, said
<1>7. \A k \in DOMAIN x \cup DOMAIN NoError :
         /\ e[k] \in Text \cup {Nonsense}
         /\ k \in {"message", "stack"} /\ e[k] # Nonsense => Clipped(e[k])
         /\ e[k] = Nonsense <=> said(k) = Nonsense
         /\ \/ e[k] = said(k)
            \/ /\ k \in {"message", "stack"} /\ Length(said(k)) > ErrorLimit
               /\ e[k].shown = ErrorLimit /\ e[k].cut > 0 /\ said(k).shown >= ErrorLimit
    BY <1>1, <1>5, <1>6, ClipIs
<1>8. Troubles(e)
    <2> DEFINE all == DOMAIN x \cup DOMAIN NoError
    <2>1. all \in SUBSET (DOMAIN NoError \cup Details)
        BY <1>2
    <2>2. e \in [all -> Text \cup {Nonsense}]
        BY <1>1, <1>7
    <2> QED
        BY <1>7, <2>1, <2>2 DEF Troubles
<1>9. Tells(e, x)
    <2>1. \A k \in DOMAIN x : said(k) = x[k]
        BY DEF said, Has
    <2> QED
        BY <1>7, <2>1 DEF Tells
<1>10. ASSUME NEW k \in {"type", "message"}, Get(x, k, "") # Nonsense
       PROVE  Get(e, k, "") # Nonsense
    <2>1. k \in DOMAIN x \cup DOMAIN NoError
        BY <1>3
    <2>2. said(k) # Nonsense
        BY <1>3, <1>4, <1>6, <1>10 DEF said, Get, Has
    <2>3. Get(e, k, "") = e[k]
        BY <1>1, <2>1 DEF Get, Has
    <2> QED
        BY <1>7, <2>1, <2>2, <2>3
<1> QED
    BY <1>8, <1>9, <1>10 DEF e

\* What is read of a value that is accepted is accepted, and read again is the same, but for
\* an error.
LEMMA ReadIs ==
    ASSUME NEW key, NEW value, Fits(key, value), Accepts(key, value)
    PROVE  LET r == Read(key, value)
           IN  /\ Fits(key, r) /\ Accepts(key, r)
               /\ key \notin {"tenant_id", "usage", "error"} => r = value
               /\ key = "tenant_id" => r = value \/ value = ""
               /\ key = "usage" /\ value = Nonsense => r = Nonsense
               /\ key = "usage" /\ value # Nonsense => Tallies(value) /\ r = UsageOf(value)
               /\ key = "error" /\ value = Nonsense => r = Nonsense
               /\ key = "error" /\ value # Nonsense =>
                    Troubles(value) /\ r # Nonsense /\ Tells(r, value)
               /\ key # "error" => Read(key, r) = r
<1> DEFINE r == Read(key, value)
<1>0. /\ "tenant_id" \in Known /\ "usage" \in Known /\ "error" \in Known
      /\ "usage" \notin NotNull /\ "error" \notin NotNull
      /\ {"tenant_id", "usage", "error"} \cap DOMAIN Enums = {}
    BY DEF Known, NotNull, Required, Defaults, Enums
<1>1. CASE key \notin {"tenant_id", "usage", "error"}
    <2>1. \A x : Read(key, x) = x
        BY <1>1 DEF Read
    <2> QED
        BY <1>1, <2>1
<1>2. CASE key = "tenant_id"
    <2>1. /\ value = "" => r = "default"
          /\ value # "" => r = value
          /\ \A x : x # "" => Read(key, x) = x
        BY <1>2 DEF Read
    <2>2. "default" # "" /\ "default" # Nonsense /\ "default" # Garbage
        <3>1. "tenant_id" \in DOMAIN Defaults /\ Defaults["tenant_id"] = "default"
            BY DEF Defaults
        <3> QED
            BY <3>1, EventSchemaAssumption
    <2>3. Fits(key, r)
        BY <1>2 DEF Fits
    <2>4. Accepts(key, "default")
        BY <1>0, <1>2, <2>2 DEF Accepts
    <2> HIDE DEF r
    <2>5. r # "" /\ Accepts(key, r)
        BY <2>1, <2>2, <2>4
    <2> QED
        BY <1>2, <2>1, <2>3, <2>5 DEF r
<1>3. CASE key = "usage"
    <2>1. value # Garbage
        BY <1>0, <1>3 DEF Accepts
    <2>2. /\ value = Nonsense => r = Nonsense
          /\ value # Nonsense => r = UsageOf(value)
          /\ Read(key, Nonsense) = Nonsense
          /\ \A x : x # Nonsense => Read(key, x) = UsageOf(x)
        BY <1>3 DEF Read
    <2>3. value # Nonsense => Tallies(value)
        BY <1>3, <2>1 DEF Fits
    <2> HIDE DEF r
    <2>4. r = Nonsense \/ (Tallies(r) /\ UsageOf(r) = r)
        BY <2>2, <2>3, UsageIs
    <2>5. Read(key, r) = r /\ r # Garbage
        BY <2>2, <2>4, TablesAreTables, EventSchemaAssumption
    <2>6. Fits(key, r) /\ Accepts(key, r)
        BY <1>0, <1>3, <2>4, <2>5 DEF Fits, Accepts
    <2> QED
        BY <1>3, <2>2, <2>3, <2>5, <2>6 DEF r
<1>4. CASE key = "error"
    <2>1. value # Garbage
        BY <1>0, <1>4 DEF Accepts
    <2>2. /\ value = Nonsense => r = Nonsense
          /\ value # Nonsense => r = ErrorOf(value)
        BY <1>4 DEF Read
    <2>3. value # Nonsense => Troubles(value)
        BY <1>4, <2>1 DEF Fits
    <2> HIDE DEF r
    <2>4. ASSUME value # Nonsense
          PROVE  /\ Troubles(r) /\ Tells(r, value) /\ r \notin {Nonsense, Garbage}
                 /\ Nonsense \notin {Get(r, "type", ""), Get(r, "message", "")}
        <3>1. Nonsense \notin {Get(value, "type", ""), Get(value, "message", "")}
            BY <1>4, <2>1, <2>4 DEF Accepts
        <3> QED
            BY <2>2, <2>3, <2>4, <3>1, ErrorIs, TablesAreTables
    <2>5. Fits(key, r)
        BY <1>4, <2>2, <2>4 DEF Fits
    <2>6. Accepts(key, r)
        BY <1>0, <1>4, <2>2, <2>4, EventSchemaAssumption DEF Accepts
    <2> QED
        BY <1>4, <2>2, <2>3, <2>4, <2>5, <2>6 DEF r
<1> QED
    BY <1>1, <1>2, <1>3, <1>4

\* So are the values of the fields that nobody sent.
LEMMA DefaultIs ==
    ASSUME NEW key \in Known \ Required
    PROVE  LET value == Get(Defaults, key, Nonsense)
           IN  Fits(key, value) /\ Accepts(key, value) /\ Read(key, value) = value
<1> DEFINE value == Get(Defaults, key, Nonsense)
<1>1. /\ DOMAIN Defaults = {"schema_version", "event_id", "emitted_at", "tenant_id", "kind", "name",
                            "status", "input", "output", "attributes", "environment", "service",
                            "sdk_version"}
      /\ Defaults["tenant_id"] = "default" /\ Defaults["kind"] = "other"
      /\ Defaults["status"] = "running"
    BY DEF Defaults
<1>2. /\ DOMAIN Enums = {"type", "kind", "status"}
      /\ Enums["kind"] = SpanKinds /\ Enums["status"] = SpanStatuses
    BY DEF Enums
<1>3. Required = {"trace_id", "type"}
    BY DEF Required
<1>4. "other" \in SpanKinds /\ "running" \in SpanStatuses
    BY DEF SpanKinds, SpanStatuses
<1>5. CASE key \in DOMAIN Defaults
    <2>1. value = Defaults[key] /\ value # Nonsense /\ value # Garbage
        BY <1>5, EventSchemaAssumption DEF Get, Has
    <2>2. key # "usage" /\ key # "error" /\ key # "type"
        BY <1>1, <1>5
    <2>3. key \in DOMAIN Enums => value \in Enums[key]
        BY <1>1, <1>2, <1>4, <2>1, <2>2
    <2>4. key = "tenant_id" => value # ""
        BY <1>1, <2>1
    <2> HIDE DEF value
    <2> QED
        BY <2>1, <2>2, <2>3, <2>4 DEF value, Fits, Accepts, Read
<1>6. CASE key \notin DOMAIN Defaults
    <2>1. value = Nonsense
        BY <1>6 DEF Get, Has
    <2>2. key \notin NotNull /\ key \notin DOMAIN Enums /\ key # "tenant_id"
        BY <1>1, <1>2, <1>3, <1>6 DEF NotNull
    <2> QED
        BY <2>1, <2>2, EventSchemaAssumption DEF Fits, Accepts, Read
<1> QED
    BY <1>5, <1>6

LEMMA WithIs ==
    ASSUME NEW p, NEW k, NEW x
    PROVE  /\ DOMAIN With(p, k, x) = DOMAIN p \cup {k}
           /\ With(p, k, x)[k] = x
           /\ \A j \in DOMAIN p : j # k => With(p, k, x)[j] = p[j]
BY DEF With

LEMMA RenamedIs ==
    ASSUME NEW p, NEW old, NEW new, old # new
    PROVE  LET q == Renamed(p, old, new)
           IN  /\ Has(q, new) <=> Has(p, new) \/ Has(p, old)
               /\ Has(p, new) => q[new] = p[new]
               /\ ~Has(p, new) /\ Has(p, old) => q[new] = p[old]
               /\ \A j : j # old /\ j # new => /\ Has(q, j) <=> Has(p, j)
                                               /\ Has(p, j) => q[j] = p[j]
<1>1. CASE Has(p, old) /\ ~Has(p, new)
    <2> DEFINE r == Without(p, {old})
    <2>1. DOMAIN r = DOMAIN p \ {old} /\ \A j \in DOMAIN p : j # old => r[j] = p[j]
        BY DEF Without
    <2>2. Renamed(p, old, new) = With(r, new, p[old])
        BY <1>1 DEF Renamed
    <2> HIDE DEF r
    <2>3. /\ DOMAIN With(r, new, p[old]) = DOMAIN r \cup {new}
          /\ With(r, new, p[old])[new] = p[old]
          /\ \A j \in DOMAIN r : j # new => With(r, new, p[old])[j] = r[j]
        BY DEF With
    <2> QED
        BY <1>1, <2>1, <2>2, <2>3 DEF Has
<1>2. CASE ~(Has(p, old) /\ ~Has(p, new))
    <2>1. Renamed(p, old, new) = p
        BY <1>2 DEF Renamed
    <2> QED
        BY <1>2, <2>1
<1> QED
    BY <1>1, <1>2

LEMMA NestedIs ==
    ASSUME NEW p
    PROVE  LET q == NestUsage(p)
           IN  /\ Has(q, "usage") <=> Has(p, "usage") \/ \E c \in Counts : Has(p, c)
               /\ Has(p, "usage") => q["usage"] = p["usage"]
               /\ ~Has(p, "usage") /\ (\E c \in Counts : Has(p, c)) =>
                     q["usage"] = [c \in Counts |-> Get(p, c, 0)]
               /\ \A j : j # "usage" /\ j \notin Counts => /\ Has(q, j) <=> Has(p, j)
                                                           /\ Has(p, j) => q[j] = p[j]
<1>1. CASE Has(p, "usage") \/ Counts \cap DOMAIN p = {}
    <2>1. NestUsage(p) = p
        BY <1>1 DEF NestUsage
    <2>2. ~Has(p, "usage") => \A c \in Counts : ~Has(p, c)
        BY <1>1 DEF Has
    <2> QED
        BY <2>1, <2>2
<1>2. CASE ~(Has(p, "usage") \/ Counts \cap DOMAIN p = {})
    <2> DEFINE r == Without(p, Counts)
               u == [c \in Counts |-> Get(p, c, 0)]
    <2>1. DOMAIN r = DOMAIN p \ Counts /\ \A j \in DOMAIN p : j \notin Counts => r[j] = p[j]
        BY DEF Without
    <2>2. NestUsage(p) = With(r, "usage", u)
        BY <1>2 DEF NestUsage
    <2>3. ~Has(p, "usage") /\ \E c \in Counts : Has(p, c)
        BY <1>2 DEF Has
    <2> HIDE DEF r, u
    <2>4. /\ DOMAIN With(r, "usage", u) = DOMAIN r \cup {"usage"}
          /\ With(r, "usage", u)["usage"] = u
          /\ \A j \in DOMAIN r : j # "usage" => With(r, "usage", u)[j] = r[j]
        BY DEF With
    <2> DEFINE q == NestUsage(p)
    <2>5. Has(q, "usage") /\ q["usage"] = u
        BY <2>2, <2>4 DEF Has
    <2>6. \A j : j # "usage" /\ j \notin Counts => /\ Has(q, j) <=> Has(p, j)
                                                   /\ Has(p, j) => q[j] = p[j]
        BY <2>1, <2>2, <2>4 DEF Has
    <2> HIDE DEF q
    <2> QED
        BY <2>3, <2>5, <2>6 DEF q, u
<1> QED
    BY <1>1, <1>2

\* The upgrade keeps what a payload says, under the names of the new version.
LEMMA UpgradedIs ==
    ASSUME NEW p
    PROVE  LET q == UpgradeV1toV2(p)
           IN  /\ Has(q, "schema_version") /\ q["schema_version"] = 2
               /\ Has(q, "type") <=> Has(p, "type") \/ Has(p, "event_type")
               /\ Has(p, "type") => q["type"] = p["type"]
               /\ ~Has(p, "type") /\ Has(p, "event_type") => q["type"] = p["event_type"]
               /\ Has(q, "name") <=> Has(p, "name") \/ Has(p, "node")
               /\ Has(p, "name") => q["name"] = p["name"]
               /\ ~Has(p, "name") /\ Has(p, "node") => q["name"] = p["node"]
               /\ Has(q, "usage") <=> Has(p, "usage") \/ \E c \in Counts : Has(p, c)
               /\ Has(p, "usage") => q["usage"] = p["usage"]
               /\ ~Has(p, "usage") /\ (\E c \in Counts : Has(p, c)) =>
                     q["usage"] = [c \in Counts |-> Get(p, c, 0)]
               /\ \A j : j \notin Counts \cup {"schema_version", "type", "name", "usage", "node",
                                               "event_type"} =>
                     (Has(q, j) <=> Has(p, j)) /\ (Has(p, j) => q[j] = p[j])
<1> DEFINE a == NestUsage(p)
           b == Renamed(a, "node", "name")
           c == Renamed(b, "event_type", "type")
           q == With(c, "schema_version", 2)
           Same(x, y, j) == (Has(y, j) <=> Has(x, j)) /\ (Has(x, j) => y[j] = x[j])
<1>0. UpgradeV1toV2(p) = q
    BY DEF UpgradeV1toV2
<1>1. /\ Has(a, "usage") <=> Has(p, "usage") \/ \E k \in Counts : Has(p, k)
      /\ Has(p, "usage") => a["usage"] = p["usage"]
      /\ ~Has(p, "usage") /\ (\E k \in Counts : Has(p, k)) =>
            a["usage"] = [k \in Counts |-> Get(p, k, 0)]
      /\ \A j : j # "usage" /\ j \notin Counts => Same(p, a, j)
    BY NestedIs
<1>2. /\ Has(b, "name") <=> Has(a, "name") \/ Has(a, "node")
      /\ Has(a, "name") => b["name"] = a["name"]
      /\ ~Has(a, "name") /\ Has(a, "node") => b["name"] = a["node"]
      /\ \A j : j # "node" /\ j # "name" => Same(a, b, j)
    BY RenamedIs
<1>3. /\ Has(c, "type") <=> Has(b, "type") \/ Has(b, "event_type")
      /\ Has(b, "type") => c["type"] = b["type"]
      /\ ~Has(b, "type") /\ Has(b, "event_type") => c["type"] = b["event_type"]
      /\ \A j : j # "event_type" /\ j # "type" => Same(b, c, j)
    BY RenamedIs
<1>4. Has(q, "schema_version") /\ q["schema_version"] = 2
      /\ \A j : j # "schema_version" => Same(c, q, j)
    <2> HIDE DEF c
    <2>1. /\ DOMAIN With(c, "schema_version", 2) = DOMAIN c \cup {"schema_version"}
          /\ With(c, "schema_version", 2)["schema_version"] = 2
          /\ \A j \in DOMAIN c : j # "schema_version" => With(c, "schema_version", 2)[j] = c[j]
        BY DEF With
    <2> QED
        BY <2>1 DEF Has
<1> HIDE DEF a, b, c, q
<1>5. /\ "usage" \notin Counts /\ "name" \notin Counts /\ "node" \notin Counts
      /\ "type" \notin Counts /\ "event_type" \notin Counts
    BY DEF Counts
<1>6. /\ Has(q, "usage") <=> Has(p, "usage") \/ \E k \in Counts : Has(p, k)
      /\ Has(p, "usage") => q["usage"] = p["usage"]
      /\ ~Has(p, "usage") /\ (\E k \in Counts : Has(p, k)) =>
            q["usage"] = [k \in Counts |-> Get(p, k, 0)]
    <2>1. Same(a, b, "usage") /\ Same(b, c, "usage") /\ Same(c, q, "usage")
        BY <1>2, <1>3, <1>4
    <2> QED
        BY <1>1, <2>1
<1>7. /\ Has(q, "name") <=> Has(p, "name") \/ Has(p, "node")
      /\ Has(p, "name") => q["name"] = p["name"]
      /\ ~Has(p, "name") /\ Has(p, "node") => q["name"] = p["node"]
    <2>1. Same(p, a, "name") /\ Same(p, a, "node") /\ Same(b, c, "name") /\ Same(c, q, "name")
        BY <1>1, <1>3, <1>4, <1>5
    <2> QED
        BY <1>2, <2>1
<1>8. /\ Has(q, "type") <=> Has(p, "type") \/ Has(p, "event_type")
      /\ Has(p, "type") => q["type"] = p["type"]
      /\ ~Has(p, "type") /\ Has(p, "event_type") => q["type"] = p["event_type"]
    <2>1. /\ Same(p, a, "type") /\ Same(p, a, "event_type")
          /\ Same(a, b, "type") /\ Same(a, b, "event_type") /\ Same(c, q, "type")
        BY <1>1, <1>2, <1>4, <1>5
    <2> QED
        BY <1>3, <2>1
<1>9. \A j : j \notin Counts \cup {"schema_version", "type", "name", "usage", "node",
                                   "event_type"} => Same(p, q, j)
    <2> SUFFICES ASSUME NEW j, j \notin Counts \cup {"schema_version", "type", "name", "usage",
                                                    "node", "event_type"}
                 PROVE  Same(p, q, j)
        OBVIOUS
    <2>1. Same(p, a, j) /\ Same(a, b, j) /\ Same(b, c, j) /\ Same(c, q, j)
        BY <1>1, <1>2, <1>3, <1>4
    <2> QED
        BY <2>1
<1> QED
    BY <1>0, <1>4, <1>6, <1>7, <1>8, <1>9

LEMMA UpgradeIs ==
    ASSUME NEW p, ~Has(p, "raised")
    PROVE  LET version == Get(p, "schema_version", 1)
           IN  /\ version = Nonsense => Upgrade(p) = SchemaError
               /\ version \in Int /\ version < MinSupported => Upgrade(p) = SchemaTooOldError
               /\ version \in Int /\ version >= 2 => Upgrade(p) = p
               /\ version = 1 /\ MinSupported = 1 => Upgrade(p) = UpgradeV1toV2(p)
<1> DEFINE version == Get(p, "schema_version", 1)
           Body(f, v) == IF v = version THEN p
                         ELSE IF Fails(f[v - 1]) THEN f[v - 1] ELSE Step(f[v - 1], v - 1)
           at == CHOOSE f : f = [v \in version .. SchemaVersion |-> Body(f, v)]
<1>1. Upgrade(p) = IF version = Nonsense THEN SchemaError
                   ELSE IF version < MinSupported THEN SchemaTooOldError
                   ELSE IF version >= SchemaVersion THEN p
                   ELSE at[SchemaVersion]
    BY DEF Upgrade
<1>2. SchemaVersion = 2 /\ MinSupported \in {1, 2} /\ Nonsense \notin Int
    BY PartsAssumption, EventSchemaAssumption
<1>3. ASSUME version = 1
      PROVE  at[2] = UpgradeV1toV2(p)
    <2> DEFINE f == [v \in 1 .. 2 |-> IF v = 1 THEN p ELSE UpgradeV1toV2(p)]
    <2>1. f[1] = p /\ f[2] = UpgradeV1toV2(p) /\ ~Fails(p)
        BY DEF Fails
    <2>2. Step(p, 1) = UpgradeV1toV2(p)
        BY DEF Step
    <2>3. \A v \in 1 .. 2 : f[v] = Body(f, v)
        <3>1. Body(f, 1) = p
            BY <1>3
        <3>2. Body(f, 2) = UpgradeV1toV2(p)
            BY <1>3, <2>1, <2>2
        <3>3. 1 .. 2 = {1, 2}
            OBVIOUS
        <3> HIDE DEF f
        <3> QED
            BY <2>1, <3>1, <3>2, <3>3
    <2>4. f = [v \in 1 .. 2 |-> f[v]]
        OBVIOUS
    <2> HIDE DEF f
    <2>5. f = [v \in version .. SchemaVersion |-> Body(f, v)]
        <3> HIDE DEF Body, version
        <3> QED
            BY <1>2, <1>3, <2>3, <2>4
    <2>6. at = [v \in version .. SchemaVersion |-> Body(at, v)]
        <3> HIDE DEF Body, version
        <3> QED
            BY <2>5
    <2> HIDE DEF at
    <2>7. at[1] = Body(at, 1) /\ at[2] = Body(at, 2)
        <3> HIDE DEF Body, version
        <3>1. 1 \in version .. SchemaVersion /\ 2 \in version .. SchemaVersion
            BY <1>2, <1>3
        <3> QED
            BY <2>6, <3>1
    <2>8. at[1] = p
        BY <1>3, <2>7
    <2> QED
        BY <1>3, <2>1, <2>2, <2>7, <2>8
<1> HIDE DEF version, at
<1> QED
    BY <1>1, <1>2, <1>3 DEF version

\* What the current version of a payload says, and where the old one said it.
LEMMA CurrentIs ==
    ASSUME NEW p, Readable(p), NEW version \in Int, version = Get(p, "schema_version", 1),
           version >= MinSupported
    PROVE  LET q == Upgrade(p)
               old == version = 1
           IN  /\ ~Has(q, "raised")
               /\ Get(q, "schema_version", 2) \in Int /\ Get(q, "schema_version", 2) >= 2
               /\ Has(q, "type") <=> Has(p, "type") \/ (old /\ Has(p, "event_type"))
               /\ Has(p, "type") => q["type"] = p["type"]
               /\ old /\ ~Has(p, "type") /\ Has(p, "event_type") => q["type"] = p["event_type"]
               /\ Has(q, "name") <=> Has(p, "name") \/ (old /\ Has(p, "node"))
               /\ Has(p, "name") => q["name"] = p["name"]
               /\ old /\ ~Has(p, "name") /\ Has(p, "node") => q["name"] = p["node"]
               /\ Has(p, "usage") => Has(q, "usage") /\ q["usage"] = p["usage"]
               /\ ~Has(p, "usage") /\ Has(q, "usage") => Tallies(q["usage"])
               /\ old /\ ~Has(p, "usage") /\ (\E c \in Counts : Has(p, c)) =>
                     Has(q, "usage") /\ q["usage"] = [c \in Counts |-> Get(p, c, 0)]
               /\ \A j : j \notin Counts \cup {"schema_version", "type", "name", "usage", "node",
                                               "event_type"} =>
                     (Has(q, j) <=> Has(p, j)) /\ (Has(p, j) => q[j] = p[j])
<1> DEFINE q == Upgrade(p)
<1>1. ~Has(p, "raised") /\ MinSupported \in {1, 2}
    BY PartsAssumption, EventSchemaAssumption DEF Readable
<1>2. "raised" \notin Counts
    BY DEF Counts
<1>3. CASE version >= 2
    <2>1. q = p
        BY <1>1, <1>3, UpgradeIs
    <2>2. Get(p, "schema_version", 2) \in Int /\ Get(p, "schema_version", 2) >= 2
        BY <1>3 DEF Get
    <2>3. version # 1
        BY <1>3
    <2> HIDE DEF q
    <2> QED
        BY <1>1, <2>1, <2>2, <2>3 DEF q
<1>4. CASE version = 1
    <2>1. MinSupported = 1 /\ q = UpgradeV1toV2(p)
        BY <1>1, <1>4, UpgradeIs
    <2>2. /\ Has(q, "schema_version") /\ q["schema_version"] = 2
          /\ Has(q, "type") <=> Has(p, "type") \/ Has(p, "event_type")
          /\ Has(p, "type") => q["type"] = p["type"]
          /\ ~Has(p, "type") /\ Has(p, "event_type") => q["type"] = p["event_type"]
          /\ Has(q, "name") <=> Has(p, "name") \/ Has(p, "node")
          /\ Has(p, "name") => q["name"] = p["name"]
          /\ ~Has(p, "name") /\ Has(p, "node") => q["name"] = p["node"]
          /\ Has(q, "usage") <=> Has(p, "usage") \/ \E c \in Counts : Has(p, c)
          /\ Has(p, "usage") => q["usage"] = p["usage"]
          /\ ~Has(p, "usage") /\ (\E c \in Counts : Has(p, c)) =>
                q["usage"] = [c \in Counts |-> Get(p, c, 0)]
          /\ \A j : j \notin Counts \cup {"schema_version", "type", "name", "usage", "node",
                                          "event_type"} =>
                (Has(q, j) <=> Has(p, j)) /\ (Has(p, j) => q[j] = p[j])
        BY <2>1, UpgradedIs
    <2> HIDE DEF q
    <2>3. ~Has(q, "raised")
        BY <1>1, <1>2, <2>2
    <2>4. Get(q, "schema_version", 2) = 2
        BY <2>2 DEF Get
    <2> DEFINE tally == [c \in Counts |-> Get(p, c, 0)]
    <2>5. tally \in [Counts -> CountValue]
        BY DEF Readable, Has, Get, CountValue
    <2>6. Tallies(tally)
        <3>1. Counts \in SUBSET (Counts \cup Details)
            OBVIOUS
        <3> HIDE DEF tally
        <3> QED
            BY <2>5, <3>1 DEF Tallies
    <2>7. ~Has(p, "usage") /\ Has(q, "usage") => Tallies(q["usage"])
        BY <2>2, <2>6
    <2> QED
        BY <1>4, <2>2, <2>3, <2>4, <2>7 DEF q
<1>5. version >= 2 \/ version = 1
    BY <1>1
<1> QED
    BY <1>3, <1>4, <1>5

\* An event has a value for every field that is known, and those of the payload beside them.
LEMMA EventIs ==
    ASSUME NEW q, Valid(q), \A key \in {"usage", "error"} : Has(q, key) => Fits(key, q[key])
    PROVE  LET e == Event(q)
           IN  /\ DOMAIN e = Known \cup DOMAIN q
               /\ \A key \in DOMAIN q : e[key] = Read(key, q[key])
               /\ \A key \in Known \ DOMAIN q : e[key] = Get(Defaults, key, Nonsense)
               /\ \A key \in DOMAIN q : Fits(key, q[key]) /\ Accepts(key, q[key])
               /\ \A key \in DOMAIN e : Fits(key, e[key]) /\ Accepts(key, e[key])
               /\ \A key \in DOMAIN e : key # "error" => Read(key, e[key]) = e[key]
               /\ Valid(e)
<1> DEFINE e == Event(q)
<1>1. e = [key \in Known \cup DOMAIN q |->
             IF Has(q, key) THEN Read(key, q[key]) ELSE Get(Defaults, key, Nonsense)]
    BY DEF Event
<1>2. /\ DOMAIN e = Known \cup DOMAIN q
      /\ \A key \in DOMAIN q : e[key] = Read(key, q[key])
      /\ \A key \in Known \ DOMAIN q : e[key] = Get(Defaults, key, Nonsense)
    BY <1>1 DEF Has
<1> HIDE DEF e
<1>3. /\ Required \subseteq DOMAIN q
      /\ \A key \in DOMAIN q : Fits(key, q[key]) /\ Accepts(key, q[key])
    BY DEF Valid, Fits, Has
<1>4. ASSUME NEW key \in DOMAIN e
      PROVE  /\ Fits(key, e[key]) /\ Accepts(key, e[key])
             /\ key # "error" => Read(key, e[key]) = e[key]
    <2>1. CASE key \in DOMAIN q
        <3>1. LET x == Read(key, q[key])
              IN  Fits(key, x) /\ Accepts(key, x) /\ (key # "error" => Read(key, x) = x)
            BY <1>3, <2>1, ReadIs
        <3> QED
            BY <1>2, <2>1, <3>1
    <2>2. CASE key \notin DOMAIN q
        <3>1. key \in Known \ Required
            BY <1>2, <1>3, <2>2
        <3>2. LET x == Get(Defaults, key, Nonsense)
              IN  Fits(key, x) /\ Accepts(key, x) /\ Read(key, x) = x
            BY <3>1, DefaultIs
        <3> QED
            BY <1>2, <2>2, <3>1, <3>2
    <2> QED
        BY <2>1, <2>2
<1>5. Valid(e)
    BY <1>2, <1>3, <1>4 DEF Valid
<1> QED
    BY <1>2, <1>3, <1>4, <1>5 DEF e

\* Any event that is written and read again is the same, but for the number in the mark of an
\* error that was cut off.
THEOREM ReadAgain ==
    ASSUME NEW q, Valid(q), \A key \in {"usage", "error"} : Has(q, key) => Fits(key, q[key]),
           ~Has(q, "raised"),
           Get(q, "schema_version", 2) \in Int, Get(q, "schema_version", 2) >= 2
    PROVE  /\ Parse(Encode(Event(q))) = Event(Event(q))
           /\ ReadsAgain(Event(q))
<1> DEFINE e == Event(q)
           again == Event(e)
<1>1. /\ DOMAIN e = Known \cup DOMAIN q
      /\ \A key \in DOMAIN q : e[key] = Read(key, q[key])
      /\ \A key \in Known \ DOMAIN q : e[key] = Get(Defaults, key, Nonsense)
      /\ \A key \in DOMAIN q : Fits(key, q[key]) /\ Accepts(key, q[key])
      /\ \A key \in DOMAIN e : Fits(key, e[key]) /\ Accepts(key, e[key])
      /\ \A key \in DOMAIN e : key # "error" => Read(key, e[key]) = e[key]
      /\ Valid(e)
    BY EventIs
<1> HIDE DEF e
<1>2. /\ DOMAIN again = Known \cup DOMAIN e
      /\ \A key \in DOMAIN e : again[key] = Read(key, e[key])
    <2>1. \A key \in {"usage", "error"} : Has(e, key) => Fits(key, e[key])
        BY <1>1 DEF Has
    <2> QED
        BY <1>1, <2>1, EventIs
<1> HIDE DEF again
<1>3. /\ "schema_version" \in Known /\ "error" \in Known /\ "raised" \notin Known
      /\ "schema_version" \notin {"tenant_id", "usage", "error"}
    BY DEF Known, NotNull, Required, Defaults
<1>4. /\ Has(e, "schema_version")
      /\ e["schema_version"] = Get(q, "schema_version", 2)
    <2>1. CASE Has(q, "schema_version")
        <3>1. e["schema_version"] = Read("schema_version", q["schema_version"])
            BY <1>1, <2>1 DEF Has
        <3>2. Read("schema_version", q["schema_version"]) = q["schema_version"]
            BY <1>3 DEF Read
        <3> QED
            BY <1>1, <1>3, <2>1, <3>1, <3>2 DEF Has, Get
    <2>2. CASE ~Has(q, "schema_version")
        <3>1. Get(Defaults, "schema_version", Nonsense) = 2
            BY PartsAssumption DEF Get, Has, Defaults
        <3> QED
            BY <1>1, <1>3, <2>2, <3>1 DEF Has, Get
    <2> QED
        BY <2>1, <2>2
<1>5. ~Has(e, "raised")
    BY <1>1, <1>3 DEF Has
<1>6. Parse(Encode(e)) = ParseEvent(e)
    <2>1. Encode(e) = [v |-> e.schema_version, data |-> e]
        BY DEF Encode
    <2>2. Has(Encode(e), "data") /\ Encode(e).data = e
        BY <2>1 DEF Has
    <2>3. Decode(Encode(e)) = e
        BY <1>4, <2>2 DEF Decode
    <2> QED
        BY <1>5, <2>3 DEF Parse, Fails
<1>7. Upgrade(e) = e
    <2>1. Get(e, "schema_version", 1) = e["schema_version"]
        BY <1>4 DEF Get
    <2> QED
        BY <1>4, <1>5, <2>1, UpgradeIs
<1>8. Parse(Encode(e)) = again
    BY <1>1, <1>5, <1>6, <1>7 DEF ParseEvent, Fails, again
<1>9. DOMAIN again = DOMAIN e
    BY <1>1, <1>2
<1>10. \A key \in DOMAIN e \ {"error"} : again[key] = e[key]
    BY <1>1, <1>2
<1>11. IF e["error"] = Nonsense THEN again["error"] = Nonsense ELSE Tells(again["error"], e["error"])
    <2>1. /\ Fits("error", e["error"]) /\ Accepts("error", e["error"])
          /\ again["error"] = Read("error", e["error"])
        BY <1>1, <1>2, <1>3
    <2>2. /\ e["error"] = Nonsense => Read("error", e["error"]) = Nonsense
          /\ e["error"] # Nonsense => Tells(Read("error", e["error"]), e["error"])
        <3> DEFINE was == e["error"]
        <3> HIDE DEF was
        <3>1. Fits("error", was) /\ Accepts("error", was)
            BY <2>1 DEF was
        <3>2. /\ was = Nonsense => Read("error", was) = Nonsense
              /\ was # Nonsense => Tells(Read("error", was), was)
            <4>1. /\ was = Nonsense => Read("error", was) = Nonsense
                  /\ was # Nonsense => Read("error", was) = ErrorOf(was)
                BY DEF Read
            <4>2. was # Nonsense => Troubles(was)
                BY <1>3, <3>1 DEF Fits, Accepts
            <4> QED
                BY <4>1, <4>2, ErrorIs
        <3> QED
            BY <3>2 DEF was
    <2> QED
        BY <2>1, <2>2
<1> QED
    BY <1>8, <1>9, <1>10, <1>11 DEF ReadsAgain, e, again

-------------------------------------------------------------------------------
(* Prices                                                                  *)

LEMMA PartIsShorter ==
    ASSUME NEW name \in Seq(Letters), NEW key \in Seq(Letters), HasPart(name, key)
    PROVE  Len(key) <= Len(name)
<1>1. PICK i \in 0 .. Len(name) - Len(key) : SubSeq(name, i + 1, i + Len(key)) = key
    BY DEF HasPart
<1>2. Len(name) \in Nat /\ Len(key) \in Nat
    OBVIOUS
<1> QED
    BY <1>1, <1>2

\* Of the keys that fit, one is the longest.
LEMMA LookupIs ==
    ASSUME NEW name \in Seq(Letters), \E k \in DOMAIN Prices : HasPart(name, k)
    PROVE  \E l \in DOMAIN Prices :
              /\ Lookup(name) = Prices[l] /\ HasPart(name, l)
              /\ \A k \in DOMAIN Prices : HasPart(name, k) => Len(k) <= Len(l)
<1> DEFINE fits == {k \in DOMAIN Prices : HasPart(name, k)}
           Short == {Len(name) - Len(k) : k \in fits}
<1>1. \A k \in fits : Len(k) \in Nat /\ Len(k) <= Len(name)
    BY PartIsShorter, EventSchemaAssumption
<1>2. Short \in SUBSET Nat /\ Short # {}
    BY <1>1
<1>3. PICK x \in Short : \A y \in Short : x <= y
    <2> HIDE DEF Short
    <2> QED
        BY <1>2, LeastElement
<1>4. PICK l \in fits : x = Len(name) - Len(l)
    BY <1>3
<1>5. \A k \in fits : Len(k) <= Len(l)
    <2> SUFFICES ASSUME NEW k \in fits
                 PROVE  Len(k) <= Len(l)
        OBVIOUS
    <2>1. Len(name) - Len(l) <= Len(name) - Len(k)
        BY <1>3, <1>4
    <2>2. Len(name) \in Nat /\ Len(k) \in Nat /\ Len(l) \in Nat
        BY <1>1
    <2> QED
        BY <2>1, <2>2
<1> DEFINE longest == CHOOSE k \in fits : \A j \in fits : Len(j) <= Len(k)
<1>6. longest \in fits /\ \A j \in fits : Len(j) <= Len(longest)
    BY <1>4, <1>5
<1>7. Lookup(name) = Prices[longest]
    BY <1>4 DEF Lookup
<1> HIDE DEF longest
<1> QED
    BY <1>6, <1>7

\* A cost is rounded to the nearest millionth.
LEMMA RoundedIs ==
    ASSUME NEW n \in Nat
    PROVE  Rounded(n) \in Nat /\ 1000 * Rounded(n) \in n - 500 .. n + 500
<1> DEFINE whole == n \div 1000
           rest == n % 1000
<1>1. whole \in Nat /\ rest \in 0 .. 999 /\ n = 1000 * whole + rest
    OBVIOUS
<1>2. Rounded(n) = IF rest > 500 \/ (rest = 500 /\ whole % 2 = 1) THEN whole + 1 ELSE whole
    BY DEF Rounded
<1> HIDE DEF whole, rest
<1>3. CASE Rounded(n) = whole /\ rest <= 500
    BY <1>1, <1>3
<1>4. CASE Rounded(n) = whole + 1 /\ rest >= 500
    BY <1>1, <1>4
<1> QED
    BY <1>1, <1>2, <1>3, <1>4

\* The price of a name whose key was found is a price.
LEMMA PriceIs ==
    ASSUME NEW l \in DOMAIN Prices
    PROVE  Prices[l].input \in Nat /\ Prices[l].output \in Nat /\ Prices[l] # <<>>
<1>1. Prices[l] \in [input : Nat, output : Nat]
    BY EventSchemaAssumption
<1>2. "input" \in DOMAIN Prices[l] /\ DOMAIN << >> = {}
    BY <1>1
<1> QED
    BY <1>1, <1>2

\* A cost in millionths is as near to the exact one, in thousandths of them, as it can be.
NearTo(cost, exact) == 1000 * cost \in exact - 500 .. exact + 500

\* For any price table and any name: a cost is never negative, and it is that of the longest key
\* which the name contains.
THEOREM CostsTheLongestKey ==
    ASSUME NEW name \in Seq(Letters), NEW p \in Nat, NEW c \in Nat
    PROVE  /\ CostMicros(name, p, c) \in Nat
           /\ CostMicros(name, 0, 0) = 0
           /\ \A k \in DOMAIN Prices : HasPart(name, k) =>
                 \E l \in DOMAIN Prices :
                    /\ HasPart(name, l) /\ Len(l) >= Len(k)
                    /\ NearTo(CostMicros(name, p, c), p * Prices[l].input + c * Prices[l].output)
<1>1. CASE \A k \in DOMAIN Prices : ~HasPart(name, k)
    <2>1. Lookup(name) = <<>>
        BY <1>1 DEF Lookup
    <2>2. \A a, b : CostMicros(name, a, b) = 0
        BY <2>1 DEF CostMicros
    <2> QED
        BY <1>1, <2>2
<1>2. CASE \E k \in DOMAIN Prices : HasPart(name, k)
    <2>1. PICK l \in DOMAIN Prices :
            /\ Lookup(name) = Prices[l] /\ HasPart(name, l)
            /\ \A k \in DOMAIN Prices : HasPart(name, k) => Len(k) <= Len(l)
        BY <1>2, LookupIs
    <2> DEFINE i == Prices[l].input
               o == Prices[l].output
               exact(a, b) == a * i + b * o
    <2>2. i \in Nat /\ o \in Nat /\ Prices[l] # <<>>
        BY PriceIs
    <2>3. \A a, b \in Nat : CostMicros(name, a, b) = Rounded(exact(a, b))
        <3> SUFFICES ASSUME NEW a \in Nat, NEW b \in Nat
                     PROVE  CostMicros(name, a, b) = Rounded(exact(a, b))
            OBVIOUS
        <3>1. NoLess(a) = a /\ NoLess(b) = b
            BY DEF NoLess
        <3> QED
            BY <2>1, <2>2, <3>1 DEF CostMicros
    <2> HIDE DEF i, o
    <2>4. p * i \in Nat /\ c * o \in Nat
        BY <2>2
    <2>5. exact(p, c) \in Nat /\ exact(0, 0) = 0
        BY <2>2, <2>4
    <2> HIDE DEF exact
    <2>6. \A n \in Nat : Rounded(n) \in Nat /\ 1000 * Rounded(n) \in n - 500 .. n + 500
        BY RoundedIs
    <2>7. Rounded(0) = 0
        <3> DEFINE r == Rounded(0)
        <3>1. r \in Nat /\ 1000 * r <= 0 + 500
            BY <2>6
        <3> HIDE DEF r
        <3>2. r = 0
            BY <3>1
        <3> QED
            BY <3>2 DEF r
    <2>8. \A k \in DOMAIN Prices : HasPart(name, k) => Len(l) >= Len(k)
        <3> SUFFICES ASSUME NEW k \in DOMAIN Prices, HasPart(name, k)
                     PROVE  Len(l) >= Len(k)
            OBVIOUS
        <3>1. Len(k) \in Nat /\ Len(l) \in Nat
            BY EventSchemaAssumption
        <3> QED
            BY <2>1, <3>1
    <2> DEFINE m == exact(p, c)
    <2>9. m \in Nat /\ CostMicros(name, p, c) = Rounded(m) /\ CostMicros(name, 0, 0) = 0
        <3>1. CostMicros(name, p, c) = Rounded(exact(p, c))
            BY <2>3
        <3>2. CostMicros(name, 0, 0) = Rounded(exact(0, 0))
            BY <2>3
        <3> QED
            BY <2>5, <2>7, <3>1, <3>2
    <2>10. m = p * Prices[l].input + c * Prices[l].output
        BY DEF exact, i, o
    <2> HIDE DEF m
    <2>11. CostMicros(name, p, c) \in Nat /\ NearTo(CostMicros(name, p, c), m)
        BY <2>6, <2>9 DEF NearTo
    <2>12. NearTo(CostMicros(name, p, c), p * Prices[l].input + c * Prices[l].output)
        BY <2>10, <2>11, Zenon
    <2> QED
        BY <2>1, <2>8, <2>9, <2>11, <2>12, Zenon
<1> QED
    BY <1>1, <1>2

-------------------------------------------------------------------------------
(* What a payload says                                                     *)

\* The entry is read as the payload, with the version that stood beside it.
LEMMA DecodedIs ==
    ASSUME NEW p, Readable(p), NEW v \in {2, Nonsense}
    PROVE  LET d == Decode([v |-> v, data |-> p])
           IN  /\ Readable(d)
               /\ Parse([v |-> v, data |-> p]) = ParseEvent(d)
               /\ Get(d, "schema_version", 1)
                    = Get(p, "schema_version", IF v = Nonsense THEN 1 ELSE v)
               /\ \A j : j # "schema_version" => /\ Has(d, j) <=> Has(p, j)
                                                 /\ Has(p, j) => d[j] = p[j]
<1> DEFINE entry == [v |-> v, data |-> p]
           d == Decode(entry)
<1>1. Has(entry, "data") /\ entry.data = p /\ entry.v = v
    BY DEF Has
<1>2. d = IF Has(p, "schema_version") \/ v = Nonsense THEN p ELSE With(p, "schema_version", v)
    <2> HIDE DEF entry
    <2> QED
        BY <1>1 DEF Decode
<1>3. ASSUME ~Fails(d)
      PROVE  Parse(entry) = ParseEvent(d)
    BY <1>3 DEF Parse
<1>4. CASE Has(p, "schema_version") \/ v = Nonsense
    <2>1. d = p
        BY <1>2, <1>4
    <2> HIDE DEF d, entry
    <2>2. ~Fails(d)
        BY <2>1 DEF Readable, Fails
    <2>3. Get(p, "schema_version", 1) = Get(p, "schema_version", IF v = Nonsense THEN 1 ELSE v)
        BY <1>4 DEF Get
    <2> QED
        BY <1>3, <2>1, <2>2, <2>3 DEF d, entry
<1>5. CASE ~(Has(p, "schema_version") \/ v = Nonsense)
    <2>1. d = With(p, "schema_version", 2) /\ v = 2 /\ v # Nonsense
        BY <1>2, <1>5
    <2> HIDE DEF d, entry
    <2>2. /\ DOMAIN d = DOMAIN p \cup {"schema_version"}
          /\ d["schema_version"] = 2
          /\ \A j \in DOMAIN p : j # "schema_version" => d[j] = p[j]
        BY <2>1 DEF With
    <2>3. \A j : j # "schema_version" => /\ Has(d, j) <=> Has(p, j)
                                         /\ Has(p, j) => d[j] = p[j]
        BY <2>2 DEF Has
    <2>4. ~Has(d, "raised")
        BY <2>3 DEF Readable
    <2>5. \A c \in Counts : Has(d, c) => d[c] \in CountValue
        <3>1. \A c \in Counts : c # "schema_version"
            BY DEF Counts
        <3> QED
            BY <2>3, <3>1 DEF Readable
    <2>6. Readable(d)
        BY <2>2, <2>3, <2>4, <2>5 DEF Readable, CountValue
    <2>7. /\ Get(d, "schema_version", 1) = 2
          /\ Get(p, "schema_version", IF v = Nonsense THEN 1 ELSE v) = 2
        BY <1>5, <2>1, <2>2 DEF Get, Has
    <2> QED
        BY <1>3, <2>3, <2>4, <2>6, <2>7 DEF d, entry, Fails
<1> QED
    BY <1>4, <1>5

\* A field that is known refuses what does not fit it, and no other value; a field that is not
\* known refuses nothing.
LEMMA MisfitIs ==
    ASSUME NEW key, NEW value
    PROVE  Accepts(key, value) <=> ~(key \in Known /\ Misfit(key, value))
<1>1. /\ "error" \in Known /\ "error" \notin NotNull /\ NotNull \subseteq Known
      /\ DOMAIN Enums = {"type", "kind", "status"} /\ DOMAIN Enums \subseteq Known
      /\ "error" \notin DOMAIN Enums
    BY DEF Known, NotNull, Required, Defaults, Enums
<1>2. Nonsense # ""
    <2>1. "name" \in DOMAIN Defaults /\ Defaults["name"] = ""
        BY DEF Defaults
    <2> QED
        BY <2>1, EventSchemaAssumption
<1>3. ASSUME value \notin {Nonsense, Garbage}
      PROVE  Nonsense \notin {Get(value, "type", ""), Get(value, "message", "")} <=>
               ~\E k \in {"type", "message"} : Has(value, k) /\ value[k] = Nonsense
    BY <1>2 DEF Get
<1> DEFINE names == Nonsense \notin {Get(value, "type", ""), Get(value, "message", "")}
           null == \E k \in {"type", "message"} : Has(value, k) /\ value[k] = Nonsense
<1>4. value \notin {Nonsense, Garbage} => (names <=> ~null)
    BY <1>3
<1>5. Accepts(key, value) <=>
        /\ key \in Known => value # Garbage
        /\ key \in NotNull => value # Nonsense
        /\ key \in DOMAIN Enums => value \in Enums[key]
        /\ key = "error" /\ value \notin {Nonsense, Garbage} => names
    BY DEF Accepts
<1>6. Misfit(key, value) <=>
        \/ value = Garbage
        \/ value = Nonsense /\ key \in NotNull
        \/ key \in DOMAIN Enums /\ value \notin Enums[key]
        \/ key = "error" /\ value # Nonsense /\ null
    BY DEF Misfit
<1> HIDE DEF names, null
<1> QED
    BY <1>1, <1>4, <1>5, <1>6

\* The cost of an event is never negative, and that of its tokens by the longest key that fits.
LEMMA CostIs ==
    ASSUME NEW event, event.model \in Seq(Letters) \cup {Nonsense},
           event.usage = Nonsense \/ \A k \in Counts : event.usage[k] \in Nat
    PROVE  /\ CostOf(event) >= 0
           /\ event.model # Nonsense /\ event.usage # Nonsense =>
                \A k \in DOMAIN Prices :
                   HasPart(event.model, k) =>
                     \E l \in DOMAIN Prices :
                        /\ HasPart(event.model, l) /\ Len(l) >= Len(k)
                        /\ 1000 * CostOf(event) \in
                             LET exact == event.usage["prompt_tokens"] * Prices[l].input
                                          + event.usage["completion_tokens"] * Prices[l].output
                             IN  exact - 500 .. exact + 500
<1>1. CASE event.model = Nonsense
    BY <1>1 DEF CostOf
<1>2. CASE event.model # Nonsense /\ event.usage = Nonsense
    <2> DEFINE name == event.model
    <2>1. name \in Seq(Letters) /\ CostOf(event) = CostMicros(name, 0, 0)
        BY <1>2 DEF CostOf
    <2> HIDE DEF name
    <2>2. CostMicros(name, 0, 0) = 0
        BY <2>1, CostsTheLongestKey
    <2> QED
        BY <1>2, <2>1, <2>2
<1>3. CASE event.model # Nonsense /\ event.usage # Nonsense
    <2> DEFINE name == event.model
               p == event.usage["prompt_tokens"]
               c == event.usage["completion_tokens"]
    <2>1. p \in Nat /\ c \in Nat /\ name \in Seq(Letters)
        BY <1>3 DEF Counts
    <2>2. CostOf(event) = CostMicros(name, p, c)
        BY <1>3 DEF CostOf
    <2> HIDE DEF name, p, c
    <2>3. CostOf(event) >= 0
        <3>1. CostMicros(name, p, c) \in Nat
            BY <2>1, CostsTheLongestKey
        <3> QED
            BY <2>2, <3>1
    <2> DEFINE Right(e) ==
                 1000 * CostOf(event) \in
                   LET exact == event.usage["prompt_tokens"] * Prices[e].input
                                + event.usage["completion_tokens"] * Prices[e].output
                   IN  exact - 500 .. exact + 500
    <2>4. ASSUME NEW k \in DOMAIN Prices, HasPart(event.model, k)
          PROVE  \E l \in DOMAIN Prices :
                    HasPart(event.model, l) /\ Len(l) >= Len(k) /\ Right(l)
        <3>1. HasPart(name, k)
            BY <2>4 DEF name
        <3>2. PICK l \in DOMAIN Prices :
                /\ HasPart(name, l) /\ Len(l) >= Len(k)
                /\ NearTo(CostMicros(name, p, c), p * Prices[l].input + c * Prices[l].output)
            BY <2>1, <3>1, CostsTheLongestKey
        <3>3. NearTo(CostOf(event), p * Prices[l].input + c * Prices[l].output)
            BY <2>2, <3>2, Zenon
        <3>4. Right(l)
            BY <3>3, Zenon DEF NearTo, p, c
        <3>5. HasPart(event.model, l) /\ Len(l) >= Len(k)
            BY <3>2 DEF name
        <3> HIDE DEF Right
        <3> QED
            BY <3>4, <3>5
    <2> QED
        BY <2>3, <2>4, Zenon DEF Right
<1> QED
    BY <1>1, <1>2, <1>3

\* Of any payload, whoever wrote it: it is an error exactly if its version is none or too old, if
\* it has no trace or no type, or if a field has what does not fit it; otherwise it is an event
\* with what was said, under the names of its version.
THEOREM ReadsWhatWasSaid ==
    ASSUME NEW p, Readable(p), NEW v \in {2, Nonsense}
    PROVE  PayloadSurvives(p, v)
<1> DEFINE entry == [v |-> v, data |-> p]
           event == Parse(entry)
           version == Get(p, "schema_version", IF v = Nonsense THEN 1 ELSE v)
           old == version = 1
           said(key) ==
             IF Has(p, key) THEN {p[key]}
             ELSE IF old /\ key = "type" /\ Has(p, "event_type") THEN {p["event_type"]}
             ELSE IF old /\ key = "name" /\ Has(p, "node") THEN {p["node"]}
             ELSE {}
           flat(c) == Get(p, c, 0)
           d == Decode(entry)
           q == Upgrade(d)
           Bad == \/ version = Nonsense \/ version < MinSupported
                  \/ said("trace_id") = {} \/ said("type") = {}
                  \/ \E key \in Known \ {"schema_version"} :
                        \E value \in said(key) : Misfit(key, value)
           Fields1 == \A key \in Known \ {"schema_version", "tenant_id", "usage", "error"} :
                         said(key) \subseteq {event[key]}
           Tenant1 == said("tenant_id") \subseteq {event.tenant_id, ""}
           Counts1 == event.usage # Nonsense => \A c \in Counts : event.usage[c] >= 0
           Flat1 == old /\ ~Has(p, "usage") /\ Counts \cap DOMAIN p # {} =>
                      /\ event.usage # Nonsense
                      /\ event.usage["prompt_tokens"] = Coerced(flat("prompt_tokens"))
                      /\ event.usage["total_tokens"] >= Coerced(flat("total_tokens"))
           Usage1 == \A usage \in said("usage") \ {Nonsense} : \A k \in DOMAIN usage \ Counts :
                        event.usage[k] = usage[k]
           Error1 == \A error \in said("error") \ {Nonsense} : Tells(event.error, error)
           Others1 == \A key \in DOMAIN p \ (Known \cup Counts \cup {"node", "event_type"}) :
                         event[key] = p[key]
           Costs1 == /\ CostOf(event) >= 0
                     /\ event.model # Nonsense /\ event.usage # Nonsense =>
                          \A k \in DOMAIN Prices :
                             HasPart(event.model, k) =>
                               \E l \in DOMAIN Prices :
                                  /\ HasPart(event.model, l) /\ Len(l) >= Len(k)
                                  /\ 1000 * CostOf(event) \in
                                       LET exact == event.usage["prompt_tokens"] * Prices[l].input
                                             + event.usage["completion_tokens"] * Prices[l].output
                                       IN  exact - 500 .. exact + 500
           Kept == /\ Fields1 /\ Tenant1 /\ Counts1 /\ Flat1 /\ Usage1 /\ Error1 /\ Others1
                   /\ ReadsAgain(event) /\ Costs1
<1>1. /\ Readable(d) /\ event = ParseEvent(d) /\ Get(d, "schema_version", 1) = version
      /\ \A j : j # "schema_version" => (Has(d, j) <=> Has(p, j)) /\ (Has(p, j) => d[j] = p[j])
    BY DecodedIs
<1> HIDE DEF d
<1>2. version \in CountValue
    <2>1. v = Nonsense \/ v = 2
        OBVIOUS
    <2> QED
        BY <2>1 DEF Readable, CountValue, Get
<1> HIDE DEF version
<1>3. ~Has(d, "raised")
    BY <1>1 DEF Readable
<1>4. ASSUME version = Nonsense \/ version < MinSupported
      PROVE  Fails(event) /\ Bad
    <2>1. q = SchemaError \/ q = SchemaTooOldError
        <3>1. CASE version = Nonsense
            BY <1>1, <1>3, <3>1, UpgradeIs
        <3>2. CASE version # Nonsense
            <4>1. version \in Int /\ version < MinSupported
                BY <1>2, <1>4, <3>2 DEF CountValue
            <4> QED
                BY <1>1, <1>3, <4>1, UpgradeIs
        <3> QED
            BY <3>1, <3>2
    <2>2. Fails(q)
        BY <2>1 DEF SchemaError, SchemaTooOldError, Fails, Has
    <2>3. event = q
        BY <1>1, <2>2 DEF ParseEvent
    <2> HIDE DEF q, event
    <2> QED
        BY <1>4, <2>2, <2>3
<1>5. ASSUME version # Nonsense, ~(version < MinSupported)
      PROVE  (Fails(event) <=> Bad) /\ (~Fails(event) => Kept)
    <2>0. /\ {"trace_id", "type", "name", "usage", "error", "tenant_id", "model",
              "schema_version"} \subseteq Known
          /\ "raised" \notin Known /\ Known \cap Counts = {}
          /\ "node" \notin Known /\ "event_type" \notin Known
          /\ Required = {"trace_id", "type"}
        BY DEF Known, NotNull, Required, Defaults, Counts
    <2>1. version \in Int /\ version >= MinSupported
        BY <1>2, <1>5, EventSchemaAssumption DEF CountValue
    <2>2. /\ ~Has(q, "raised")
          /\ Get(q, "schema_version", 2) \in Int /\ Get(q, "schema_version", 2) >= 2
          /\ Has(q, "type") <=> Has(d, "type") \/ (old /\ Has(d, "event_type"))
          /\ Has(d, "type") => q["type"] = d["type"]
          /\ old /\ ~Has(d, "type") /\ Has(d, "event_type") => q["type"] = d["event_type"]
          /\ Has(q, "name") <=> Has(d, "name") \/ (old /\ Has(d, "node"))
          /\ Has(d, "name") => q["name"] = d["name"]
          /\ old /\ ~Has(d, "name") /\ Has(d, "node") => q["name"] = d["node"]
          /\ Has(d, "usage") => Has(q, "usage") /\ q["usage"] = d["usage"]
          /\ ~Has(d, "usage") /\ Has(q, "usage") => Tallies(q["usage"])
          /\ old /\ ~Has(d, "usage") /\ (\E c \in Counts : Has(d, c)) =>
                Has(q, "usage") /\ q["usage"] = [c \in Counts |-> Get(d, c, 0)]
          /\ \A j : j \notin Counts \cup {"schema_version", "type", "name", "usage", "node",
                                          "event_type"} =>
                (Has(q, j) <=> Has(d, j)) /\ (Has(d, j) => q[j] = d[j])
        BY <1>1, <2>1, CurrentIs
    <2>3. event = IF Valid(q) THEN Event(q) ELSE ValidationError
        <3>1. ~Fails(q)
            BY <2>2 DEF Fails
        <3> QED
            BY <1>1, <3>1 DEF ParseEvent
    <2> HIDE DEF q, event, entry
    <2>4. ASSUME NEW key \in Known \ {"schema_version", "usage"}
          PROVE  said(key) = IF Has(q, key) THEN {q[key]} ELSE {}
        <3>1. CASE key = "type"
            BY <1>1, <2>2, <3>1
        <3>2. CASE key = "name"
            BY <1>1, <2>2, <3>2
        <3>3. CASE key # "type" /\ key # "name"
            <4>1. key \notin Counts \cup {"schema_version", "type", "name", "usage", "node",
                                          "event_type"}
                BY <2>0, <3>3
            <4>2. (Has(q, key) <=> Has(p, key)) /\ (Has(p, key) => q[key] = p[key])
                BY <1>1, <2>2, <4>1
            <4> QED
                BY <3>3, <4>2
        <3> QED
            BY <3>1, <3>2, <3>3
    <2>5. /\ said("usage") = IF Has(p, "usage") THEN {p["usage"]} ELSE {}
          /\ Has(p, "usage") => Has(q, "usage") /\ q["usage"] = p["usage"]
          /\ ~Has(p, "usage") /\ Has(q, "usage") => Tallies(q["usage"])
        BY <1>1, <2>2
    <2> HIDE DEF said
    <2>6. Has(q, "schema_version") => q["schema_version"] \in Int
        BY <2>2 DEF Get
    <2>7. \A key \in {"usage", "error"} : Has(q, key) => Fits(key, q[key])
        <3>1. Has(q, "usage") => Fits("usage", q["usage"])
            BY <2>5 DEF Readable, Fits
        <3>2. Has(q, "error") => Fits("error", q["error"])
            <4>1. "error" \notin Counts \cup {"schema_version", "type", "name", "usage", "node",
                                              "event_type"}
                BY DEF Counts
            <4>2. (Has(q, "error") <=> Has(p, "error")) /\ (Has(p, "error") => q["error"] = p["error"])
                BY <1>1, <2>2, <4>1
            <4> QED
                BY <4>2 DEF Readable
        <3> QED
            BY <3>1, <3>2
    <2>8. ASSUME Valid(q)
          PROVE  ~Bad
        <3>1. Has(q, "trace_id") /\ Has(q, "type") /\ \A key \in DOMAIN q : Accepts(key, q[key])
            BY <2>0, <2>8 DEF Valid, Has
        <3>2. said("trace_id") # {} /\ said("type") # {}
            BY <2>0, <2>4, <3>1
        <3>3. ASSUME NEW key \in Known \ {"schema_version"}, NEW value \in said(key)
              PROVE  ~Misfit(key, value)
            <4>1. Has(q, key) /\ value = q[key]
                BY <2>4, <2>5, <3>3
            <4> QED
                BY <3>1, <4>1, MisfitIs DEF Has
        <3> QED
            BY <1>5, <3>2, <3>3
    <2>9. ASSUME ~Bad
          PROVE  Valid(q)
        <3>1. Has(q, "trace_id") /\ Has(q, "type")
            BY <2>0, <2>4, <2>9
        <3>2. ASSUME NEW key \in DOMAIN q
              PROVE  Accepts(key, q[key])
            <4>1. CASE key \notin Known
                BY <4>1, MisfitIs
            <4>2. CASE key = "schema_version"
                <5>1. q[key] \in Int /\ key \notin DOMAIN Enums /\ key # "error"
                    BY <2>6, <3>2, <4>2 DEF Has, Enums
                <5>2. q[key] # Nonsense /\ q[key] # Garbage
                    BY <5>1, EventSchemaAssumption
                <5> QED
                    BY <5>1, <5>2 DEF Accepts
            <4>3. CASE key = "usage" /\ ~Has(p, "usage")
                <5>1. q[key] # Garbage /\ q[key] # Nonsense
                    BY <2>5, <3>2, <4>3, TablesAreTables DEF Has
                <5>2. key \notin DOMAIN Enums /\ key # "error"
                    BY <4>3 DEF Enums
                <5> QED
                    BY <5>1, <5>2 DEF Accepts
            <4>4. CASE key \in Known \ {"schema_version"} /\ ~(key = "usage" /\ ~Has(p, "usage"))
                <5>1. q[key] \in said(key)
                    BY <2>4, <2>5, <3>2, <4>4 DEF Has
                <5> QED
                    BY <2>9, <4>4, <5>1, MisfitIs
            <4> QED
                BY <4>1, <4>2, <4>3, <4>4
        <3> QED
            BY <2>0, <3>1, <3>2 DEF Valid, Has
    <2> HIDE DEF Bad
    <2>10. Fails(event) <=> ~Valid(q)
        <3>1. Fails(ValidationError)
            BY DEF ValidationError, Fails, Has
        <3>2. ~Fails(Event(q))
            BY <2>0, <2>2 DEF Event, Fails, Has
        <3> QED
            BY <2>3, <3>1, <3>2
    <2>11. ASSUME ~Fails(event)
           PROVE  Kept
        <3>0. Valid(q) /\ event = Event(q)
            BY <2>3, <2>10, <2>11
        <3>1. /\ DOMAIN event = Known \cup DOMAIN q
              /\ \A key \in DOMAIN q : event[key] = Read(key, q[key])
              /\ \A key \in Known \ DOMAIN q : event[key] = Get(Defaults, key, Nonsense)
              /\ \A key \in DOMAIN q : Fits(key, q[key]) /\ Accepts(key, q[key])
            BY <2>7, <3>0, EventIs
        <3>2. Fields1
            <4> SUFFICES ASSUME NEW key \in Known \ {"schema_version", "tenant_id", "usage", "error"},
                                Has(q, key)
                         PROVE  event[key] = q[key]
                BY <2>4
            <4>1. Read(key, q[key]) = q[key]
                BY DEF Read
            <4> QED
                BY <3>1, <4>1 DEF Has
        <3>3. Tenant1
            <4>1. \A x : Read("tenant_id", x) = x \/ x = ""
                BY DEF Read
            <4> QED
                BY <2>0, <2>4, <3>1, <4>1 DEF Has
        <3>4. /\ event.usage = IF Has(q, "usage") /\ q["usage"] # Nonsense
                               THEN UsageOf(q["usage"]) ELSE Nonsense
              /\ Has(q, "usage") /\ q["usage"] # Nonsense => Tallies(q["usage"])
            <4>1. Get(Defaults, "usage", Nonsense) = Nonsense
                BY DEF Get, Has, Defaults
            <4>2. \A x : Read("usage", x) = IF x = Nonsense THEN Nonsense ELSE UsageOf(x)
                BY DEF Read
            <4>3. Has(q, "usage") /\ q["usage"] # Nonsense => Tallies(q["usage"])
                BY <2>0, <3>1 DEF Has, Fits, Accepts
            <4> QED
                BY <2>0, <3>1, <4>1, <4>2, <4>3 DEF Has
        <3>5. event.usage = Nonsense \/ \A k \in Counts : event.usage[k] \in Nat
            BY <3>4, UsageIs
        <3>6. Counts1
            BY <3>5
        <3>7. Flat1
            <4> SUFFICES ASSUME old, ~Has(p, "usage"), Counts \cap DOMAIN p # {}
                         PROVE  /\ event.usage # Nonsense
                                /\ event.usage["prompt_tokens"] = Coerced(flat("prompt_tokens"))
                                /\ event.usage["total_tokens"] >= Coerced(flat("total_tokens"))
                OBVIOUS
            <4>1. \A c \in Counts : /\ Has(d, c) <=> Has(p, c)
                                    /\ Get(d, c, 0) = flat(c) /\ flat(c) \in CountValue
                <5>1. \A c \in Counts : c # "schema_version"
                    BY DEF Counts
                <5> QED
                    BY <1>1, <5>1 DEF Get, Readable, CountValue
            <4> HIDE DEF flat
            <4> DEFINE u == [c \in Counts |-> flat(c)]
            <4>2. u \in [Counts -> CountValue] /\ u = [c \in Counts |-> Get(d, c, 0)]
                BY <4>1
            <4>3. \A c \in Counts : Get(u, c, 0) = flat(c)
                BY DEF Get, Has
            <4>4. ~Has(d, "usage") /\ \E c \in Counts : Has(d, c)
                BY <1>1, <4>1 DEF Has
            <4> HIDE DEF u
            <4>5. Tallies(u)
                <5>1. Counts \in SUBSET (Counts \cup Details)
                    OBVIOUS
                <5> QED
                    BY <4>2, <5>1 DEF Tallies
            <4>6. Has(q, "usage") /\ q["usage"] = u /\ u # Nonsense
                BY <2>2, <4>2, <4>4, <4>5, TablesAreTables
            <4>7. event.usage = UsageOf(u)
                BY <3>4, <4>6
            <4>8. /\ Tallies(UsageOf(u))
                  /\ UsageOf(u)["prompt_tokens"] = Coerced(Get(u, "prompt_tokens", 0))
                  /\ UsageOf(u)["total_tokens"] =
                       IF Coerced(Get(u, "total_tokens", 0)) = 0
                       THEN Coerced(Get(u, "prompt_tokens", 0))
                              + Coerced(Get(u, "completion_tokens", 0))
                       ELSE Coerced(Get(u, "total_tokens", 0))
                BY <4>5, UsageIs
            <4>9. /\ Get(u, "prompt_tokens", 0) = flat("prompt_tokens")
                  /\ Get(u, "completion_tokens", 0) = flat("completion_tokens")
                  /\ Get(u, "total_tokens", 0) = flat("total_tokens")
                  /\ flat("total_tokens") \in CountValue /\ flat("prompt_tokens") \in CountValue
                  /\ flat("completion_tokens") \in CountValue
                BY <4>1, <4>3 DEF Counts
            <4>10. /\ Coerced(flat("total_tokens")) \in Nat /\ Coerced(flat("prompt_tokens")) \in Nat
                   /\ Coerced(flat("completion_tokens")) \in Nat
                BY <4>9, CoercedIs
            <4>11. UsageOf(u)["total_tokens"] >= Coerced(flat("total_tokens"))
                BY <4>8, <4>9, <4>10
            <4> QED
                BY <4>7, <4>8, <4>9, <4>11, TablesAreTables
        <3>8. Usage1
            <4> SUFFICES ASSUME NEW usage \in said("usage") \ {Nonsense},
                                NEW k \in DOMAIN usage \ Counts
                         PROVE  event.usage[k] = usage[k]
                OBVIOUS
            <4>1. Has(q, "usage") /\ q["usage"] = usage /\ usage # Nonsense
                BY <2>5
            <4>2. event.usage = UsageOf(usage) /\ Tallies(usage)
                BY <3>4, <4>1
            <4> QED
                BY <4>2, UsageIs
        <3>9. Error1
            <4> SUFFICES ASSUME NEW error \in said("error") \ {Nonsense}
                         PROVE  Tells(event.error, error)
                OBVIOUS
            <4>1. Has(q, "error") /\ q["error"] = error /\ error # Nonsense
                BY <2>0, <2>4
            <4>2. Troubles(error)
                BY <2>0, <3>1, <4>1 DEF Has, Fits, Accepts
            <4>3. event.error = ErrorOf(error)
                BY <3>1, <4>1 DEF Has, Read
            <4> QED
                BY <4>2, <4>3, ErrorIs
        <3>10. Others1
            <4> SUFFICES ASSUME NEW key \in DOMAIN p \ (Known \cup Counts \cup {"node", "event_type"})
                         PROVE  event[key] = p[key]
                OBVIOUS
            <4>1. key \notin Counts \cup {"schema_version", "type", "name", "usage", "node",
                                          "event_type"} /\ Has(p, key)
                BY <2>0 DEF Has
            <4>2. Has(q, key) /\ q[key] = p[key]
                BY <1>1, <2>2, <4>1
            <4>3. Read(key, q[key]) = q[key]
                BY <2>0 DEF Read
            <4> QED
                BY <3>1, <4>2, <4>3 DEF Has
        <3>11. ReadsAgain(event)
            BY <2>2, <2>7, <3>0, ReadAgain
        <3>12. Costs1
            <4>1. "model" \in Known \ {"schema_version", "usage"} /\ said("model") =
                    IF Has(p, "model") THEN {p["model"]} ELSE {}
                BY <2>0 DEF said
            <4>2. Has(q, "model") <=> Has(p, "model")
                BY <2>4, <4>1
            <4>3. Has(q, "model") => q["model"] = p["model"]
                BY <2>4, <4>1, <4>2
            <4>4. Get(Defaults, "model", Nonsense) = Nonsense
                BY DEF Get, Has, Defaults
            <4>5. event.model = IF Has(q, "model") THEN q["model"] ELSE Nonsense
                BY <4>1, <4>4, <3>1 DEF Has, Read
            <4>6. Has(q, "model") => q["model"] \in Seq(Letters) \cup {Nonsense}
                BY <2>0, <3>1, <4>2, <4>3 DEF Readable, Has, Accepts
            <4>7. event.model \in Seq(Letters) \cup {Nonsense}
                BY <4>5, <4>6
            <4> QED
                BY <3>5, <4>7, CostIs
        <3> HIDE DEF Fields1, Tenant1, Counts1, Flat1, Usage1, Error1, Others1, Costs1
        <3> QED
            BY <3>2, <3>3, <3>6, <3>7, <3>8, <3>9, <3>10, <3>11, <3>12
    <2> HIDE DEF Kept
    <2> QED
        BY <2>8, <2>9, <2>10, <2>11
<1>6. (Fails(event) <=> Bad) /\ (~Fails(event) => Kept)
    <2> HIDE DEF Bad, Kept, event
    <2> QED
        BY <1>4, <1>5
<1>7. PayloadSurvives(p, v) <=> (Fails(event) <=> Bad) /\ (~Fails(event) => Kept)
    BY Zenon DEF PayloadSurvives, event, entry, version
<1> QED
    BY <1>6, <1>7, Zenon

-------------------------------------------------------------------------------
(* What is read of an answer                                               *)

LEMMA FirstOfNone ==
    ASSUME NEW values, \A i \in DOMAIN values : values[i] = Nonsense
    PROVE  FirstOf(values) = Nonsense
BY DEF FirstOf

LEMMA FirstOfAt ==
    ASSUME NEW values, DOMAIN values \subseteq Nat, NEW i \in DOMAIN values,
           values[i] # Nonsense,
           \A j \in DOMAIN values : j < i => values[j] = Nonsense
    PROVE  FirstOf(values) = values[i]
<1> DEFINE told == {j \in DOMAIN values : values[j] # Nonsense}
           first == CHOOSE j \in told : \A k \in told : j <= k
<1>1. i \in told /\ \A k \in told : i <= k
    OBVIOUS
<1>2. first \in told /\ \A k \in told : first <= k
    BY <1>1
<1>3. FirstOf(values) = values[first]
    BY <1>1 DEF FirstOf
<1>4. first = i
    BY <1>1, <1>2
<1> QED
    BY <1>3, <1>4

\* Where every place has one thing to say or nothing, that is what is read.
LEMMA FirstOfOne ==
    ASSUME NEW values, DOMAIN values \subseteq Nat, NEW x, x # Nonsense,
           \A i \in DOMAIN values : values[i] = x \/ values[i] = Nonsense
    PROVE  FirstOf(values) = IF \E i \in DOMAIN values : values[i] = x THEN x ELSE Nonsense
<1>1. CASE \A i \in DOMAIN values : values[i] # x
    BY <1>1, FirstOfNone
<1>2. CASE \E i \in DOMAIN values : values[i] = x
    <2> DEFINE told == {i \in DOMAIN values : values[i] # Nonsense}
    <2>1. told \in SUBSET Nat /\ told # {}
        BY <1>2
    <2>2. PICK i \in told : \A j \in told : i <= j
        <3> HIDE DEF told
        <3> QED
            BY <2>1, LeastElement
    <2>3. i \in DOMAIN values /\ values[i] = x /\ \A j \in DOMAIN values : j < i => values[j] = Nonsense
        BY <2>2
    <2>4. FirstOf(values) = values[i]
        BY <2>3, FirstOfAt
    <2> QED
        BY <1>2, <2>3, <2>4
<1> QED
    BY <1>1, <1>2

LEMMA UnderNone ==
    ASSUME NEW names, NEW fields, \A i \in DOMAIN names : ~Has(fields, names[i])
    PROVE  FirstUnder(names, fields) = Nonsense
<1> DEFINE values == [i \in DOMAIN names |-> Get(fields, names[i], Nonsense)]
<1>1. \A i \in DOMAIN values : values[i] = Nonsense
    BY DEF Get
<1>2. FirstUnder(names, fields) = FirstOf(values)
    BY DEF FirstUnder
<1> HIDE DEF values
<1> QED
    BY <1>1, <1>2, FirstOfNone

LEMMA UnderIs ==
    ASSUME NEW names, DOMAIN names \subseteq Nat, NEW fields, NEW i \in DOMAIN names,
           Has(fields, names[i]), fields[names[i]] # Nonsense,
           \A j \in DOMAIN names : j < i => ~Has(fields, names[j])
    PROVE  FirstUnder(names, fields) = fields[names[i]]
<1> DEFINE values == [j \in DOMAIN names |-> Get(fields, names[j], Nonsense)]
<1>1. DOMAIN values = DOMAIN names
    OBVIOUS
<1>2. values[i] = fields[names[i]]
    BY DEF Get
<1>3. \A j \in DOMAIN values : j < i => values[j] = Nonsense
    BY DEF Get
<1>4. FirstUnder(names, fields) = FirstOf(values)
    BY DEF FirstUnder
<1> HIDE DEF values
<1>5. FirstOf(values) = values[i]
    BY <1>1, <1>2, <1>3, FirstOfAt
<1> QED
    BY <1>2, <1>4, <1>5

LEMMA SpellingsAre ==
    /\ DOMAIN Spellings = Counts
    /\ Len(Spellings["prompt_tokens"]) = 3 /\ DOMAIN Spellings["prompt_tokens"] = 1 .. 3
    /\ Spellings["prompt_tokens"][1] = "prompt_tokens"
    /\ Spellings["prompt_tokens"][2] = "input_tokens"
    /\ Spellings["prompt_tokens"][3] = "prompt_token_count"
    /\ Len(Spellings["completion_tokens"]) = 3 /\ DOMAIN Spellings["completion_tokens"] = 1 .. 3
    /\ Spellings["completion_tokens"][1] = "completion_tokens"
    /\ Spellings["completion_tokens"][2] = "output_tokens"
    /\ Spellings["completion_tokens"][3] = "candidates_token_count"
    /\ Len(Spellings["total_tokens"]) = 2 /\ DOMAIN Spellings["total_tokens"] = 1 .. 2
    /\ Spellings["total_tokens"][1] = "total_tokens"
    /\ Spellings["total_tokens"][2] = "total_token_count"
<1>1. /\ DOMAIN Spellings = Counts
      /\ Spellings["prompt_tokens"] = <<"prompt_tokens", "input_tokens", "prompt_token_count">>
      /\ Spellings["completion_tokens"]
           = <<"completion_tokens", "output_tokens", "candidates_token_count">>
      /\ Spellings["total_tokens"] = <<"total_tokens", "total_token_count">>
    BY DEF Spellings, Counts
<1> QED
    BY <1>1

\* What is picked of the fields of a provider.
LEMMA PickIs ==
    ASSUME NEW c \in Counts, NEW i \in 1 .. Len(Spellings[c]), NEW fields,
           Has(fields, Spellings[c][i]), fields[Spellings[c][i]] \in Int,
           \A j \in 1 .. Len(Spellings[c]) : j < i => ~Has(fields, Spellings[c][j])
    PROVE  Pick(fields, c) = fields[Spellings[c][i]]
<1>1. DOMAIN Spellings[c] = 1 .. Len(Spellings[c]) /\ 1 .. Len(Spellings[c]) \subseteq Nat
    <2>1. \A k \in Counts : DOMAIN Spellings[k] = 1 .. Len(Spellings[k])
        BY SpellingsAre DEF Counts
    <2> QED
        BY <2>1
<1> DEFINE names == Spellings[c]
<1> HIDE DEF names
<1>2. FirstUnder(names, fields) = fields[names[i]]
    BY <1>1, UnderIs, EventSchemaAssumption DEF names
<1> QED
    BY <1>2, EventSchemaAssumption DEF Pick, names

\* The counts of the answer of a provider.
ProviderCounts(p) ==
    [prompt_tokens |-> 3, completion_tokens |-> 2, total_tokens |-> IF p = 3 THEN 6 ELSE 5]

LEMMA ProviderCountsAre ==
    ASSUME NEW p \in 1 .. 3
    PROVE  /\ Tallies(ProviderCounts(p)) /\ ProviderCounts(p) # Nonsense
           /\ UsageOf(ProviderCounts(p)) = ProviderCounts(p)
<1> DEFINE u == ProviderCounts(p)
<1>1. /\ u \in [Counts -> Nat] /\ u["prompt_tokens"] = 3 /\ u["completion_tokens"] = 2
      /\ u["total_tokens"] \in {5, 6}
    BY DEF ProviderCounts, Counts
<1>2. u = [c \in Counts |-> u[c]]
    BY <1>1
<1> HIDE DEF u
<1>3. Tallies(u)
    <2>1. Counts \in SUBSET (Counts \cup Details) /\ u \in [Counts -> CountValue]
        BY <1>1 DEF CountValue
    <2> QED
        BY <2>1 DEF Tallies
<1>4. u # Nonsense
    BY <1>3, TablesAreTables
<1>5. \A c \in Counts : Coerced(Get(u, c, 0)) = u[c]
    <2>1. \A c \in Counts : Get(u, c, 0) = u[c] /\ u[c] \in Nat
        BY <1>1 DEF Get, Has
    <2> QED
        BY <2>1, CoercedIs DEF CountValue
<1>6. UsageOf(u) = [c \in Counts |-> u[c]]
    <2>1. Coerced(Get(u, "total_tokens", 0)) # 0
        BY <1>1, <1>5 DEF Counts
    <2>2. Counts \cup DOMAIN u = Counts
        BY <1>1
    <2>3. \A c \in Counts : Coerced(Get(u, c, 0)) = u[c] /\ u["total_tokens"] # 0
        BY <1>5, <2>1 DEF Counts
    <2> QED
        BY <2>1, <2>2, <2>3 DEF UsageOf
<1> QED
    BY <1>2, <1>3, <1>4, <1>6 DEF u

LEMMA ProvidersSay ==
    ASSUME NEW p \in 1 .. 3
    PROVE  NormalizeUsage(Providers[p]) = ProviderCounts(p)
<1> DEFINE f == Providers[p]
<1>1. f # Nonsense
    <2>1. DOMAIN f \in SUBSET CountNames
        <3>1. CountNames = UNION {{Spellings[c][i] : i \in DOMAIN Spellings[c]} : c \in Counts}
            BY DEF CountNames
        <3>2. \A c \in Counts : \A i \in DOMAIN Spellings[c] : Spellings[c][i] \in CountNames
            BY <3>1
        <3>3. /\ "prompt_tokens" \in CountNames /\ "input_tokens" \in CountNames
              /\ "prompt_token_count" \in CountNames
            <4>1. "prompt_tokens" \in Counts /\ DOMAIN Spellings["prompt_tokens"] = 1 .. 3
                BY SpellingsAre DEF Counts
            <4> QED
                BY <3>2, <4>1, SpellingsAre
        <3>4. /\ "completion_tokens" \in CountNames /\ "output_tokens" \in CountNames
              /\ "candidates_token_count" \in CountNames
            <4>1. "completion_tokens" \in Counts /\ DOMAIN Spellings["completion_tokens"] = 1 .. 3
                BY SpellingsAre DEF Counts
            <4> QED
                BY <3>2, <4>1, SpellingsAre
        <3>5. "total_tokens" \in CountNames /\ "total_token_count" \in CountNames
            <4>1. "total_tokens" \in Counts /\ DOMAIN Spellings["total_tokens"] = 1 .. 2
                BY SpellingsAre DEF Counts
            <4> QED
                BY <3>2, <4>1, SpellingsAre
        <3>6. p = 1 \/ p = 2 \/ p = 3
            OBVIOUS
        <3> QED
            BY <3>3, <3>4, <3>5, <3>6 DEF Providers
    <2>2. f \in [DOMAIN f -> Int \cup {Nonsense}]
        <3>1. p = 1 \/ p = 2 \/ p = 3
            OBVIOUS
        <3> QED
            BY <3>1 DEF Providers
    <2> HIDE DEF f
    <2> QED
        BY <2>1, <2>2, ModelUsageAssumption
<1>2. /\ Pick(f, "prompt_tokens") = 3
      /\ Pick(f, "completion_tokens") = 2
      /\ Pick(f, "total_tokens") = CASE p = 1 -> 5 [] p = 2 -> 0 [] p = 3 -> 6
    <2>0. "prompt_tokens" \in Counts /\ "completion_tokens" \in Counts /\ "total_tokens" \in Counts
        BY DEF Counts
    <2>1. CASE p = 1
        <3>1. /\ DOMAIN f = Counts /\ f["prompt_tokens"] = 3 /\ f["completion_tokens"] = 2
              /\ f["total_tokens"] = 5
            BY <2>1 DEF Providers, Counts
        <3> HIDE DEF f
        <3>2. Pick(f, "prompt_tokens") = f["prompt_tokens"]
            <4>1. /\ 1 \in 1 .. Len(Spellings["prompt_tokens"]) /\ Spellings["prompt_tokens"][1] = "prompt_tokens"
                  /\ \A j \in 1 .. Len(Spellings["prompt_tokens"]) : j < 1 => ~Has(f, Spellings["prompt_tokens"][j])
                BY <3>1, SpellingsAre DEF Has, Counts
            <4>2. Has(f, "prompt_tokens") /\ f["prompt_tokens"] \in Int
                BY <3>1 DEF Has, Counts
            <4> QED
                BY <2>0, <4>1, <4>2, PickIs, SMTT(30)
        <3>3. Pick(f, "completion_tokens") = f["completion_tokens"]
            <4>1. /\ 1 \in 1 .. Len(Spellings["completion_tokens"]) /\ Spellings["completion_tokens"][1] = "completion_tokens"
                  /\ \A j \in 1 .. Len(Spellings["completion_tokens"]) : j < 1 => ~Has(f, Spellings["completion_tokens"][j])
                BY <3>1, SpellingsAre DEF Has, Counts
            <4>2. Has(f, "completion_tokens") /\ f["completion_tokens"] \in Int
                BY <3>1 DEF Has, Counts
            <4> QED
                BY <2>0, <4>1, <4>2, PickIs, SMTT(30)
        <3>4. Pick(f, "total_tokens") = f["total_tokens"]
            <4>1. /\ 1 \in 1 .. Len(Spellings["total_tokens"]) /\ Spellings["total_tokens"][1] = "total_tokens"
                  /\ \A j \in 1 .. Len(Spellings["total_tokens"]) : j < 1 => ~Has(f, Spellings["total_tokens"][j])
                BY <3>1, SpellingsAre DEF Has, Counts
            <4>2. Has(f, "total_tokens") /\ f["total_tokens"] \in Int
                BY <3>1 DEF Has, Counts
            <4> QED
                BY <2>0, <4>1, <4>2, PickIs, SMTT(30)
        <3> QED
            BY <2>1, <3>1, <3>2, <3>3, <3>4
    <2>2. CASE p = 2
        <3>1. /\ DOMAIN f = {"input_tokens", "output_tokens"}
              /\ f["input_tokens"] = 3 /\ f["output_tokens"] = 2
            BY <2>2 DEF Providers
        <3> HIDE DEF f
        <3>2. Pick(f, "prompt_tokens") = f["input_tokens"]
            <4>1. /\ 2 \in 1 .. Len(Spellings["prompt_tokens"]) /\ Spellings["prompt_tokens"][2] = "input_tokens"
                  /\ \A j \in 1 .. Len(Spellings["prompt_tokens"]) : j < 2 => ~Has(f, Spellings["prompt_tokens"][j])
                BY <3>1, SpellingsAre DEF Has, Counts
            <4>2. Has(f, "input_tokens") /\ f["input_tokens"] \in Int
                BY <3>1 DEF Has, Counts
            <4> QED
                BY <2>0, <4>1, <4>2, PickIs, SMTT(30)
        <3>3. Pick(f, "completion_tokens") = f["output_tokens"]
            <4>1. /\ 2 \in 1 .. Len(Spellings["completion_tokens"]) /\ Spellings["completion_tokens"][2] = "output_tokens"
                  /\ \A j \in 1 .. Len(Spellings["completion_tokens"]) : j < 2 => ~Has(f, Spellings["completion_tokens"][j])
                BY <3>1, SpellingsAre DEF Has, Counts
            <4>2. Has(f, "output_tokens") /\ f["output_tokens"] \in Int
                BY <3>1 DEF Has, Counts
            <4> QED
                BY <2>0, <4>1, <4>2, PickIs, SMTT(30)
        <3>4. Pick(f, "total_tokens") = 0
            <4>1. FirstUnder(Spellings["total_tokens"], f) = Nonsense
                <5>1. \A i \in DOMAIN Spellings["total_tokens"] :
                        Spellings["total_tokens"][i] \in {"total_tokens", "total_token_count"}
                    BY SpellingsAre
                <5> QED
                    BY <3>1, <5>1, UnderNone DEF Has
            <4> QED
                BY <4>1 DEF Pick
        <3> QED
            BY <2>2, <3>1, <3>2, <3>3, <3>4
    <2>3. CASE p = 3
        <3>1. /\ DOMAIN f = {"prompt_token_count", "candidates_token_count", "total_token_count"}
              /\ f["prompt_token_count"] = 3 /\ f["candidates_token_count"] = 2
              /\ f["total_token_count"] = 6
            BY <2>3 DEF Providers
        <3> HIDE DEF f
        <3>2. Pick(f, "prompt_tokens") = f["prompt_token_count"]
            <4>1. /\ 3 \in 1 .. Len(Spellings["prompt_tokens"]) /\ Spellings["prompt_tokens"][3] = "prompt_token_count"
                  /\ \A j \in 1 .. Len(Spellings["prompt_tokens"]) : j < 3 => ~Has(f, Spellings["prompt_tokens"][j])
                BY <3>1, SpellingsAre DEF Has, Counts
            <4>2. Has(f, "prompt_token_count") /\ f["prompt_token_count"] \in Int
                BY <3>1 DEF Has, Counts
            <4> QED
                BY <2>0, <4>1, <4>2, PickIs, SMTT(30)
        <3>3. Pick(f, "completion_tokens") = f["candidates_token_count"]
            <4>1. /\ 3 \in 1 .. Len(Spellings["completion_tokens"]) /\ Spellings["completion_tokens"][3] = "candidates_token_count"
                  /\ \A j \in 1 .. Len(Spellings["completion_tokens"]) : j < 3 => ~Has(f, Spellings["completion_tokens"][j])
                BY <3>1, SpellingsAre DEF Has, Counts
            <4>2. Has(f, "candidates_token_count") /\ f["candidates_token_count"] \in Int
                BY <3>1 DEF Has, Counts
            <4> QED
                BY <2>0, <4>1, <4>2, PickIs, SMTT(30)
        <3>4. Pick(f, "total_tokens") = f["total_token_count"]
            <4>1. /\ 2 \in 1 .. Len(Spellings["total_tokens"]) /\ Spellings["total_tokens"][2] = "total_token_count"
                  /\ \A j \in 1 .. Len(Spellings["total_tokens"]) : j < 2 => ~Has(f, Spellings["total_tokens"][j])
                BY <3>1, SpellingsAre DEF Has, Counts
            <4>2. Has(f, "total_token_count") /\ f["total_token_count"] \in Int
                BY <3>1 DEF Has, Counts
            <4> QED
                BY <2>0, <4>1, <4>2, PickIs, SMTT(30)
        <3> QED
            BY <2>3, <3>1, <3>2, <3>3, <3>4
    <2> QED
        BY <2>1, <2>2, <2>3
<1> HIDE DEF f
<1> DEFINE counts == [c \in Counts |-> Pick(f, c)]
<1>3. /\ counts["prompt_tokens"] = 3 /\ counts["completion_tokens"] = 2
      /\ counts["total_tokens"] = CASE p = 1 -> 5 [] p = 2 -> 0 [] p = 3 -> 6
      /\ DOMAIN counts = Counts
    BY <1>2 DEF Counts
<1>4. NormalizeUsage(f) = UsageOf(counts)
    <2>1. ~\A c \in Counts : counts[c] = 0
        BY <1>3 DEF Counts
    <2> QED
        BY <1>1, <2>1 DEF NormalizeUsage
<1> HIDE DEF counts
<1>5. \A c \in Counts : Coerced(Get(counts, c, 0)) = counts[c]
    <2>1. \A c \in Counts : counts[c] \in Nat /\ Get(counts, c, 0) = counts[c]
        BY <1>3 DEF Counts, Get, Has
    <2> QED
        BY <2>1, CoercedIs DEF CountValue
<1>6. UsageOf(counts) = [c \in Counts |-> IF c = "total_tokens" /\ counts["total_tokens"] = 0
                                          THEN counts["prompt_tokens"] + counts["completion_tokens"]
                                          ELSE counts[c]]
    <2>1. Counts \cup DOMAIN counts = Counts
        BY <1>3
    <2>2. /\ Coerced(Get(counts, "total_tokens", 0)) = counts["total_tokens"]
          /\ Coerced(Get(counts, "prompt_tokens", 0)) = counts["prompt_tokens"]
          /\ Coerced(Get(counts, "completion_tokens", 0)) = counts["completion_tokens"]
        BY <1>5 DEF Counts
    <2> QED
        BY <1>5, <2>1, <2>2 DEF UsageOf
<1>7. UsageOf(counts) = ProviderCounts(p)
    BY <1>3, <1>6 DEF ProviderCounts, Counts
<1> QED
    BY <1>4, <1>7 DEF f

LEMMA ZerosSayNothing == NormalizeUsage(Zeros) = Nonsense
<1>1. \A c \in Counts : Pick(Zeros, c) = 0
    <2> SUFFICES ASSUME NEW c \in Counts
                 PROVE  Pick(Zeros, c) = 0
        OBVIOUS
    <2>1. 1 \in 1 .. Len(Spellings[c]) /\ Spellings[c][1] = c
        BY SpellingsAre DEF Counts
    <2>2. Has(Zeros, c) /\ Zeros[c] = 0
        BY DEF Has, Zeros
    <2> QED
        BY <2>1, <2>2, PickIs
<1> QED
    BY <1>1 DEF NormalizeUsage

-------------------------------------------------------------------------------
(* The answer of a model                                                   *)

ReplyInv ==
    /\ DOMAIN reply = {"provider", "filled", "named"}
    /\ reply.provider \in 0 .. 3
    /\ DOMAIN reply.filled \subseteq Places
    /\ \A at \in DOMAIN reply.filled : reply.filled[at] \in {"counts", "zeros", "null"}
    /\ DOMAIN reply.filled # {} => reply.provider \in 1 .. 3
    /\ reply.named \subseteq Namers

\* What stands in a place.
Filling(at) ==
    IF at \in DOMAIN reply.filled
    THEN CASE reply.filled[at] = "counts" -> Providers[reply.provider]
           [] reply.filled[at] = "zeros" -> Zeros
           [] reply.filled[at] = "null" -> Nonsense
    ELSE Nonsense

Told == {at \in DOMAIN reply.filled : reply.filled[at] = "counts"}

LEMMA FillingSays ==
    ASSUME ReplyInv, NEW at
    PROVE  NormalizeUsage(Filling(at)) =
             IF at \in Told THEN ProviderCounts(reply.provider) ELSE Nonsense
<1>1. NormalizeUsage(Nonsense) = Nonsense
    BY DEF NormalizeUsage
<1>2. CASE at \in Told
    <2>1. Filling(at) = Providers[reply.provider] /\ reply.provider \in 1 .. 3
        BY <1>2 DEF Told, Filling, ReplyInv
    <2> QED
        BY <1>2, <2>1, ProvidersSay
<1>3. CASE at \notin Told
    <2>1. Filling(at) = Zeros \/ Filling(at) = Nonsense
        BY <1>3 DEF Told, Filling, ReplyInv
    <2> QED
        BY <1>1, <1>3, <2>1, ZerosSayNothing
<1> QED
    BY <1>2, <1>3

\* Of what an answer is made.
Dict(n) == [k \in {k \in InOutput : <<n, k>> \in DOMAIN reply.filled} |-> Filling(<<n, k>>)]
Naming(fs, at, key, letter) == IF at \in reply.named THEN With(fs, key, <<letter, "b">>) ELSE fs

LEMMA AnswerHas ==
    LET a == AnswerOf(reply)
    IN  /\ a.output = Naming(Dict(0), <<0, "model_name">>, "model_name", "a")
        /\ Len(a.generations) = 2
        /\ \A g \in 1 .. 2 :
              /\ a.generations[g].usage = Filling(<<g, "message">>)
              /\ a.generations[g].metadata = Naming(<<>>, <<g, "model">>, "model", "b")
              /\ a.generations[g].info = Naming(Dict(g), <<g, "info">>, "model_name", "c")
<1> DEFINE a == AnswerOf(reply)
           fields(at) == CASE reply.filled[at] = "counts" -> Providers[reply.provider]
                           [] reply.filled[at] = "zeros" -> Zeros
                           [] reply.filled[at] = "null" -> Nonsense
           dict(n) == [k \in {k \in InOutput : <<n, k>> \in DOMAIN reply.filled} |-> fields(<<n, k>>)]
           gen(g) == [usage |-> IF <<g, "message">> \in DOMAIN reply.filled
                                THEN fields(<<g, "message">>) ELSE Nonsense,
                      metadata |-> Naming(<<>>, <<g, "model">>, "model", "b"),
                      info |-> Naming(dict(g), <<g, "info">>, "model_name", "c")]
<1>1. a = [output |-> Naming(dict(0), <<0, "model_name">>, "model_name", "a"),
           generations |-> [g \in 1 .. 2 |-> gen(g)]]
    BY Zenon DEF AnswerOf, Naming
<1>2. \A at \in DOMAIN reply.filled : fields(at) = Filling(at)
    <2> SUFFICES ASSUME NEW at \in DOMAIN reply.filled
                 PROVE  fields(at) = Filling(at)
        OBVIOUS
    <2>1. Filling(at) = IF at \in DOMAIN reply.filled THEN fields(at) ELSE Nonsense
        BY DEF Filling
    <2> QED
        BY <2>1
<1> HIDE DEF fields
<1>3. \A n : dict(n) = Dict(n)
    BY <1>2 DEF Dict
<1>4. \A at : (IF at \in DOMAIN reply.filled THEN fields(at) ELSE Nonsense) = Filling(at)
    BY <1>2 DEF Filling
<1> HIDE DEF dict
<1>5. \A g : /\ gen(g).usage = Filling(<<g, "message">>)
             /\ gen(g).metadata = Naming(<<>>, <<g, "model">>, "model", "b")
             /\ gen(g).info = Naming(Dict(g), <<g, "info">>, "model_name", "c")
    <2> SUFFICES ASSUME NEW g
                 PROVE  /\ gen(g).usage = Filling(<<g, "message">>)
                        /\ gen(g).metadata = Naming(<<>>, <<g, "model">>, "model", "b")
                        /\ gen(g).info = Naming(Dict(g), <<g, "info">>, "model_name", "c")
        OBVIOUS
    <2>1. dict(g) = Dict(g)
        BY <1>3
    <2> QED
        BY <1>4, <2>1
<1> HIDE DEF gen
<1>6. a.output = Naming(Dict(0), <<0, "model_name">>, "model_name", "a")
    BY <1>1, <1>3
<1>7. a.generations = [g \in 1 .. 2 |-> gen(g)]
    BY <1>1
<1> HIDE DEF a
<1>8. Len(a.generations) = 2 /\ \A g \in 1 .. 2 : a.generations[g] = gen(g)
    BY <1>7
<1> QED
    BY <1>5, <1>6, <1>8 DEF a

\* A dictionary has the counts of its places, and a name when it was given one.
LEMMA NamingIs ==
    ASSUME ReplyInv, NEW n, NEW at, NEW letter
    PROVE  LET g == Naming(Dict(n), at, "model_name", letter)
           IN  /\ \A k \in InOutput : Get(g, k, Nonsense) = Filling(<<n, k>>)
               /\ ~Has(g, "model")
               /\ IF at \in reply.named
                  THEN Has(g, "model_name") /\ g["model_name"] = <<letter, "b">>
                  ELSE ~Has(g, "model_name")
<1> DEFINE fs == Dict(n)
           g == Naming(fs, at, "model_name", letter)
<1>1. \A k \in InOutput : Get(fs, k, Nonsense) = Filling(<<n, k>>)
    BY DEF Dict, Get, Has, Filling
<1>2. ~Has(fs, "model") /\ ~Has(fs, "model_name")
    BY DEF Dict, Has, InOutput
<1>3. "model_name" \notin InOutput
    BY DEF InOutput
<1> HIDE DEF fs
<1>4. CASE at \in reply.named
    <2>1. g = With(fs, "model_name", <<letter, "b">>)
        BY <1>4 DEF Naming
    <2> HIDE DEF g
    <2>2. /\ Has(g, "model_name") /\ g["model_name"] = <<letter, "b">>
          /\ \A k : k # "model_name" => /\ Has(g, k) <=> Has(fs, k)
                                        /\ Get(g, k, Nonsense) = Get(fs, k, Nonsense)
        BY <2>1 DEF With, Has, Get
    <2> QED
        BY <1>1, <1>2, <1>3, <1>4, <2>2 DEF g, fs
<1>5. CASE at \notin reply.named
    <2>1. g = fs
        BY <1>5 DEF Naming
    <2> QED
        BY <1>1, <1>2, <1>5, <2>1 DEF fs
<1> QED
    BY <1>4, <1>5

\* Whoever answers: what is read are the counts that were told, if any were.
LEMMA UsageOfAnswer ==
    ASSUME ReplyInv
    PROVE  ExtractUsage(AnswerOf(reply)).usage =
             IF Told = {} THEN Nonsense ELSE ProviderCounts(reply.provider)
<1> DEFINE a == AnswerOf(reply)
           x == ProviderCounts(reply.provider)
           Of(S) == IF S \cap Told # {} THEN x ELSE Nonsense
           In(g) == {<<g, k>> : k \in InOutput}
<1>1. Told # {} => reply.provider \in 1 .. 3 /\ x # Nonsense
    BY ProviderCountsAre DEF ReplyInv, Told
<1> HIDE DEF x
<1>2. \A at : NormalizeUsage(Filling(at)) = Of({at})
    <2>1. \A at : NormalizeUsage(Filling(at)) = IF at \in Told THEN x ELSE Nonsense
        BY FillingSays DEF x
    <2> QED
        BY <2>1
<1> HIDE DEF a
\* Places that hold what stands in some set of places say what that set says.
<1>3. ASSUME NEW places, DOMAIN places \subseteq Nat, NEW where,
             \A i \in DOMAIN places : places[i] = Filling(where[i])
      PROVE  FirstCount(places) = Of({where[i] : i \in DOMAIN places})
    <2> DEFINE values == [i \in DOMAIN places |-> NormalizeUsage(places[i])]
               S == {where[i] : i \in DOMAIN places}
    <2>1. /\ DOMAIN values = DOMAIN places
          /\ \A i \in DOMAIN places : values[i] = Of({where[i]})
        BY <1>2, <1>3
    <2>2. FirstCount(places) = FirstOf(values)
        BY DEF FirstCount
    <2> HIDE DEF values
    <2>3. CASE S \cap Told = {}
        <3>1. \A i \in DOMAIN values : values[i] = Nonsense
            BY <2>1, <2>3
        <3> QED
            BY <2>2, <2>3, <3>1, FirstOfNone
    <2>4. CASE S \cap Told # {}
        <3>1. x # Nonsense
            BY <1>1, <2>4
        <3>2. \A i \in DOMAIN values : values[i] = x \/ values[i] = Nonsense
            BY <2>1
        <3>3. \E i \in DOMAIN values : values[i] = x
            BY <2>1, <2>4
        <3>4. DOMAIN values \subseteq Nat
            BY <1>3, <2>1
        <3> HIDE DEF S, Of
        <3>5. FirstOf(values) = x
            BY <3>1, <3>2, <3>3, <3>4, FirstOfOne
        <3> QED
            BY <2>2, <2>4, <3>5 DEF Of, S
    <2> QED
        BY <2>3, <2>4
<1>4. UsageOfResult(a.output) = Of(In(0))
    <2> DEFINE where == <<<<0, "token_usage">>, <<0, "usage">>, <<0, "usage_metadata">>>>
               places == <<Get(a.output, "token_usage", Nonsense), Get(a.output, "usage", Nonsense),
                           Get(a.output, "usage_metadata", Nonsense)>>
    <2>1. \A k \in InOutput : Get(a.output, k, Nonsense) = Filling(<<0, k>>)
        BY AnswerHas, NamingIs DEF a
    <2>2. /\ Get(a.output, "token_usage", Nonsense) = Filling(<<0, "token_usage">>)
          /\ Get(a.output, "usage", Nonsense) = Filling(<<0, "usage">>)
          /\ Get(a.output, "usage_metadata", Nonsense) = Filling(<<0, "usage_metadata">>)
        BY <2>1 DEF InOutput
    <2>3. DOMAIN places = 1 .. 3 /\ \A i \in 1 .. 3 : places[i] = Filling(where[i])
        BY <2>2
    <2>4. {where[i] : i \in 1 .. 3} = In(0)
        <3>1. In(0) = {<<0, "token_usage">>, <<0, "usage">>, <<0, "usage_metadata">>}
            BY DEF InOutput
        <3>2. 1 .. 3 = {1, 2, 3}
            OBVIOUS
        <3> HIDE DEF In
        <3> QED
            BY <3>1, <3>2
    <2>5. UsageOfResult(a.output) = FirstCount(places)
        BY DEF UsageOfResult
    <2> HIDE DEF places, where, Of, In
    <2>6. FirstCount(places) = Of({where[i] : i \in 1 .. 3})
        <3>1. DOMAIN places \subseteq Nat /\ \A i \in DOMAIN places : places[i] = Filling(where[i])
            BY <2>3
        <3>2. FirstCount(places) = Of({where[i] : i \in DOMAIN places})
            BY <3>1, <1>3
        <3> QED
            BY <2>3, <3>2
    <2> QED
        BY <2>4, <2>5, <2>6
<1>5. ASSUME NEW g \in 1 .. 2
      PROVE  UsageOfGeneration(a.generations[g]) = Of(In(g) \cup {<<g, "message">>})
    <2> DEFINE h == a.generations[g]
               where == <<<<g, "message">>, <<g, "usage_metadata">>, <<g, "token_usage">>, <<g, "usage">>>>
               places == <<h.usage, Get(h.info, "usage_metadata", Nonsense),
                           Get(h.info, "token_usage", Nonsense), Get(h.info, "usage", Nonsense)>>
    <2>1. /\ h.usage = Filling(<<g, "message">>)
          /\ h.info = Naming(Dict(g), <<g, "info">>, "model_name", "c")
        BY AnswerHas DEF a
    <2>2. \A k \in InOutput : Get(h.info, k, Nonsense) = Filling(<<g, k>>)
        <3> HIDE DEF h
        <3> QED
            BY <2>1, NamingIs
    <2>3. /\ Get(h.info, "token_usage", Nonsense) = Filling(<<g, "token_usage">>)
          /\ Get(h.info, "usage", Nonsense) = Filling(<<g, "usage">>)
          /\ Get(h.info, "usage_metadata", Nonsense) = Filling(<<g, "usage_metadata">>)
        BY <2>2 DEF InOutput
    <2>4. DOMAIN places = 1 .. 4 /\ \A i \in 1 .. 4 : places[i] = Filling(where[i])
        <3> HIDE DEF h
        <3> QED
            BY <2>1, <2>3
    <2>5. {where[i] : i \in 1 .. 4} = In(g) \cup {<<g, "message">>}
        <3>1. In(g) = {<<g, "token_usage">>, <<g, "usage">>, <<g, "usage_metadata">>}
            BY DEF InOutput
        <3>2. 1 .. 4 = {1, 2, 3, 4}
            OBVIOUS
        <3> HIDE DEF In
        <3> QED
            BY <3>1, <3>2
    <2>6. UsageOfGeneration(h) = FirstCount(places)
        BY DEF UsageOfGeneration
    <2> HIDE DEF places, where, Of, In, h
    <2>7. FirstCount(places) = Of({where[i] : i \in 1 .. 4})
        <3>1. DOMAIN places \subseteq Nat /\ \A i \in DOMAIN places : places[i] = Filling(where[i])
            BY <2>4
        <3>2. FirstCount(places) = Of({where[i] : i \in DOMAIN places})
            BY <3>1, <1>3
        <3> QED
            BY <2>4, <3>2
    <2> QED
        BY <2>5, <2>6, <2>7 DEF h
<1> DEFINE values == [g \in 0 .. 2 |-> IF g = 0 THEN UsageOfResult(a.output)
                                       ELSE UsageOfGeneration(a.generations[g])]
<1>6. ExtractUsage(a).usage = FirstOf(values)
    <2>1. Len(a.generations) = 2
        BY AnswerHas DEF a
    <2> QED
        BY <2>1 DEF ExtractUsage
<1> DEFINE Spots(g) == IF g = 0 THEN In(0) ELSE In(g) \cup {<<g, "message">>}
<1>7. DOMAIN values = 0 .. 2 /\ \A g \in 0 .. 2 : values[g] = Of(Spots(g))
    <2> HIDE DEF Of, In
    <2>1. \A g \in 0 .. 2 : g = 0 \/ g \in 1 .. 2
        OBVIOUS
    <2> QED
        BY <1>4, <1>5, <2>1
<1>8. Told \subseteq Spots(0) \cup Spots(1) \cup Spots(2)
    <2> SUFFICES ASSUME NEW at \in Told
                 PROVE  at \in Spots(0) \cup Spots(1) \cup Spots(2)
        OBVIOUS
    <2>1. at \in Places
        BY DEF Told, ReplyInv
    <2>2. CASE at \in (0 .. 2) \X InOutput
        <3>1. PICK g \in 0 .. 2, k \in InOutput : at = <<g, k>>
            BY <2>2
        <3>2. g = 0 \/ g = 1 \/ g = 2
            BY <3>1
        <3> QED
            BY <3>1, <3>2
    <2>3. CASE at \in (1 .. 2) \X {"message"}
        <3>1. at = <<1, "message">> \/ at = <<2, "message">>
            BY <2>3
        <3> QED
            BY <3>1
    <2> QED
        BY <2>1, <2>2, <2>3 DEF Places
<1> HIDE DEF values, Spots
<1>9. CASE Told = {}
    <2>1. \A g \in DOMAIN values : values[g] = Nonsense
        BY <1>7, <1>9
    <2> QED
        BY <1>6, <1>9, <2>1, FirstOfNone DEF a
<1>10. CASE Told # {}
    <2>1. x # Nonsense
        BY <1>1, <1>10
    <2>2. \E g \in 0 .. 2 : Spots(g) \cap Told # {}
        BY <1>8, <1>10
    <2>3. \A g \in DOMAIN values : values[g] = x \/ values[g] = Nonsense
        BY <1>7
    <2>4. \E g \in DOMAIN values : values[g] = x
        BY <1>7, <2>2
    <2>5. DOMAIN values \subseteq Nat
        BY <1>7
    <2>6. FirstOf(values) = x
        <3> HIDE DEF Of
        <3> QED
            BY <2>1, <2>3, <2>4, <2>5, FirstOfOne
    <2> QED
        BY <1>6, <1>10, <2>6 DEF a, x
<1> QED
    BY <1>9, <1>10

LEMMA FirstOfPair ==
    ASSUME NEW x, NEW y
    PROVE  FirstOf(<<x, y>>) = IF x # Nonsense THEN x ELSE y
<1> DEFINE values == <<x, y>>
<1>1. DOMAIN values = 1 .. 2 /\ values[1] = x /\ values[2] = y
    OBVIOUS
<1> HIDE DEF values
<1>2. CASE x # Nonsense
    <2>1. 1 \in DOMAIN values /\ DOMAIN values \subseteq Nat
          /\ \A j \in DOMAIN values : j < 1 => values[j] = Nonsense
        BY <1>1
    <2>2. FirstOf(values) = values[1]
        BY <1>1, <1>2, <2>1, FirstOfAt
    <2> QED
        BY <1>1, <1>2, <2>2 DEF values
<1>3. CASE x = Nonsense /\ y # Nonsense
    <2>1. 2 \in DOMAIN values /\ DOMAIN values \subseteq Nat
          /\ \A j \in DOMAIN values : j < 2 => values[j] = Nonsense
        BY <1>1, <1>3
    <2>2. FirstOf(values) = values[2]
        BY <1>1, <1>3, <2>1, FirstOfAt
    <2> QED
        BY <1>1, <1>3, <2>2 DEF values
<1>4. CASE x = Nonsense /\ y = Nonsense
    <2>1. \A i \in DOMAIN values : values[i] = Nonsense
        BY <1>1, <1>4
    <2>2. FirstOf(values) = Nonsense
        BY <2>1, FirstOfNone
    <2> QED
        BY <1>4, <2>2 DEF values
<1> QED
    BY <1>2, <1>3, <1>4

LEMMA ModelInIs ==
    ASSUME NEW fields
    PROVE  /\ ~Has(fields, "model_name") /\ ~Has(fields, "model") => ModelIn(fields) = Nonsense
           /\ Has(fields, "model_name") /\ fields["model_name"] # Nonsense =>
                ModelIn(fields) = fields["model_name"]
           /\ ~Has(fields, "model_name") /\ Has(fields, "model") /\ fields["model"] # Nonsense =>
                ModelIn(fields) = fields["model"]
<1> DEFINE names == <<"model_name", "model">>
<1>1. DOMAIN names = 1 .. 2 /\ names[1] = "model_name" /\ names[2] = "model"
    OBVIOUS
<1>2. ModelIn(fields) = FirstUnder(names, fields)
    BY DEF ModelIn
<1> HIDE DEF names
<1>3. ASSUME ~Has(fields, "model_name"), ~Has(fields, "model")
      PROVE  ModelIn(fields) = Nonsense
    <2>1. \A i \in DOMAIN names : ~Has(fields, names[i])
        BY <1>1, <1>3
    <2> QED
        BY <1>2, <2>1, UnderNone
<1>4. ASSUME Has(fields, "model_name"), fields["model_name"] # Nonsense
      PROVE  ModelIn(fields) = fields["model_name"]
    <2>1. 1 \in DOMAIN names /\ DOMAIN names \subseteq Nat
          /\ Has(fields, names[1]) /\ fields[names[1]] # Nonsense
          /\ \A j \in DOMAIN names : j < 1 => ~Has(fields, names[j])
        BY <1>1, <1>4
    <2>2. FirstUnder(names, fields) = fields[names[1]]
        BY <2>1, UnderIs
    <2> QED
        BY <1>1, <1>2, <2>2
<1>5. ASSUME ~Has(fields, "model_name"), Has(fields, "model"), fields["model"] # Nonsense
      PROVE  ModelIn(fields) = fields["model"]
    <2>1. 2 \in DOMAIN names /\ DOMAIN names \subseteq Nat
          /\ Has(fields, names[2]) /\ fields[names[2]] # Nonsense
          /\ \A j \in DOMAIN names : j < 2 => ~Has(fields, names[j])
        BY <1>1, <1>5
    <2>2. FirstUnder(names, fields) = fields[names[2]]
        BY <2>1, UnderIs
    <2> QED
        BY <1>1, <1>2, <2>2
<1> QED
    BY <1>3, <1>4, <1>5

\* A model has a name; null is none.
LEMMA NamesAreNames ==
    /\ \A letter \in {"a", "b", "c"} :
          <<letter, "b">> \in Seq(Letters) /\ <<letter, "b">> # Nonsense
    /\ <<"b">> \in Seq(Letters) /\ <<"b">> # Nonsense
<1>1. {"a", "b", "c"} \subseteq Letters
    BY PartsAssumption
<1>2. \A letter \in {"a", "b", "c"} : <<letter, "b">> \in Seq(Letters)
    BY <1>1
<1>3. <<"b">> \in Seq(Letters)
    BY <1>1
<1> QED
    BY <1>2, <1>3, EventSchemaAssumption

\* The first that names the model, in the result and then in its generations.
LEMMA ModelOfAnswer ==
    ASSUME ReplyInv
    PROVE  ExtractUsage(AnswerOf(reply)).model =
             IF <<0, "model_name">> \in reply.named THEN <<"a", "b">>
             ELSE IF <<1, "model">> \in reply.named THEN <<"b", "b">>
             ELSE IF <<2, "info">> \in reply.named THEN <<"c", "b">>
             ELSE Nonsense
<1> DEFINE a == AnswerOf(reply)
           named(at) == at \in reply.named
           A == <<"a", "b">>
           B == <<"b", "b">>
           C == <<"c", "b">>
<1>1. A # Nonsense /\ B # Nonsense /\ C # Nonsense
    BY NamesAreNames
<1>2. /\ a.output = Naming(Dict(0), <<0, "model_name">>, "model_name", "a")
      /\ Len(a.generations) = 2
      /\ \A g \in 1 .. 2 :
            /\ a.generations[g].metadata = Naming(<<>>, <<g, "model">>, "model", "b")
            /\ a.generations[g].info = Naming(Dict(g), <<g, "info">>, "model_name", "c")
    BY AnswerHas
<1> HIDE DEF a
<1>3. \A n, at, letter :
         LET g == Naming(Dict(n), at, "model_name", letter)
         IN  /\ ~Has(g, "model")
             /\ IF at \in reply.named
                THEN Has(g, "model_name") /\ g["model_name"] = <<letter, "b">>
                ELSE ~Has(g, "model_name")
    BY NamingIs
<1>4. ModelIn(a.output) = IF named(<<0, "model_name">>) THEN A ELSE Nonsense
    <2> DEFINE f == a.output
    <2>1. /\ ~Has(f, "model")
          /\ IF named(<<0, "model_name">>)
             THEN Has(f, "model_name") /\ f["model_name"] = A ELSE ~Has(f, "model_name")
        BY <1>2, <1>3
    <2> HIDE DEF f, A
    <2>2. ModelIn(f) = IF named(<<0, "model_name">>) THEN A ELSE Nonsense
        BY <1>1, <2>1, ModelInIs
    <2> QED
        BY <2>2 DEF f
<1>5. ASSUME NEW g \in 1 .. 2
      PROVE  /\ ModelIn(a.generations[g].info) =
                  IF named(<<g, "info">>) THEN C ELSE Nonsense
             /\ ModelIn(a.generations[g].metadata) =
                  IF named(<<g, "model">>) THEN B ELSE Nonsense
    <2> DEFINE f == a.generations[g].info
               m == a.generations[g].metadata
    <2>1. /\ ~Has(f, "model")
          /\ IF named(<<g, "info">>)
             THEN Has(f, "model_name") /\ f["model_name"] = C ELSE ~Has(f, "model_name")
        <3>1. f = Naming(Dict(g), <<g, "info">>, "model_name", "c")
            BY <1>2
        <3> HIDE DEF f
        <3> QED
            BY <1>3, <3>1
    <2>2. /\ ~Has(m, "model_name")
          /\ IF named(<<g, "model">>) THEN Has(m, "model") /\ m["model"] = B ELSE ~Has(m, "model")
        <3>1. m = IF named(<<g, "model">>) THEN With(<<>>, "model", B) ELSE <<>>
            BY <1>2 DEF Naming
        <3>2. DOMAIN << >> = {}
            OBVIOUS
        <3>3. /\ DOMAIN With(<<>>, "model", B) = {"model"}
              /\ With(<<>>, "model", B)["model"] = B
            BY <3>2 DEF With
        <3> HIDE DEF m, B
        <3> QED
            BY <3>1, <3>2, <3>3 DEF Has
    <2> HIDE DEF f, m, B, C
    <2>3. ModelIn(f) = IF named(<<g, "info">>) THEN C ELSE Nonsense
        BY <1>1, <2>1, ModelInIs
    <2>4. ModelIn(m) = IF named(<<g, "model">>) THEN B ELSE Nonsense
        BY <1>1, <2>2, ModelInIs
    <2> QED
        BY <2>3, <2>4 DEF f, m
<1> HIDE DEF A, B, C
<1>6. ~named(<<1, "info">>) /\ ~named(<<2, "model">>)
    BY DEF ReplyInv, Namers
<1>7. /\ ModelOfGeneration(a.generations[1]) = IF named(<<1, "model">>) THEN B ELSE Nonsense
      /\ ModelOfGeneration(a.generations[2]) = IF named(<<2, "info">>) THEN C ELSE Nonsense
    <2>1. \A g \in 1 .. 2 :
             ModelOfGeneration(a.generations[g]) =
               IF named(<<g, "model">>) THEN B ELSE IF named(<<g, "info">>) THEN C ELSE Nonsense
        <3> SUFFICES ASSUME NEW g \in 1 .. 2
                     PROVE  ModelOfGeneration(a.generations[g]) =
                              IF named(<<g, "model">>) THEN B
                              ELSE IF named(<<g, "info">>) THEN C ELSE Nonsense
            OBVIOUS
        <3> DEFINE x == ModelIn(a.generations[g].metadata)
                   y == ModelIn(a.generations[g].info)
        <3>1. ModelOfGeneration(a.generations[g]) = FirstOf(<<x, y>>)
            BY DEF ModelOfGeneration
        <3>2. /\ x = IF named(<<g, "model">>) THEN B ELSE Nonsense
              /\ y = IF named(<<g, "info">>) THEN C ELSE Nonsense
            BY <1>5
        <3> HIDE DEF x, y
        <3>3. FirstOf(<<x, y>>) = IF x # Nonsense THEN x ELSE y
            BY FirstOfPair
        <3> QED
            BY <1>1, <3>1, <3>2, <3>3
    <2> QED
        BY <1>6, <2>1
<1> DEFINE values == [g \in 0 .. 2 |-> IF g = 0 THEN ModelIn(a.output)
                                       ELSE ModelOfGeneration(a.generations[g])]
<1>8. ExtractUsage(a).model = FirstOf(values)
    BY <1>2 DEF ExtractUsage
<1>9. /\ DOMAIN values = 0 .. 2
      /\ values[0] = IF named(<<0, "model_name">>) THEN A ELSE Nonsense
      /\ values[1] = IF named(<<1, "model">>) THEN B ELSE Nonsense
      /\ values[2] = IF named(<<2, "info">>) THEN C ELSE Nonsense
    BY <1>4, <1>7
<1> HIDE DEF values, named
<1>10. 0 .. 2 = {0, 1, 2} /\ 0 .. 2 \subseteq Nat
    OBVIOUS
<1>11. CASE named(<<0, "model_name">>)
    <2>1. values[0] = A
        BY <1>9, <1>11
    <2>2. \A j \in DOMAIN values : j < 0 => values[j] = Nonsense
        BY <1>9
    <2>3. FirstOf(values) = values[0]
        BY <1>1, <1>9, <1>10, <2>1, <2>2, FirstOfAt
    <2> QED
        BY <1>8, <1>11, <2>1, <2>3 DEF named, a, A
<1>12. CASE ~named(<<0, "model_name">>) /\ named(<<1, "model">>)
    <2>1. values[1] = B
        BY <1>9, <1>12
    <2>2. \A j \in DOMAIN values : j < 1 => values[j] = Nonsense
        BY <1>9, <1>10, <1>12
    <2>3. FirstOf(values) = values[1]
        BY <1>1, <1>9, <1>10, <2>1, <2>2, FirstOfAt
    <2> QED
        BY <1>8, <1>12, <2>1, <2>3 DEF named, a, B
<1>13. CASE ~named(<<0, "model_name">>) /\ ~named(<<1, "model">>) /\ named(<<2, "info">>)
    <2>1. values[2] = C
        BY <1>9, <1>13
    <2>2. \A j \in DOMAIN values : j < 2 => values[j] = Nonsense
        BY <1>9, <1>10, <1>13
    <2>3. FirstOf(values) = values[2]
        BY <1>1, <1>9, <1>10, <2>1, <2>2, FirstOfAt
    <2> QED
        BY <1>8, <1>13, <2>1, <2>3 DEF named, a, C
<1>14. CASE ~named(<<0, "model_name">>) /\ ~named(<<1, "model">>) /\ ~named(<<2, "info">>)
    <2>1. \A j \in DOMAIN values : values[j] = Nonsense
        BY <1>9, <1>10, <1>14
    <2>2. FirstOf(values) = Nonsense
        BY <2>1, FirstOfNone
    <2> QED
        BY <1>8, <1>14, <2>2 DEF named, a
<1> QED
    BY <1>11, <1>12, <1>13, <1>14

\* The model that was asked for, when it is among what the run was started with.
LEMMA ModelAsked == ModelOf(<<>>, <<>>, [model |-> <<"b">>], <<>>) = <<"b">>
<1> DEFINE names == <<"ls_model_name", "model_name", "model", "model_id", "deployment_name">>
           few == <<"model_name", "model", "model_id">>
           start == [model |-> <<"b">>]
           values == <<FirstUnder(names, <<>>), FirstUnder(names, <<>>),
                       FirstUnder(names, start), FirstUnder(few, <<>>)>>
<1>1. DOMAIN names = 1 .. 5 /\ names[1] = "ls_model_name" /\ names[2] = "model_name"
      /\ names[3] = "model"
    OBVIOUS
<1>2. Has(start, "model") /\ start["model"] = <<"b">> /\ DOMAIN start = {"model"}
    BY DEF Has
<1>3. <<"b">> # Nonsense
    BY NamesAreNames
<1>4. ModelOf(<<>>, <<>>, start, <<>>) = FirstOf(values)
    BY DEF ModelOf
<1> HIDE DEF start, few, names
<1>5. FirstUnder(names, <<>>) = Nonsense
    <2>1. \A i \in DOMAIN names : ~Has(<<>>, names[i])
        BY DEF Has
    <2> QED
        BY <2>1, UnderNone
<1>6. FirstUnder(names, start) = <<"b">>
    <2>1. 3 \in DOMAIN names /\ DOMAIN names \subseteq Nat
          /\ Has(start, names[3]) /\ start[names[3]] # Nonsense
        BY <1>1, <1>2, <1>3
    <2>2. \A j \in DOMAIN names : j < 3 => ~Has(start, names[j])
        <3>1. \A j \in DOMAIN names : j < 3 => j = 1 \/ j = 2
            BY <1>1
        <3> QED
            BY <1>1, <1>2, <3>1 DEF Has
    <2>3. FirstUnder(names, start) = start[names[3]]
        BY <2>1, <2>2, UnderIs
    <2> QED
        BY <1>1, <1>2, <2>3
<1>7. /\ DOMAIN values = 1 .. 4 /\ values[1] = Nonsense /\ values[2] = Nonsense
      /\ values[3] = <<"b">>
    BY <1>5, <1>6
<1> HIDE DEF values
<1>8. 3 \in DOMAIN values /\ DOMAIN values \subseteq Nat
      /\ \A j \in DOMAIN values : j < 3 => values[j] = Nonsense
    <2>1. \A j \in DOMAIN values : j < 3 => j = 1 \/ j = 2
        BY <1>7
    <2> QED
        BY <1>7, <2>1
<1>9. FirstOf(values) = values[3]
    BY <1>3, <1>7, <1>8, FirstOfAt
<1> QED
    BY <1>4, <1>7, <1>9 DEF start

\* The event that reports an answer tells its counts, its model, and what it cost.
LEMMA ReplyKept ==
    ASSUME ReplyInv
    PROVE  ReplySurvives
<1> DEFINE start == [model |-> <<"b">>]
           wanted == ModelOf(<<>>, <<>>, start, <<>>)
           answer == AnswerOf(reply)
           heard == ExtractUsage(answer)
           name == IF <<0, "model_name">> \in reply.named THEN <<"a", "b">>
                   ELSE IF <<1, "model">> \in reply.named THEN <<"b", "b">>
                   ELSE IF <<2, "info">> \in reply.named THEN <<"c", "b">>
                   ELSE <<"b">>
           usage == IF Told = {} THEN Nonsense ELSE ProviderCounts(reply.provider)
           q == [trace_id |-> "trace", type |-> "span.end", usage |-> usage, model |-> name]
           sent == LlmEnd(wanted, answer)
           end == Parse(Encode(sent))
<1>1. wanted = <<"b">>
    BY ModelAsked
<1>2. heard.usage = usage
    BY UsageOfAnswer
<1>3. FirstOf(<<heard.model, wanted>>) = name
    <2> DEFINE x == heard.model
    <2>1. x = IF <<0, "model_name">> \in reply.named THEN <<"a", "b">>
              ELSE IF <<1, "model">> \in reply.named THEN <<"b", "b">>
              ELSE IF <<2, "info">> \in reply.named THEN <<"c", "b">>
              ELSE Nonsense
        BY ModelOfAnswer
    <2> HIDE DEF x, wanted
    <2>2. FirstOf(<<x, wanted>>) = IF x # Nonsense THEN x ELSE wanted
        BY FirstOfPair
    <2>3. <<"a", "b">> # Nonsense /\ <<"b", "b">> # Nonsense /\ <<"c", "b">> # Nonsense
        BY NamesAreNames
    <2>4. (IF x # Nonsense THEN x ELSE wanted) = name
        BY <1>1, <2>1, <2>3
    <2> QED
        BY <2>2, <2>4 DEF x
<1>4. name \in Seq(Letters) /\ name # Nonsense
    BY NamesAreNames
<1>5. Told # {} => reply.provider \in 1 .. 3
    BY DEF ReplyInv, Told
<1>6. /\ usage = Nonsense \/ Tallies(usage)
      /\ Told # {} => usage # Nonsense /\ UsageOf(usage) = usage
    BY <1>5, ProviderCountsAre
<1> HIDE DEF start, wanted, answer, name, usage
<1>7. sent = Event(q)
    BY <1>2, <1>3 DEF LlmEnd
<1>8. /\ DOMAIN q = {"trace_id", "type", "usage", "model"} /\ q["trace_id"] = "trace"
      /\ q["type"] = "span.end" /\ q["usage"] = usage /\ q["model"] = name
    OBVIOUS
<1> HIDE DEF q, sent
<1>9. Valid(q)
    <2>1. DOMAIN Enums = {"type", "kind", "status"} /\ Enums["type"] = EventTypes
          /\ "usage" \notin NotNull /\ Required = {"trace_id", "type"}
        BY DEF Enums, NotNull, Required, Defaults
    <2>2. /\ "trace" \notin {Nonsense, Garbage} /\ name \notin {Nonsense, Garbage}
          /\ "span.end" \notin {Nonsense, Garbage} /\ "span.end" \in EventTypes
        BY <1>4, EventSchemaAssumption, ModelUsageAssumption DEF EventTypes
    <2>3. usage # Garbage
        BY <1>6, TablesAreTables, EventSchemaAssumption
    <2>4. \A key \in DOMAIN q : Accepts(key, q[key])
        BY <1>8, <2>1, <2>2, <2>3 DEF Accepts
    <2> QED
        BY <1>8, <2>1, <2>4 DEF Valid
<1>10. \A key \in {"usage", "error"} : Has(q, key) => Fits(key, q[key])
    BY <1>6, <1>8 DEF Has, Fits
<1>11. /\ DOMAIN Event(q) = Known \cup DOMAIN q
       /\ \A key \in DOMAIN q : Event(q)[key] = Read(key, q[key])
       /\ \A key \in Known \ DOMAIN q : Event(q)[key] = Get(Defaults, key, Nonsense)
    BY <1>9, <1>10, EventIs
<1>12. end.usage = usage /\ end.model = name
    <2> DEFINE e == Event(q)
    <2>1. Valid(e) /\ \A key \in {"usage", "error"} : Has(e, key) => Fits(key, e[key])
        BY <1>9, <1>10, EventIs DEF Has
    <2>2. end = Event(e)
        <3>1. ~Has(q, "raised") /\ Get(q, "schema_version", 2) = 2
            BY <1>8 DEF Has, Get
        <3> QED
            BY <1>7, <1>9, <1>10, <3>1, ReadAgain
    <2> HIDE DEF e, end
    <2>3. \A key \in DOMAIN e : end[key] = Read(key, e[key])
        BY <2>1, <2>2, EventIs
    <2>4. \A x : Read("model", x) = x
        BY DEF Read
    <2>5. Read("usage", usage) = usage
        <3>1. usage = Nonsense \/ (usage # Nonsense /\ UsageOf(usage) = usage)
            BY <1>6 DEF usage
        <3> QED
            BY <3>1 DEF Read
    <2>6. /\ "usage" \in DOMAIN e /\ "model" \in DOMAIN e
          /\ e["usage"] = usage /\ e["model"] = name
        BY <1>8, <1>11, <2>4, <2>5 DEF e
    <2> QED
        BY <2>3, <2>4, <2>5, <2>6
<1> HIDE DEF end
<1>13. CostOf(end) = IF Told = {} THEN 0 ELSE CostMicros(end.model, 3, 2)
    <2>1. CASE Told = {}
        <3>1. usage = Nonsense
            BY <2>1 DEF usage
        <3>2. CostOf(end) = CostMicros(name, 0, 0)
            BY <1>4, <1>12, <3>1 DEF CostOf
        <3>3. CostMicros(name, 0, 0) = 0
            BY <1>4, CostsTheLongestKey
        <3> QED
            BY <2>1, <3>2, <3>3
    <2>2. CASE Told # {}
        <3>1. end.usage["prompt_tokens"] = 3 /\ end.usage["completion_tokens"] = 2
            BY <1>12, <2>2 DEF usage, ProviderCounts
        <3>2. end.usage # Nonsense
            BY <1>6, <1>12, <2>2
        <3> QED
            BY <1>4, <1>12, <2>2, <3>1, <3>2 DEF CostOf
    <2> QED
        BY <2>1, <2>2
<1>14. end.usage = IF Told = {} THEN Nonsense
                   ELSE [prompt_tokens |-> 3, completion_tokens |-> 2,
                         total_tokens |-> IF reply.provider = 3 THEN 6 ELSE 5]
    BY <1>12 DEF usage, ProviderCounts
<1>15. end.model = IF <<0, "model_name">> \in reply.named THEN <<"a", "b">>
                   ELSE IF <<1, "model">> \in reply.named THEN <<"b", "b">>
                   ELSE IF <<2, "info">> \in reply.named THEN <<"c", "b">>
                   ELSE <<"b">>
    BY <1>12 DEF name
<1>16. end = Parse(Encode(LlmEnd(ModelOf(<<>>, <<>>, [model |-> <<"b">>], <<>>), AnswerOf(reply))))
    BY DEF end, sent, wanted, answer, start
<1> QED
    BY <1>13, <1>14, <1>15, <1>16, Zenon DEF ReplySurvives, Told

-------------------------------------------------------------------------------
\* The errors that an event may have tell of an error, or are none.
LEMMA ErrorsFit == \A x \in Errors : x = Garbage \/ Troubles(x)
<1> DEFINE long == [message |-> Whole(ErrorLimit + 2), cause |-> Whole(1)]
           cut == [stack |-> [shown |-> ErrorLimit, cut |-> 5]]
           null == [message |-> Nonsense]
<1>1. Errors = {long, cut, null, Garbage}
    BY DEF Errors
<1>2. "cause" \in Details /\ ErrorLimit \in Nat
    BY PartsAssumption, EventSchemaAssumption
<1>3. DOMAIN NoError = {"type", "message", "stack"}
    BY DEF NoError
<1>4. /\ Clipped(Whole(ErrorLimit + 2)) /\ Whole(1) \in Text
      /\ Clipped([shown |-> ErrorLimit, cut |-> 5])
    BY <1>2 DEF Clipped, Whole, Text
<1>5. Troubles(long)
    <2>1. /\ {"message", "cause"} \in SUBSET (DOMAIN NoError \cup Details)
          /\ DOMAIN long = {"message", "cause"}
          /\ long["message"] = Whole(ErrorLimit + 2) /\ long["cause"] = Whole(1)
          /\ long = [k \in DOMAIN long |-> long[k]]
        BY <1>2, <1>3
    <2> HIDE DEF long
    <2>2. long \in [{"message", "cause"} -> Text \cup {Nonsense}]
        BY <1>4, <2>1 DEF Clipped
    <2>3. \A k \in {"message", "cause"} \cap {"message", "stack"} : Clipped(long[k])
        BY <1>4, <2>1
    <2> QED
        BY <2>1, <2>2, <2>3 DEF Troubles
<1>6. Troubles(cut)
    <2>1. /\ {"stack"} \in SUBSET (DOMAIN NoError \cup Details) /\ DOMAIN cut = {"stack"}
          /\ cut["stack"] = [shown |-> ErrorLimit, cut |-> 5] /\ cut = [k \in DOMAIN cut |-> cut[k]]
        BY <1>3
    <2> HIDE DEF cut
    <2>2. cut \in [{"stack"} -> Text \cup {Nonsense}] /\ Clipped(cut["stack"])
        BY <1>4, <2>1 DEF Clipped
    <2> QED
        BY <2>1, <2>2 DEF Troubles
<1>7. Troubles(null)
    <2>1. /\ {"message"} \in SUBSET (DOMAIN NoError \cup Details) /\ DOMAIN null = {"message"}
          /\ null["message"] = Nonsense /\ null = [k \in DOMAIN null |-> null[k]]
        BY <1>3
    <2> HIDE DEF null
    <2>2. null \in [{"message"} -> Text \cup {Nonsense}]
        BY <2>1
    <2> QED
        BY <2>1, <2>2 DEF Troubles
<1> HIDE DEF long, cut, null
<1> QED
    BY <1>1, <1>5, <1>6, <1>7

LEMMA NextPayloads == Readable(payload) /\ [Next]_vars => Readable(payload)'
<1> SUFFICES ASSUME Readable(payload), [Next]_vars
             PROVE  Readable(payload')
    BY DEF Readable, Tallies, Troubles, Clipped, Fits, Has
<1>1. CASE NextField
    <2>1. PICK key \in DOMAIN Fields \ DOMAIN payload : \E value \in Fields[key] :
            payload' = With(payload, key, value)
        BY <1>1, Zenon DEF NextField
    <2>2. PICK value \in Fields[key] : payload' = With(payload, key, value)
        BY <2>1
    <2>3. /\ DOMAIN payload' = DOMAIN payload \cup {key}
          /\ payload'[key] = value
          /\ \A k \in DOMAIN payload : payload'[k] = payload[k]
        BY <2>1, <2>2 DEF With
    <2>4. /\ key # "raised"
          /\ key = "schema_version" => value \in CountValue
          /\ key \in Counts => value \in CountValue
          /\ key \in {"usage", "error"} => Fits(key, value)
          /\ key = "model" => value \in Seq(Letters)
        <3>1. /\ DOMAIN Fields = {"schema_version", "trace_id", "type", "event_type", "kind", "name",
                                  "node", "tenant_id", "started_at", "prompt_tokens", "total_tokens",
                                  "usage", "error", "model", "shard"}
              /\ Fields["schema_version"] = {0, 1, 2, 3, Nonsense}
              /\ Fields["prompt_tokens"] = {-3, 2, Nonsense} /\ Fields["total_tokens"] = {9}
              /\ Fields["usage"] =
                   {Nonsense, [prompt_tokens |-> 4],
                    [total_tokens |-> -1, completion_tokens |-> 6, cached_tokens |-> 1]}
              /\ Fields["error"] = Errors
              /\ Fields["model"] = {<<"c", "a", "a", "b">>, <<"b", "a">>, <<"c">>}
            BY DEF Fields
        <3>2. /\ Tallies([prompt_tokens |-> 4])
              /\ Tallies([total_tokens |-> -1, completion_tokens |-> 6, cached_tokens |-> 1])
            <4>1. "cached_tokens" \in Details
                BY PartsAssumption
            <4>2. /\ {"prompt_tokens"} \in SUBSET (Counts \cup Details)
                  /\ {"total_tokens", "completion_tokens", "cached_tokens"}
                       \in SUBSET (Counts \cup Details)
                BY <4>1 DEF Counts
            <4>3. [prompt_tokens |-> 4] \in [{"prompt_tokens"} -> CountValue]
                BY DEF CountValue
            <4>4. [total_tokens |-> -1, completion_tokens |-> 6, cached_tokens |-> 1]
                    \in [{"total_tokens", "completion_tokens", "cached_tokens"} -> CountValue]
                BY DEF CountValue
            <4>5. Tallies([prompt_tokens |-> 4])
                BY <4>2, <4>3 DEF Tallies
            <4>6. Tallies([total_tokens |-> -1, completion_tokens |-> 6, cached_tokens |-> 1])
                BY <4>2, <4>4 DEF Tallies
            <4> QED
                BY <4>5, <4>6
        <3>3. {<<"c", "a", "a", "b">>, <<"b", "a">>, <<"c">>} \subseteq Seq(Letters)
            BY PartsAssumption
        <3>4. key \in DOMAIN Fields /\ value \in Fields[key]
            BY <2>1, <2>2
        <3> HIDE DEF Fields
        <3>5. key # "raised"
            BY <3>1, <3>4
        <3>6. key = "schema_version" => value \in CountValue
            BY <3>1, <3>4 DEF CountValue
        <3>7. key \in Counts => value \in CountValue
            BY <3>1, <3>4 DEF Counts, CountValue
        <3>8. key = "usage" => Fits(key, value)
            BY <3>1, <3>2, <3>4 DEF Fits
        <3>9. key = "error" => Fits(key, value)
            BY <3>1, <3>4, ErrorsFit DEF Fits
        <3>10. key = "model" => value \in Seq(Letters)
            BY <3>1, <3>3, <3>4
        <3> QED
            BY <3>5, <3>6, <3>7, <3>8, <3>9, <3>10
    <2>5. \A k \in {"usage", "error"} : Has(payload', k) => Fits(k, payload'[k])
        BY <2>3, <2>4 DEF Readable, Has
    <2> QED
        BY <2>1, <2>3, <2>4, <2>5 DEF Readable, Has
<1>2. CASE payload' = payload
    BY <1>2
<1>3. [Next]_vars => NextField \/ payload' = payload
    BY DEF Next, vars, inputs, NextDigit, NextItem, NextPlace, NextNamer, NextWord, NextSpan
<1> QED
    BY <1>1, <1>2, <1>3

LEMMA NextReplies == ReplyInv /\ [Next]_vars => ReplyInv'
<1> SUFFICES ASSUME ReplyInv, [Next]_vars
             PROVE  ReplyInv'
    OBVIOUS
<1>1. CASE NextPlace
    <2>1. PICK p \in 1 .. 3, at \in Places, fill \in {"counts", "zeros", "null"} :
            /\ reply.provider \in {0, p} /\ at \notin DOMAIN reply.filled
            /\ reply' = [reply EXCEPT !.provider = p, !.filled = With(@, at, fill)]
        BY <1>1 DEF NextPlace
    <2>2. /\ DOMAIN reply' = DOMAIN reply
          /\ reply'.provider = p /\ reply'.named = reply.named
          /\ reply'.filled = With(reply.filled, at, fill)
        BY <2>1 DEF ReplyInv
    <2>3. /\ DOMAIN reply'.filled = DOMAIN reply.filled \cup {at}
          /\ reply'.filled[at] = fill
          /\ \A b \in DOMAIN reply.filled : reply'.filled[b] = reply.filled[b]
        BY <2>1, <2>2 DEF With
    <2> QED
        BY <2>2, <2>3 DEF ReplyInv
<1>2. CASE NextNamer
    <2>1. PICK n \in Namers : reply' = [reply EXCEPT !.named = @ \cup {n}]
        BY <1>2 DEF NextNamer
    <2>2. /\ DOMAIN reply' = DOMAIN reply
          /\ reply'.provider = reply.provider /\ reply'.filled = reply.filled
          /\ reply'.named = reply.named \cup {n}
        BY <2>1 DEF ReplyInv
    <2> QED
        BY <2>2 DEF ReplyInv
<1>3. CASE reply' = reply
    BY <1>3 DEF ReplyInv
<1>4. [Next]_vars => NextPlace \/ NextNamer \/ reply' = reply
    BY DEF Next, vars, inputs, NextDigit, NextItem, NextField, NextWord, NextSpan
<1> QED
    BY <1>1, <1>2, <1>3, <1>4

\* Whatever fields an event has, and wherever a model says what it used: what was said is what
\* is read, and what it costs is stored.
THEOREM FactsAreKept == Spec => []FactsSurvive
<1> DEFINE PayloadInv == Readable(payload)
<1>1. Init => PayloadInv /\ ReplyInv
    <2> SUFFICES ASSUME Init
                 PROVE  PayloadInv /\ ReplyInv
        OBVIOUS
    <2>1. payload = <<>> /\ reply = NoReply
        BY DEF Init
    <2>2. DOMAIN << >> = {}
        OBVIOUS
    <2>3. Readable(payload)
        BY <2>1, <2>2 DEF Readable, Has
    <2>4. ReplyInv
        BY <2>1, <2>2 DEF ReplyInv, NoReply
    <2> QED
        BY <2>3, <2>4
<1>2. PayloadInv /\ ReplyInv /\ [Next]_vars => PayloadInv' /\ ReplyInv'
    BY NextPayloads, NextReplies
<1>3. PayloadInv /\ ReplyInv => FactsSurvive
    BY ReadsWhatWasSaid, ReplyKept DEF FactsSurvive
<1> HIDE DEF PayloadInv
<1> QED
    BY <1>1, <1>2, <1>3, PTL DEF Spec

==============================================================================
