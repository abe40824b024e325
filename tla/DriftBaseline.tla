---------------------------- MODULE DriftBaseline ----------------------------
(***************************************************************************)
(* drift/monitor.py and the endpoint that captures a baseline, for one     *)
(* tenant and metric. The window of scores is their number, their mean and *)
(* their spread, in hundredths; sessions are READ COMMITTED transactions.  *)
(***************************************************************************)
EXTENDS Integers, Sequences, FiniteSets

CONSTANTS
    Operators,        \* requests of POST /drift/baseline that may overlap
    MinSamples,       \* drift_min_samples
    MinStddev,        \* MIN_STDDEV
    ZThreshold,       \* drift_z_threshold
    AbsoluteFloor,    \* drift_absolute_floor
    Windows,          \* what the window of scores may hold: count, mean, spread
    MaxCaptures       \* bound: baselines

ASSUME DriftAssumption ==
    /\ Windows \subseteq [count : Nat, mean : 0 .. 100, spread : Nat]
    /\ {MinSamples, MinStddev, ZThreshold, MaxCaptures} \subseteq Nat \ {0}

VARIABLES
    scores,       \* the window now
    baselines,    \* drift_baselines, committed, in order
    capture,      \* each request: where it is, and what it has read
    snapshots,    \* the last drift_snapshot, and whether its alert was raised
    crossed       \* history: captures that overlapped another one

drift == <<scores, baselines, capture, snapshots, crossed>>

NoCapture == [at |-> "idle", retire |-> {}, window |-> [count |-> 0, mean |-> 0, spread |-> 0]]
NoSnapshot == [at |-> 0, against |-> 0, z |-> FALSE, drifted |-> FALSE, alerted |-> FALSE]

Active == {i \in DOMAIN baselines : baselines[i].active}
Capturing(o) == capture[o].at # "idle"

DriftInit ==
    /\ scores \in Windows
    /\ baselines = <<>>
    /\ capture = [o \in Operators |-> NoCapture]
    /\ snapshots = NoSnapshot
    /\ crossed = {}

Scored ==
    /\ scores' \in Windows
    /\ UNCHANGED <<baselines, capture, snapshots, crossed>>

\* capture_baseline reads the scores; too few of them, and it answers 409.
StartCapture(o) ==
    /\ ~Capturing(o) /\ scores.count >= MinSamples
    /\ Cardinality({p \in Operators : Capturing(p)}) + Len(baselines) < MaxCaptures
    /\ capture' = [capture EXCEPT ![o] = [at |-> "read", retire |-> {}, window |-> scores]]
    /\ crossed' = IF \E p \in Operators : Capturing(p)
                  THEN crossed \cup {o} \cup {p \in Operators : Capturing(p)} ELSE crossed \ {o}
    /\ UNCHANGED <<scores, baselines, snapshots>>

\* The baselines that are active, as this session sees them.
ReadActive(o) ==
    /\ capture[o].at = "read"
    /\ capture' = [capture EXCEPT ![o].at = "commit", ![o].retire = Active]
    /\ UNCHANGED <<scores, baselines, snapshots, crossed>>

\* Mutant of Retired: those that were active stay so.
RetiredNone(retire) == baselines

Retired(retire) ==
    [i \in DOMAIN baselines |-> IF i \in retire THEN [baselines[i] EXCEPT !.active = FALSE]
                                ELSE baselines[i]]

\* The flush and the commit of the session: the retired and their successor together.
CommitCapture(o) ==
    /\ capture[o].at = "commit"
    /\ baselines' = Append(Retired(capture[o].retire),
                           [window |-> capture[o].window, active |-> TRUE,
                            crossed |-> o \in crossed])
    /\ capture' = [capture EXCEPT ![o] = NoCapture]
    /\ UNCHANGED <<scores, snapshots, crossed>>

CaptureFails(o) ==
    /\ Capturing(o)
    /\ capture' = [capture EXCEPT ![o] = NoCapture]
    /\ UNCHANGED <<scores, baselines, snapshots, crossed>>

Wider(m, n) == IF m > n THEN m ELSE n

\* evaluate: the z-score of the mean of count scores is at the threshold or above.
FarBelow(w, b) ==
    LET spread == Wider(b.spread, MinStddev)
    IN  /\ w.mean <= b.mean
        /\ (b.mean - w.mean) * (b.mean - w.mean) * w.count
             >= ZThreshold * ZThreshold * spread * spread

\* run_once for this tenant and metric: baselines[0], of a query without an order. The
\* snapshot and its alert are one transaction.
Evaluate(i) ==
    /\ scores.count >= MinSamples
    /\ IF Active = {} THEN i = 0 ELSE i \in Active
    /\ LET z == i # 0 /\ FarBelow(scores, baselines[i].window)
           drifted == z \/ scores.mean < AbsoluteFloor
       IN  snapshots' = [at |-> Len(baselines), against |-> i, z |-> z, drifted |-> drifted,
                         alerted |-> drifted]
    /\ UNCHANGED <<scores, baselines, capture, crossed>>

DriftNext ==
    \/ Scored
    \/ \E o \in Operators : StartCapture(o) \/ ReadActive(o) \/ CommitCapture(o) \/ CaptureFails(o)
    \/ \E i \in 0 .. Len(baselines) : Evaluate(i)

DriftSpec == DriftInit /\ [][DriftNext]_drift

-------------------------------------------------------------------------------
\* From the first capture on there is a baseline to compare with, also while it is being
\* replaced and when the replacement fails; it is the last one that was captured, and the
\* only one unless captures overlapped (monitor.py:111-113). The monitor never compared
\* with one that had been retired before.
OneBaseline ==
    /\ baselines # <<>> => Len(baselines) \in Active
    /\ Cardinality(Active) > 1 => \A i \in Active : baselines[i].crossed
    /\ snapshots.against # 0 =>
         \A j \in snapshots.against + 1 .. snapshots.at :
            baselines[snapshots.against].crossed /\ baselines[j].crossed
==============================================================================
