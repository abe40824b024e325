------------------------------ MODULE RateLimit ------------------------------
(***************************************************************************)
(* security/ratelimit.py as the middleware and the login endpoint use it:  *)
(* two fixed buckets a caller, in Redis for all the processes of the API,  *)
(* in each process while Redis cannot be reached. Time goes in ticks,      *)
(* Window of them to a bucket. The commands of one pipeline run without a  *)
(* gap: a gap between the increment and the read of the other bucket is    *)
(* the same as a later pipeline.                                           *)
(***************************************************************************)
EXTENDS Integers, Sequences, FiniteSets, Bags

CONSTANTS
    Callers, Processes,
    Window,      \* window_seconds
    Limit,       \* the quota of a window
    MaxKeys,     \* InProcessCounter.MAX_KEYS
    MaxTime,     \* bound: ticks
    MaxAsked,    \* bound: requests
    MaxOutages   \* bound: how often Redis goes away

ASSUME RateLimitAssumption ==
    /\ {Window, Limit, MaxKeys, MaxTime, MaxAsked} \subseteq Nat \ {0}
    /\ "redis" \notin Processes

VARIABLES
    now,
    up,         \* Redis answers
    outages,
    redis,      \* the counters in Redis: <<caller, bucket>> -> [count, expiry]
    local,      \* the counters of each process
    asks,       \* requests so far
    asked,      \* a bag of those that have read the clock and not yet their count
    admitted    \* history: those that were let through, in order

limiter == <<now, up, outages, redis, local, asks, asked, admitted>>

NoKeys == [k \in {} |-> 0]

LimiterInit ==
    /\ now = 0 /\ up = TRUE /\ outages = 0
    /\ redis = NoKeys /\ local = [p \in Processes |-> NoKeys]
    /\ asks = 0 /\ asked = EmptyBag /\ admitted = <<>>

Bucket(t) == t \div Window
Elapsed(t) == t % Window

\* Mutant of Ttl: a key lives for one window.
OneWindow == Window

Ttl == 2 * Window

\* Assumed of Redis: a pipeline is answered, or fails, in less than a window.
Tick ==
    /\ now < MaxTime
    /\ \A r \in BagToSet(asked) : now + 1 < r.at + Window
    /\ now' = now + 1
    /\ UNCHANGED <<up, outages, redis, local, asks, asked, admitted>>

RedisGoes ==
    /\ up /\ outages < MaxOutages
    /\ up' = FALSE /\ outages' = outages + 1
    /\ UNCHANGED <<now, redis, local, asks, asked, admitted>>

RedisReturns ==
    /\ ~up /\ up' = TRUE
    /\ UNCHANGED <<now, outages, redis, local, asks, asked, admitted>>

\* check_rate_limit, to its await: the clock decides which buckets count.
Ask(c) ==
    /\ asks < MaxAsked
    /\ asks' = asks + 1
    /\ asked' = asked (+) SetToBag({[caller |-> c, at |-> now]})
    /\ UNCHANGED <<now, up, outages, redis, local, admitted>>

Live(keys, k) == k \in DOMAIN keys /\ keys[k].expiry >= now
CountOf(keys, k) == IF Live(keys, k) THEN keys[k].count ELSE 0

Incremented(keys, k) ==
    [j \in DOMAIN keys \cup {k} |->
        IF j = k THEN [count |-> CountOf(keys, k) + 1, expiry |-> now + Ttl] ELSE keys[j]]

Current(r) == <<r.caller, Bucket(r.at)>>
Previous(r) == <<r.caller, Bucket(r.at) - 1>>

\* Mutant of Used: the bucket before is forgotten.
FixedWindow(keys, r) == CountOf(keys, Current(r)) * Window

\* The share of the bucket before that the window still covers; in Window-ths.
Used(keys, r) ==
    CountOf(keys, Current(r)) * Window + CountOf(keys, Previous(r)) * (Window - Elapsed(r.at))

\* A request that is refused has been counted all the same.
Answer(keys, r, store) ==
    /\ asked' = asked (-) SetToBag({r})
    /\ admitted' = IF Used(keys, r) <= Limit * Window
                   THEN Append(admitted, [caller |-> r.caller, at |-> r.at, store |-> store,
                                          late |-> Bucket(now) # Bucket(r.at)])
                   ELSE admitted

\* The pipeline: incr, expire, get.
Count(r) ==
    /\ up
    /\ redis' = Incremented(redis, Current(r))
    /\ Answer(redis', r, "redis")
    /\ UNCHANGED <<now, up, outages, asks, local>>

\* _evict: only what has expired, when there are too many keys.
Evicted(keys) ==
    IF Cardinality(DOMAIN keys) > MaxKeys
    THEN [k \in {j \in DOMAIN keys : keys[j].expiry >= now} |-> keys[k]] ELSE keys

\* Redis cannot be reached, or has counted and its answer is lost: process p counts.
FallBack(r, p) ==
    /\ IF up THEN /\ outages < MaxOutages
                  /\ outages' = outages + 1
                  /\ redis' = Incremented(redis, Current(r))
       ELSE UNCHANGED <<outages, redis>>
    /\ local' = [local EXCEPT ![p] = Incremented(Evicted(@), Current(r))]
    /\ Answer(local'[p], r, p)
    /\ UNCHANGED <<now, up, asks>>

LimiterNext ==
    \/ Tick \/ RedisGoes \/ RedisReturns
    \/ \E c \in Callers : Ask(c)
    \/ \E r \in BagToSet(asked) : Count(r) \/ \E p \in Processes : FallBack(r, p)

LimiterSpec == LimiterInit /\ [][LimiterNext]_limiter

-------------------------------------------------------------------------------
\* Those of caller c that a store let through in bucket b, to the tick e of it.
Allowed(c, store, b, e) ==
    {i \in DOMAIN admitted :
        /\ admitted[i].caller = c /\ admitted[i].store = store
        /\ Bucket(admitted[i].at) = b /\ Elapsed(admitted[i].at) <= e}

OnTime(A) == \A i \in A : ~admitted[i].late

\* No store lets a caller through more often than the quota in one bucket, nor, of two
\* buckets, more often than the quota and the share of the later one that has passed: what
\* a fixed window would allow across the boundary (ratelimit.py:9-12). A request whose count
\* came when its bucket was over is excepted. A key must outlive the last request that
\* reads it, and a refused request counts.
QuotaHolds ==
    \A c \in Callers, store \in {"redis"} \cup Processes, b \in 0 .. Bucket(MaxTime) :
        LET whole == Allowed(c, store, b, Window - 1)
        IN  /\ Cardinality(whole) <= Limit
            /\ \A e \in 0 .. Window - 1 :
                  LET next == Allowed(c, store, b + 1, e)
                  IN  OnTime(whole \cup next) =>
                         Window * (Cardinality(whole) + Cardinality(next)) <= Limit * (Window + e)
==============================================================================
