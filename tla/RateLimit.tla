------------------------------- MODULE RateLimit -------------------------------
(***************************************************************************)
(* SlidingWindowLimiter (rate_limit.py) as main.py uses it for the auth      *)
(* endpoints: an attempt is checked under the key of its client and then     *)
(* under that of its account; the table of keys is bounded, and a new key    *)
(* evicts the least recently used one that is not at its limit.              *)
(***************************************************************************)
EXTENDS Naturals, Sequences, FiniteSets, SequencesExt

CONSTANTS TClients, TAccounts,  \* who tries to log in, and as whom
          TMax,       \* max_requests after effective_budget
          TWindow,    \* window_seconds
          TMaxKeys,   \* _MAX_KEYS
          TMaxClock   \* bound: ticks of the clock

TKeys == TClients \cup TAccounts

ASSUME RateLimitAssumption ==
    /\ TClients \cap TAccounts = {} /\ IsFiniteSet(TKeys)
    /\ TMax \in Nat \ {0} /\ TWindow \in Nat \ {0} /\ TMaxKeys \in Nat \ {0}
    /\ TMaxClock \in Nat \ {0}

VARIABLES now,      \* monotonic()
          order,    \* the keys of _buckets, least recently used first
          bucket,   \* [TKeys -> times], << >> for a key not in order
          until,    \* [TKeys -> the time until which the key stays at its limit] (history)
          passed,   \* the keys whose attempt went through at this time (history)
          full      \* a table of keys all at their limit had to lose one (history)

tVars == <<now, order, bucket, until, passed, full>>

RateLimitInit ==
    /\ now = 1 /\ order = << >> /\ full = FALSE
    /\ bucket = [k \in TKeys |-> << >>] /\ until = [k \in TKeys |-> 0] /\ passed = {}

InWindow(times) == {i \in DOMAIN times : times[i] + TWindow >= now}

\* The bucket once its expired head is popped.
Live(times) ==
    IF InWindow(times) = {} THEN << >> ELSE SubSeq(times, Min(InWindow(times)), Len(times))

AtLimit(k) == Cardinality(InWindow(bucket[k])) >= TMax

\* _evict_if_needed: the place of the first key that is not at its limit, else the first.
VictimAt ==
    LET loose == {i \in DOMAIN order : ~AtLimit(order[i])}
    IN  IF loose = {} THEN 1 ELSE Min(loose)

Victim == order[VictimAt]

\* A mutated form: the table may hold one key more.
EvictsLate(k) == k \notin Range(order) /\ Len(order) > TMaxKeys

Evicts(k) == k \notin Range(order) /\ Len(order) >= TMaxKeys

\* check: the table when the key's bucket has been found or made; the key is the last used.
Touched(k) ==
    LET rest == IF Evicts(k) THEN RemoveAt(order, VictimAt)
                ELSE IF k \notin Range(order) THEN order
                ELSE RemoveAt(order, CHOOSE i \in DOMAIN order : order[i] = k)
    IN  Append(rest, k)

EmptiedBuckets(k) == IF Evicts(k) THEN [bucket EXCEPT ![Victim] = << >>] ELSE bucket

Check(k) ==
    LET times == Live(bucket[k])
        ok == Len(times) < TMax
        after == IF ok THEN Append(times, now) ELSE times
    IN  /\ order' = Touched(k) /\ bucket' = [EmptiedBuckets(k) EXCEPT ![k] = after]
        /\ until' = IF Len(after) = TMax THEN [until EXCEPT ![k] = after[1] + TWindow] ELSE until
        /\ passed' = IF ok THEN passed \cup {k} ELSE passed \ {k}
        /\ full' = (full \/ (Evicts(k) /\ \A j \in Range(order) : AtLimit(j)))
        /\ UNCHANGED now

\* _limit_login and its like: the client first; the account is checked by a
\* second call, if the body names one and the client was let through.
LimitClient(c) == Check(c)
LimitAccount(a) == (\E c \in TClients : c \in passed) /\ Check(a)

Tick ==
    /\ now < TMaxClock /\ now' = now + 1 /\ passed' = {}
    /\ UNCHANGED <<order, bucket, until, full>>

RateLimitNext ==
    \/ \E c \in TClients : LimitClient(c)
    \/ \E a \in TAccounts : LimitAccount(a)
    \/ Tick

RateLimitSpec == RateLimitInit /\ [][RateLimitNext]_tVars

-----------------------------------------------------------------------------
\* The table never holds more keys, nor a bucket more attempts, than its limit (rate_limit.py).
RateLimitTypeOK ==
    /\ now \in 1..TMaxClock /\ full \in BOOLEAN
    /\ Len(order) <= TMaxKeys /\ Range(order) \subseteq TKeys
    /\ until \in [TKeys -> 0..(TMaxClock + TWindow)] /\ passed \subseteq TKeys
    /\ \A k \in TKeys : Len(bucket[k]) <= TMax /\ Range(bucket[k]) \subseteq 1..TMaxClock

\* A key that has used its budget gets nothing through before its oldest attempt
\* leaves the window, although keys come and go in a full table; only a table
\* whose keys are all at their limit may forget one of them.
LimitedStaysLimited ==
    [][\A k \in TKeys : Len(bucket'[k]) > Len(Live(bucket[k])) => now > until[k] \/ full \/ full']_tVars
=============================================================================
