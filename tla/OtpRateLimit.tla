----------------------------- MODULE OtpRateLimit ----------------------------
(***************************************************************************)
(* The in-memory limits of middleware/otpRateLimit.js: a window of         *)
(* attempts, a lock when it is full, and a cleanup.  One key is modelled,  *)
(* as no two share a bucket, in each of the maps.                          *)
(***************************************************************************)
EXTENDS Load, Integers

CONSTANTS
    Limits,     \* OTP_VERIFY and OTP_ISSUE: [max, window, lock] for each map
    MaxTime     \* bound: the clock

ASSUME LimitsAssumption ==
    /\ \A l \in DOMAIN Limits :
         Limits[l].max \in Nat /\ Limits[l].window \in Nat /\ Limits[l].lock \in Nat
    /\ MaxTime \in Nat

VARIABLES
    now,        \* Date.now()
    buckets,    \* the bucket of the key in each map, or NoBucket
    unpruned    \* history: what it would be without the cleanup

limitVars == <<now, buckets, unpruned>>

-----------------------------------------------------------------------------
Maps == DOMAIN Limits
NoBucket == [count |-> 0, windowStart |-> -1, lockedUntil |-> -1]
Bucket(b) == IF b = NoBucket THEN [count |-> 0, windowStart |-> now, lockedUntil |-> 0] ELSE b

LimitsInit ==
    /\ LoadInit
    /\ now = 1
    /\ buckets = [l \in Maps |-> NoBucket]
    /\ unpruned = buckets

-----------------------------------------------------------------------------
(* consumeRateLimitAttempt: the bucket when the window is over, the answer *)
(* and what it leaves behind.                                              *)
Windowed(b, limit) ==
    IF now - b.windowStart >= limit.window
    THEN [b EXCEPT !.count = 0, !.windowStart = now] ELSE b
Locked(b) == b.lockedUntil > now
Allowed(b, limit) == ~Locked(b) /\ Windowed(b, limit).count < limit.max
Consumed(b, limit) ==
    IF Locked(b) THEN b
    ELSE IF Allowed(b, limit) THEN [Windowed(b, limit) EXCEPT !.count = @ + 1]
    ELSE IF limit.lock > 0 THEN [Windowed(b, limit) EXCEPT !.lockedUntil = now + limit.lock]
    ELSE Windowed(b, limit)

ConsumeRateLimitAttempt(l) ==
    /\ Serves("limit")
    /\ buckets' = [buckets EXCEPT ![l] = Consumed(Bucket(@), Limits[l])]
    /\ unpruned' = [unpruned EXCEPT ![l] = Consumed(Bucket(@), Limits[l])]
    /\ UNCHANGED <<load, now>>

(* pruneRateLimitBuckets, every ten minutes, of each map with its window.  *)
Expired(b, limit) == now - b.windowStart > limit.window
Unlocked(b) == b.lockedUntil < now
PrunableUnlocked(b, limit) == Expired(b, limit)         \* mutant: locks are forgotten
Prunable(b, limit) == Expired(b, limit) /\ Unlocked(b)

PruneRateLimitBuckets ==
    /\ Serves("limit")
    /\ buckets' = [l \in Maps |-> IF Prunable(buckets[l], Limits[l])
                                  THEN NoBucket ELSE buckets[l]]
    /\ UNCHANGED <<load, now, unpruned>>

Pass ==
    /\ Serves("limit") /\ now < MaxTime
    /\ now' = now + 1
    /\ UNCHANGED <<load, buckets, unpruned>>

(* The maps are lost with the process. *)
RestartLimits ==
    /\ Serves("limit")
    /\ buckets' = [l \in Maps |-> NoBucket] /\ unpruned' = buckets'
    /\ UNCHANGED <<load, now>>

LimitsNext ==
    \/ \E l \in Maps : ConsumeRateLimitAttempt(l)
    \/ PruneRateLimitBuckets
    \/ Pass
    \/ RestartLimits
LimitsSpec == LimitsInit /\ [][LimitsNext]_<<load, limitVars>>

-----------------------------------------------------------------------------
(* The cleanup changes no answer, at no boundary of the window or of the   *)
(* lock: whatever it has removed, an attempt is allowed, or refused, as if *)
(* the bucket were still there.                                            *)
PruningIsInvisible ==
    \A l \in Maps :
        Allowed(Bucket(buckets[l]), Limits[l]) = Allowed(Bucket(unpruned[l]), Limits[l])
=============================================================================
