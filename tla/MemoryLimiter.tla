--------------------------- MODULE MemoryLimiter ---------------------------
(***************************************************************************)
(* The in-memory fixed-window rate limiter (internal/ratelimit/memory.go). *)
(* Allow reads the clock, computes the window and the bucket's key, and    *)
(* only then takes the lock: a call can be decided long after the window   *)
(* it counts itself in has ended.                                          *)
(***************************************************************************)
EXTENDS Integers, FiniteSets

CONSTANTS
  Calls,       \* calls of Allow
  Keys,        \* rate-limit keys: hashed token and layer
  Limit,       \* the budget callers pass for a key
  Window,      \* RATE_LIMIT_WINDOW in clock units
  MaxBuckets,  \* maxBuckets
  MaxTime      \* bound on the clock

\* Allow's callers skip it for limits of zero or less (proxy.go:230,
\* stream.go:56, middleware.go:156).
ASSUME LimiterAssumption ==
  /\ Limit \in Nat \ {0} /\ Window \in Nat \ {0}
  /\ MaxBuckets \in Nat /\ MaxTime \in Nat

VARIABLES
  clock,
  buckets,     \* count per bucket, 0 for a bucket that is not in the map
  pc,          \* where a call stands
  key,         \* the key the call asks for, fixed
  readAt,      \* the call's reading of the clock: now
  verdict,     \* what the call returned
  retryAfter,  \* and the wait it told the caller
  admitted     \* history: calls allowed per bucket

vars == <<clock, buckets, pc, key, readAt, verdict, retryAfter, admitted>>

-----------------------------------------------------------------------------
\* now.Truncate(m.window)
WindowStart(t) == (t \div Window) * Window

\* One bucket per key and window: fullKey.
BucketIds == Keys \X {WindowStart(t) : t \in 0..MaxTime}
BucketOf(c) == <<key[c], WindowStart(readAt[c])>>
ResetAt(b) == b[2] + Window

InMap(b) == buckets[b] > 0

\* Mutant of Expired: the window that is still open counts as passed.
ExpiredInWindow(b, now) == now >= b[2]

\* evictExpired: now.After(b.resetAt)
Expired(b, now) == now > ResetAt(b)

\* What a lookup of b finds: a full map is pruned before b is inserted.
AfterEviction(b, now) ==
  IF ~InMap(b) /\ Cardinality({d \in BucketIds : InMap(d)}) >= MaxBuckets
    THEN [d \in BucketIds |-> IF Expired(d, now) THEN 0 ELSE buckets[d]]
    ELSE buckets

\* Mutant of WithinLimit: one call short of the budget.
BelowLimit(count) == count < Limit
WithinLimit(count) == count <= Limit

\* time.Until(b.resetAt)
Wait(b) == ResetAt(b) - clock

\* Mutant of WaitIfAllowed: an allowed call is told to wait as well.
WaitAnyway(b) == Wait(b)
WaitIfAllowed(b) == 0

-----------------------------------------------------------------------------
(* Allow                                                                   *)

\* Lines 33-36, before the lock.
ReadClock(c) ==
  /\ pc[c] = "idle"
  /\ readAt' = [readAt EXCEPT ![c] = clock]
  /\ pc' = [pc EXCEPT ![c] = "locking"]
  /\ UNCHANGED <<clock, buckets, key, verdict, retryAfter, admitted>>

\* Lines 38-54, one critical section: prune, count, decide.
Decide(c) ==
  LET b     == BucketOf(c)
      found == AfterEviction(b, readAt[c])
      count == found[b] + 1
  IN
  /\ pc[c] = "locking"
  /\ buckets' = [found EXCEPT ![b] = count]
  /\ \/ /\ WithinLimit(count)
        /\ verdict' = [verdict EXCEPT ![c] = "allowed"]
        /\ admitted' = [admitted EXCEPT ![b] = @ + 1]
        /\ retryAfter' = [retryAfter EXCEPT ![c] = WaitIfAllowed(b)]
     \/ /\ ~WithinLimit(count)
        /\ verdict' = [verdict EXCEPT ![c] = "denied"]
        /\ retryAfter' = [retryAfter EXCEPT ![c] = Wait(b)]
        /\ UNCHANGED admitted
  /\ pc' = [pc EXCEPT ![c] = "done"]
  /\ UNCHANGED <<clock, key, readAt>>

Tick ==
  /\ clock < MaxTime
  /\ clock' = clock + 1
  /\ UNCHANGED <<buckets, pc, key, readAt, verdict, retryAfter, admitted>>

Terminated ==
  /\ clock = MaxTime
  /\ \A c \in Calls : pc[c] = "done"
  /\ UNCHANGED vars

Init ==
  /\ clock = 0
  /\ buckets = [b \in BucketIds |-> 0]
  /\ pc = [c \in Calls |-> "idle"]
  /\ key \in [Calls -> Keys]
  /\ readAt = [c \in Calls |-> 0]
  /\ verdict = [c \in Calls |-> "pending"]
  /\ retryAfter = [c \in Calls |-> 0]
  /\ admitted = [b \in BucketIds |-> 0]

Next ==
  \/ \E c \in Calls : ReadClock(c) \/ Decide(c)
  \/ Tick
  \/ Terminated

Spec == Init /\ [][Next]_vars

-----------------------------------------------------------------------------
(* Properties                                                              *)

\* Every variable has its type, and a call that was not denied carries no
\* wait: (true, 0, nil) in the contract of Limiter (ratelimit.go:10-12).
TypeOK ==
  /\ clock \in 0..MaxTime
  /\ buckets \in [BucketIds -> Nat]
  /\ pc \in [Calls -> {"idle", "locking", "done"}]
  /\ key \in [Calls -> Keys]
  /\ readAt \in [Calls -> 0..MaxTime]
  /\ verdict \in [Calls -> {"pending", "allowed", "denied"}]
  /\ retryAfter \in [Calls -> Int]
  /\ \A c \in Calls : verdict[c] # "denied" => retryAfter[c] = 0
  /\ admitted \in [BucketIds -> Nat]

\* Until a window has ended no interleaving of calls, and no pruning by a call
\* with an old reading of the clock, admits more than the budget for a key
\* (memory.go:41-54, 58-64).
OpenWindowBudget ==
  \A b \in BucketIds : clock <= ResetAt(b) => admitted[b] <= Limit

\* A call is denied only if the budget of its key was spent in the window it
\* counts itself in (memory.go:49-53).
NoSpuriousDenial ==
  \A c \in Calls : verdict[c] = "denied" => admitted[BucketOf(c)] >= Limit

-----------------------------------------------------------------------------
(* The abstract limiter: every call is a request.                          *)

Budget == INSTANCE FixedWindowBudget WITH
  Requests <- Calls,
  Buckets  <- BucketIds,
  Skew     <- 0,
  spent    <- [b \in BucketIds |->
                 IF buckets[b] < Limit THEN buckets[b] ELSE Limit],
  granted  <- admitted,
  charged  <- [c \in Calls |-> IF pc[c] = "done" THEN BucketOf(c) ELSE <<>>],
  answer   <- verdict,
  resets   <- 0

\* Pruning and late calls included, Allow keeps the promise of a fixed-window
\* limiter: no count is forgotten while its window is open, and a window that
\* is counted afresh after its end is never granted again before
\* (ratelimit.go:9-13, memory.go:41-54, 58-64).
ImplementsBudget == Budget!Spec

-----------------------------------------------------------------------------
\* What ratelimit_test.go:63-65 expects of every denial, "retryAfter = %v,
\* want > 0", which a call decided at or after its window's end does not meet.
DeniedMustWait ==
  \A c \in Calls : verdict[c] = "denied" => retryAfter[c] > 0

=============================================================================
