---------------------------- MODULE RedisLimiter ----------------------------
(***************************************************************************)
(* The Redis fixed-window rate limiter (internal/ratelimit/redis.go): the  *)
(* proxies that share a Redis send the counting script, the server runs it *)
(* atomically, and the client sends it again when no answer arrives.  A    *)
(* request may run after its sender gave up on it, or never; the clocks of *)
(* the proxies and of the server differ; the server may lose its data.     *)
(***************************************************************************)
EXTENDS Integers

CONSTANTS
  Calls,        \* calls of Allow, in any of the proxies
  Keys,         \* rate-limit keys: hashed token and layer
  Limit,        \* the budget callers pass for a key
  Window,       \* RATE_LIMIT_WINDOW in clock units (the script's milliseconds)
  Skew,         \* how far a proxy's clock may be from the server's
  MaxRetries,   \* MaxRetries of the client
  MaxTime,      \* bound on the server's clock
  MaxResets     \* bound on losses of the server's data

ASSUME RedisAssumption ==
  /\ Limit \in Nat \ {0} /\ Window \in Nat \ {0}
  /\ Skew \in Nat /\ MaxRetries \in Nat /\ MaxResets \in Nat
  /\ MaxTime \in Nat /\ Skew <= MaxTime

VARIABLES
  clock,       \* the server's clock
  counters,    \* the server's count per full key, 0 for a key that is not set
  resets,      \* history: how often the server lost its data
  granted,     \* history: script runs that allowed, per full key
  skew,        \* a caller's clock less the server's, fixed
  key,         \* the key a call asks for, fixed
  readAt,      \* the call's reading of its clock: now
  tries,       \* how often the script was sent for a call
  pending,     \* <<call, try>> that may still reach the server
  reply,       \* the script's result per <<call, try>>
  verdict,     \* what the call returned
  retryAfter   \* and the wait it told the caller

vars == <<clock, counters, resets, granted, skew, key, readAt, tries, pending,
          reply, verdict, retryAfter>>

Tries == Calls \X (1..(MaxRetries + 1))

NoReply == [allowed |-> FALSE, ttl |-> -2]

-----------------------------------------------------------------------------
\* now.Truncate(r.window)
WindowStart(t) == (t \div Window) * Window

\* One counter per key and window: fullKey.
BucketIds == Keys \X {WindowStart(t) : t \in 0..(MaxTime + Skew)}
BucketOf(c) == <<key[c], WindowStart(readAt[c])>>
ResetAt(b) == b[2] + Window

\* Mutant of AfterCount: the counter expires a unit before its window ends.
ExpiresEarly(b, count) == IF clock + 1 >= ResetAt(b) THEN 0 ELSE count

\* PEXPIREAT by the call that created the counter; an expiry that is not in
\* the server's future removes it on the spot.
AfterCount(b, count) == IF count = 1 /\ clock >= ResetAt(b) THEN 0 ELSE count

\* Mutant of OverLimit: the call that spends the last of the budget is denied.
AtLimit(count) == count >= Limit
OverLimit(count) == count > Limit

\* Mutant of WaitFor: the server's answer as it is.
RawWait(ttl) == ttl

\* Allow takes a PTTL of zero or less for a whole window.
WaitFor(ttl) == IF ttl <= 0 THEN Window ELSE ttl

-----------------------------------------------------------------------------
(* The caller                                                              *)

\* Read the clock, compute the full key and its expiry, send the script.
Send(c) ==
  /\ tries[c] = 0
  /\ readAt' = [readAt EXCEPT ![c] = clock + skew[c]]
  /\ tries' = [tries EXCEPT ![c] = 1]
  /\ pending' = pending \cup {<<c, 1>>}
  /\ UNCHANGED <<clock, counters, resets, granted, skew, key, reply, verdict,
                 retryAfter>>

Waiting(c) == tries[c] > 0 /\ verdict[c] = "pending"

\* No answer in time or a broken connection: the client sends the same
\* arguments again; the request before may yet run.
Resend(c) ==
  /\ Waiting(c)
  /\ tries[c] <= MaxRetries
  /\ tries' = [tries EXCEPT ![c] = @ + 1]
  /\ pending' = pending \cup {<<c, tries[c] + 1>>}
  /\ UNCHANGED <<clock, counters, resets, granted, skew, key, readAt, reply,
                 verdict, retryAfter>>

\* The result of the last try arrives.
Receive(c) ==
  LET result == reply[<<c, tries[c]>>] IN
  /\ Waiting(c)
  /\ result # NoReply
  /\ \/ /\ result.allowed
        /\ verdict' = [verdict EXCEPT ![c] = "allowed"]
        /\ UNCHANGED retryAfter
     \/ /\ ~result.allowed
        /\ verdict' = [verdict EXCEPT ![c] = "denied"]
        /\ retryAfter' = [retryAfter EXCEPT ![c] = WaitFor(result.ttl)]
  /\ UNCHANGED <<clock, counters, resets, granted, skew, key, readAt, tries,
                 pending, reply>>

\* The client returns an error, its retries spent or its context done: Allow
\* answers true with the error.
Fail(c) ==
  /\ Waiting(c)
  /\ verdict' = [verdict EXCEPT ![c] = "failedOpen"]
  /\ UNCHANGED <<clock, counters, resets, granted, skew, key, readAt, tries,
                 pending, reply, retryAfter>>

-----------------------------------------------------------------------------
(* The server                                                              *)

\* The script, atomically: count, set the expiry, compare, read the PTTL.
Execute(a) ==
  LET b     == BucketOf(a[1])
      count == counters[b] + 1
  IN
  /\ a \in pending
  /\ pending' = pending \ {a}
  /\ counters' = [counters EXCEPT ![b] = AfterCount(b, count)]
  /\ \/ /\ OverLimit(count)
        /\ reply' = [reply EXCEPT ![a] =
                       [allowed |-> FALSE, ttl |-> ResetAt(b) - clock]]
        /\ UNCHANGED granted
     \/ /\ ~OverLimit(count)
        /\ reply' = [reply EXCEPT ![a] = [allowed |-> TRUE, ttl |-> 0]]
        /\ granted' = [granted EXCEPT ![b] = @ + 1]
  /\ UNCHANGED <<clock, resets, skew, key, readAt, tries, verdict, retryAfter>>

\* Time passes; a counter whose expiry has passed is gone.
Tick ==
  /\ clock < MaxTime
  /\ clock' = clock + 1
  /\ counters' = [b \in BucketIds |->
                    IF clock' > ResetAt(b) THEN 0 ELSE counters[b]]
  /\ UNCHANGED <<resets, granted, skew, key, readAt, tries, pending, reply,
                 verdict, retryAfter>>

\* A restart without its data, or a failover to a replica that lacks it.
LoseData ==
  /\ resets < MaxResets
  /\ resets' = resets + 1
  /\ counters' = [b \in BucketIds |-> 0]
  /\ UNCHANGED <<clock, granted, skew, key, readAt, tries, pending, reply,
                 verdict, retryAfter>>

Terminated ==
  /\ clock = MaxTime
  /\ \A c \in Calls : verdict[c] # "pending"
  /\ UNCHANGED vars

Init ==
  /\ clock = Skew
  /\ counters = [b \in BucketIds |-> 0]
  /\ resets = 0
  /\ granted = [b \in BucketIds |-> 0]
  /\ skew \in [Calls -> -Skew..Skew]
  /\ key \in [Calls -> Keys]
  /\ readAt = [c \in Calls |-> 0]
  /\ tries = [c \in Calls |-> 0]
  /\ pending = {}
  /\ reply = [a \in Tries |-> NoReply]
  /\ verdict = [c \in Calls |-> "pending"]
  /\ retryAfter = [c \in Calls |-> 0]

Next ==
  \/ \E c \in Calls : Send(c) \/ Resend(c) \/ Receive(c) \/ Fail(c)
  \/ \E a \in Tries : Execute(a)
  \/ Tick
  \/ LoseData
  \/ Terminated

Spec == Init /\ [][Next]_vars

-----------------------------------------------------------------------------
(* Properties                                                              *)

\* Every variable has its type; the wait in an answer is at most a window and
\* the difference of the clocks.
TypeOK ==
  /\ clock \in Skew..MaxTime
  /\ counters \in [BucketIds -> Nat]
  /\ resets \in 0..MaxResets
  /\ granted \in [BucketIds -> Nat]
  /\ skew \in [Calls -> -Skew..Skew]
  /\ key \in [Calls -> Keys]
  /\ readAt \in [Calls -> 0..(MaxTime + Skew)]
  /\ tries \in [Calls -> 0..(MaxRetries + 1)]
  /\ pending \subseteq Tries
  /\ reply \in [Tries -> [allowed : BOOLEAN, ttl : -2..(Window + Skew)]]
  /\ verdict \in [Calls -> {"pending", "allowed", "denied", "failedOpen"}]
  /\ retryAfter \in [Calls -> Nat]

\* While the server takes a window for open, all proxies together are granted
\* one budget per key and life of the server, whatever their clocks, retries
\* and late requests (redis.go:19-24).
SharedBudget ==
  \A b \in BucketIds :
    clock < ResetAt(b) => granted[b] <= Limit * (1 + resets)

\* A call is denied only when the whole budget of its window was granted, be it
\* to tries whose answer was lost (redis.go:22).
DenialIsEarned ==
  \A c \in Calls : verdict[c] = "denied" => granted[BucketOf(c)] >= Limit

\* A denied caller is told a positive wait that reaches the end of the window,
\* and that, from the time the script was first sent, does not go beyond it by
\* the server's clock; only where the script ran when the window was over is it
\* told one window more (redis.go:22, 54-59).
RetryAfterSound ==
  \A c \in Calls : verdict[c] = "denied" =>
    /\ retryAfter[c] > 0
    /\ clock + retryAfter[c] >= ResetAt(BucketOf(c))
    /\ \/ (readAt[c] - skew[c]) + retryAfter[c] <= ResetAt(BucketOf(c))
       \/ retryAfter[c] = Window /\ clock >= ResetAt(BucketOf(c))

-----------------------------------------------------------------------------
(* The abstract limiter: every run of the script is a request.             *)

Answer(a) ==
  IF reply[a] = NoReply THEN "pending"
  ELSE IF reply[a].allowed THEN "allowed" ELSE "denied"

Budget == INSTANCE FixedWindowBudget WITH
  Requests <- Tries,
  Buckets  <- BucketIds,
  spent    <- [b \in BucketIds |->
                 IF counters[b] < Limit THEN counters[b] ELSE Limit],
  charged  <- [a \in Tries |->
                 IF reply[a] = NoReply THEN <<>> ELSE BucketOf(a[1])],
  answer   <- [a \in Tries |-> Answer(a)]

\* Whatever is lost, late or sent twice, the script keeps the promise of a
\* fixed-window limiter (ratelimit.go:9-13, redis.go:19-24).
ImplementsBudget == Budget!Spec

=============================================================================
