------------------------- MODULE FixedWindowBudget -------------------------
(***************************************************************************)
(* What a rate limiter of this proxy promises (internal/ratelimit): every  *)
(* request is charged to a bucket, a key in one fixed window; it is        *)
(* allowed exactly if the budget of the bucket is not spent; what a bucket *)
(* has spent is forgotten only when its window has ended, or when the      *)
(* store that counts loses its data.  MemoryLimiter and RedisLimiter       *)
(* implement it.                                                           *)
(***************************************************************************)
EXTENDS Integers

CONSTANTS
  Requests,  \* executions of a charge
  Buckets,   \* pairs of a key and the start of a window
  Limit,
  Window,
  Skew       \* how far a requester's clock may be from the counting clock

VARIABLES
  clock,     \* the clock of the store that counts
  spent,     \* the part of each bucket's budget that is spent
  granted,   \* requests allowed per bucket, ever
  charged,   \* the bucket a request was charged to, once it was
  answer,
  resets     \* how often the store has lost its data

vars == <<clock, spent, granted, charged, answer, resets>>

NoBucket == <<>>

Ended(b, now) == now >= b[2] + Window

\* What is left of bucket b's spending at a time: once the window has ended
\* it may have been forgotten.
Remembered(b, now) == {spent[b]} \cup {n \in {0} : Ended(b, now)}

Init ==
  /\ clock \in Nat
  /\ spent = [b \in Buckets |-> 0]
  /\ granted = [b \in Buckets |-> 0]
  /\ charged = [r \in Requests |-> NoBucket]
  /\ answer = [r \in Requests |-> "pending"]
  /\ resets = 0

\* A window is charged only once it has begun, but maybe long after its end.
Charge(r, b) ==
  /\ answer[r] = "pending"
  /\ b[2] <= clock + Skew
  /\ charged' = [charged EXCEPT ![r] = b]
  /\ \A d \in Buckets \ {b} : spent'[d] \in Remembered(d, clock)
  /\ UNCHANGED <<clock, resets>>

Grant(r, b) ==
  /\ Charge(r, b)
  /\ \E n \in Remembered(b, clock) :
       /\ n < Limit
       /\ spent'[b] \in {n + 1} \cup {z \in {0} : Ended(b, clock)}
  /\ spent' = [d \in Buckets |-> spent'[d]]
  /\ granted' = [granted EXCEPT ![b] = @ + 1]
  /\ answer' = [answer EXCEPT ![r] = "allowed"]

Deny(r, b) ==
  /\ Charge(r, b)
  /\ spent[b] = Limit
  /\ spent'[b] = Limit
  /\ spent' = [d \in Buckets |-> spent'[d]]
  /\ answer' = [answer EXCEPT ![r] = "denied"]
  /\ UNCHANGED granted

Tick ==
  /\ clock' = clock + 1
  /\ \A d \in Buckets : spent'[d] \in Remembered(d, clock')
  /\ spent' = [d \in Buckets |-> spent'[d]]
  /\ UNCHANGED <<granted, charged, answer, resets>>

\* The store restarts empty, or fails over to an empty one.
Reset ==
  /\ spent' = [b \in Buckets |-> 0]
  /\ resets' = resets + 1
  /\ UNCHANGED <<clock, granted, charged, answer>>

Next ==
  \/ \E r \in Requests, b \in Buckets : Grant(r, b) \/ Deny(r, b)
  \/ Tick
  \/ Reset

Spec == Init /\ [][Next]_vars

-----------------------------------------------------------------------------
\* While a window is open, each life of the store grants at most one budget
\* for a key in it.
WithinBudget ==
  \A b \in Buckets :
    ~Ended(b, clock) => granted[b] <= Limit * (1 + resets)

\* A request is denied only when the whole budget of its bucket was granted.
DenialIsEarned ==
  \A r \in Requests : answer[r] = "denied" => granted[charged[r]] >= Limit

=============================================================================
