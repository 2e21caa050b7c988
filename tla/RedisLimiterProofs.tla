------------------------- MODULE RedisLimiterProofs -------------------------
(* Proofs about RedisLimiter, for every budget, window, clock difference,  *)
(* number of retries and number of losses.                                 *)
EXTENDS RedisLimiter, TLAPS

\* The spending of a bucket, as the abstract limiter sees it.
Spent(n) == IF n < Limit THEN n ELSE Limit

\* A counter lives at most to the end of its window, and what was granted is
\* what it counts, and at most a budget more per loss of the data.
CounterInv ==
  \A b \in BucketIds :
    /\ counters[b] > 0 => clock <= ResetAt(b)
    /\ Spent(counters[b]) <= granted[b]
    /\ clock < ResetAt(b) => granted[b] <= Limit * resets + Spent(counters[b])

\* A try that can still run, or was never sent, has no reply; a call's window
\* is fixed with its first try and begins no later than the clocks differ.
TryInv ==
  /\ \A a \in pending : reply[a] = NoReply /\ tries[a[1]] > 0
  /\ \A a \in Tries : a[2] > tries[a[1]] => reply[a] = NoReply /\ a \notin pending
  /\ \A c \in Calls : readAt[c] <= clock + Skew
  /\ \A c \in Calls : tries[c] > 0 => readAt[c] - skew[c] <= clock

\* A denial, on its way or delivered, was earned and its wait ends with the
\* window, unless the window had ended already.
DenialInv ==
  /\ \A a \in Tries : reply[a] # NoReply /\ ~reply[a].allowed =>
       /\ granted[BucketOf(a[1])] >= Limit
       /\ reply[a].ttl >= 0
       /\ clock + reply[a].ttl >= ResetAt(BucketOf(a[1]))
       /\ (readAt[a[1]] - skew[a[1]]) + reply[a].ttl <= ResetAt(BucketOf(a[1]))
  /\ \A c \in Calls : verdict[c] # "pending" => tries[c] > 0

RedisInv ==
  TypeOK /\ CounterInv /\ TryInv /\ DenialInv /\ DenialIsEarned /\ RetryAfterSound

\* Windows start and end at natural times, and start no later than the time
\* they are computed from.
LEMMA WindowsAreNatural ==
  /\ \A t \in 0..(MaxTime + Skew) : WindowStart(t) \in Nat /\ WindowStart(t) <= t
  /\ \A b \in BucketIds : b[2] \in Nat /\ ResetAt(b) \in Nat
<1>1. \A t \in 0..(MaxTime + Skew) : WindowStart(t) \in Nat /\ WindowStart(t) <= t
  BY RedisAssumption DEF WindowStart
<1> QED
  BY <1>1, RedisAssumption DEF BucketIds, ResetAt

\* A call counts itself in a bucket that exists in the model and that begins
\* no later than its reading of the clock.
LEMMA BucketOfCall ==
  ASSUME TypeOK, NEW c \in Calls
  PROVE  /\ BucketOf(c) \in BucketIds
         /\ BucketOf(c)[2] <= readAt[c]
<1>1. readAt[c] \in 0..(MaxTime + Skew) /\ key[c] \in Keys
  BY DEF TypeOK
<1> QED
  BY <1>1, WindowsAreNatural DEF BucketOf, BucketIds

\* What the variables are, without the names of the constants.
LEMMA Numbers ==
  ASSUME TypeOK
  PROVE  /\ clock \in Nat /\ resets \in Nat /\ Skew \in Nat
         /\ Limit \in Nat \ {0} /\ Window \in Nat \ {0}
         /\ counters \in [BucketIds -> Nat] /\ granted \in [BucketIds -> Nat]
         /\ \A b \in BucketIds : ResetAt(b) \in Nat
BY RedisAssumption, WindowsAreNatural DEF TypeOK

\* A run of the script keeps counters, replies and grants in step.
LEMMA ExecutePreserves ==
  ASSUME RedisInv, NEW a \in Tries, Execute(a)
  PROVE  RedisInv'
<1> DEFINE b     == BucketOf(a[1])
           count == counters[b] + 1
           left  == ResetAt(b) - clock
<1>1. /\ TypeOK /\ CounterInv /\ TryInv /\ DenialInv /\ DenialIsEarned /\ RetryAfterSound
      /\ a[1] \in Calls /\ b \in BucketIds /\ b[2] <= readAt[a[1]] /\ b[2] \in Nat
  BY BucketOfCall, WindowsAreNatural DEF RedisInv, Tries
<1>2. /\ a \in pending /\ pending' = pending \ {a}
      /\ counters' = [counters EXCEPT ![b] =
                        IF count = 1 /\ clock >= ResetAt(b) THEN 0 ELSE count]
      /\ UNCHANGED <<clock, resets, skew, key, readAt, tries, verdict, retryAfter>>
  BY DEF Execute, AfterCount
<1>3. \/ /\ count > Limit
         /\ reply' = [reply EXCEPT ![a] = [allowed |-> FALSE, ttl |-> left]]
         /\ granted' = granted
      \/ /\ count <= Limit
         /\ reply' = [reply EXCEPT ![a] = [allowed |-> TRUE, ttl |-> 0]]
         /\ granted' = [granted EXCEPT ![b] = @ + 1]
  <2>1. count \in Nat /\ Limit \in Nat
    BY <1>1, Numbers
  <2> QED
    BY <2>1 DEF Execute, OverLimit
<1>4. /\ clock \in Nat /\ resets \in Nat /\ Skew \in Nat
      /\ Limit \in Nat \ {0} /\ Window \in Nat \ {0}
      /\ counters \in [BucketIds -> Nat] /\ granted \in [BucketIds -> Nat]
      /\ \A d \in BucketIds : ResetAt(d) \in Nat
  BY <1>1, Numbers
<1>5. \A c \in Calls : BucketOf(c)' = BucketOf(c) /\ BucketOf(c) \in BucketIds
  BY <1>1, <1>2, BucketOfCall DEF BucketOf
<1>6. /\ readAt[a[1]] \in Nat /\ readAt[a[1]] <= clock + Skew
      /\ left <= Window + Skew
  BY <1>1, <1>4, RedisAssumption DEF TypeOK, TryInv, ResetAt
<1>7. count > Limit => left >= 0
  BY <1>1, <1>4 DEF CounterInv
<1>8. /\ tries[a[1]] \in Nat /\ tries[a[1]] > 0
      /\ skew[a[1]] \in Int /\ readAt[a[1]] - skew[a[1]] <= clock
  BY <1>1, <1>2, RedisAssumption DEF TryInv, TypeOK
<1>9. Limit * resets \in Nat
  BY <1>4
<1> HIDE DEF b, left
<1>a. TypeOK'
  <2>1. reply' \in [Tries -> [allowed : BOOLEAN, ttl : -2..(Window + Skew)]]
    <3> DEFINE R == [allowed : BOOLEAN, ttl : -2..(Window + Skew)]
    <3>1. [allowed |-> TRUE, ttl |-> 0] \in R
      BY <1>4
    <3>2. count > Limit => [allowed |-> FALSE, ttl |-> left] \in R
      BY <1>1, <1>4, <1>6, <1>7 DEF left
    <3>3. PICK r \in R : reply' = [reply EXCEPT ![a] = r]
      BY <3>1, <3>2, <1>3
    <3>4. reply \in [Tries -> R]
      BY <1>1 DEF TypeOK
    <3> QED
      BY <3>3, <3>4
  <2>2. counters' \in [BucketIds -> Nat] /\ granted' \in [BucketIds -> Nat]
    BY <1>1, <1>2, <1>3, <1>4
  <2> QED
    BY <2>1, <2>2, <1>1, <1>2 DEF TypeOK
<1>b. CounterInv'
  <2> SUFFICES ASSUME NEW d \in BucketIds
               PROVE  /\ counters'[d] > 0 => clock <= ResetAt(d)
                      /\ Spent(counters'[d]) <= granted'[d]
                      /\ clock < ResetAt(d) =>
                           granted'[d] <= Limit * resets + Spent(counters'[d])
    BY <1>2 DEF CounterInv, ResetAt, Spent
  <2>0. /\ counters[d] > 0 => clock <= ResetAt(d)
        /\ Spent(counters[d]) <= granted[d]
        /\ clock < ResetAt(d) => granted[d] <= Limit * resets + Spent(counters[d])
    BY <1>1 DEF CounterInv
  <2>1. CASE d # b
    <3>1. counters'[d] = counters[d] /\ granted'[d] = granted[d]
      BY <2>1, <1>2, <1>3, <1>4
    <3> QED
      BY <2>0, <3>1
  <2>2. CASE d = b /\ count > Limit
    <3>1. counters'[d] = count /\ granted'[d] = granted[d]
      BY <2>2, <1>2, <1>3, <1>4
    <3> QED
      BY <2>0, <2>2, <3>1, <1>4, <1>9 DEF Spent
  <2>3. CASE d = b /\ count <= Limit
    <3>1. counters'[d] = IF count = 1 /\ clock >= ResetAt(b) THEN 0 ELSE count
      BY <2>3, <1>2, <1>4
    <3>2. granted'[d] = granted[d] + 1
      BY <2>3, <1>3, <1>4
    <3> QED
      BY <2>0, <2>3, <3>1, <3>2, <1>4, <1>9 DEF Spent
  <2> QED
    BY <2>1, <2>2, <2>3, <1>4
<1>c. TryInv'
  BY <1>1, <1>2, <1>3, <1>8 DEF TryInv, TypeOK, Tries
<1>d. DenialInv'
  <2>1. \A d \in BucketIds : granted'[d] >= granted[d]
    BY <1>3, <1>4
  <2>2. ASSUME NEW e \in Tries, reply'[e] # NoReply, ~reply'[e].allowed
        PROVE  /\ granted'[BucketOf(e[1])] >= Limit
               /\ reply'[e].ttl >= 0
               /\ clock + reply'[e].ttl >= ResetAt(BucketOf(e[1]))
               /\ (readAt[e[1]] - skew[e[1]]) + reply'[e].ttl <= ResetAt(BucketOf(e[1]))
    <3>0. e[1] \in Calls /\ BucketOf(e[1]) \in BucketIds
      BY <1>5 DEF Tries
    <3>1. CASE e # a
      <4>1. reply'[e] = reply[e]
        BY <3>1, <1>1, <1>3 DEF TypeOK
      <4> QED
        BY <2>1, <2>2, <3>0, <4>1, <1>1, <1>2, <1>3, <1>4 DEF DenialInv
    <3>2. CASE e = a
      <4>1. count > Limit /\ reply'[e] = [allowed |-> FALSE, ttl |-> left] /\ granted' = granted
        <5>1. DOMAIN reply = Tries /\ reply = [t \in Tries |-> reply[t]]
          BY <1>1 DEF TypeOK
        <5>2. ~reply'[a].allowed
          BY <3>2, <2>2
        <5>3. CASE reply' = [reply EXCEPT ![a] = [allowed |-> TRUE, ttl |-> 0]]
          <6>1. reply'[a] = [allowed |-> TRUE, ttl |-> 0]
            BY <5>1, <5>3
          <6> QED
            BY <6>1, <5>2
        <5>4. CASE ~(reply' = [reply EXCEPT ![a] = [allowed |-> TRUE, ttl |-> 0]])
          BY <5>1, <5>4, <3>2, <1>3
        <5> QED
          BY <5>3, <5>4
      <4>2. granted[b] >= Limit
        BY <4>1, <1>1, <1>4 DEF CounterInv, Spent
      <4> QED
        BY <3>2, <4>1, <4>2, <1>1, <1>4, <1>6, <1>7, <1>8 DEF b, left
    <3> QED
      BY <3>1, <3>2
  <2> QED
    BY <2>2, <1>1, <1>2, <1>5 DEF DenialInv, ResetAt, Tries
<1>e. DenialIsEarned' /\ RetryAfterSound'
  <2>1. \A d \in BucketIds : granted'[d] >= granted[d]
    BY <1>3, <1>4
  <2>2. \A c \in Calls : granted'[BucketOf(c)] >= granted[BucketOf(c)]
                         /\ granted[BucketOf(c)] \in Nat /\ granted'[BucketOf(c)] \in Nat
    BY <2>1, <1>5, <1>4, <1>a DEF TypeOK
  <2>3. DenialIsEarned'
    BY <2>2, <1>1, <1>2, <1>4, <1>5 DEF DenialIsEarned
  <2>4. RetryAfterSound'
    BY <1>1, <1>2, <1>5 DEF RetryAfterSound, ResetAt
  <2> QED
    BY <2>3, <2>4
<1> QED
  BY <1>a, <1>b, <1>c, <1>d, <1>e DEF RedisInv

\* Sending the script for the first time fixes the call's window.
LEMMA SendPreserves ==
  ASSUME RedisInv, NEW c \in Calls, Send(c)
  PROVE  RedisInv'
<1>1. /\ TypeOK /\ CounterInv /\ TryInv /\ DenialInv /\ DenialIsEarned /\ RetryAfterSound
      /\ tries[c] = 0
      /\ readAt' = [readAt EXCEPT ![c] = clock + skew[c]]
      /\ tries' = [tries EXCEPT ![c] = 1]
      /\ pending' = pending \cup {<<c, 1>>}
      /\ UNCHANGED <<clock, counters, resets, granted, skew, key, reply, verdict, retryAfter>>
  BY DEF RedisInv, Send
<1>2. <<c, 1>> \in Tries /\ \A a \in Tries : a[1] \in Calls /\ a[2] \in Nat \ {0} /\ a = <<a[1], a[2]>>
  BY RedisAssumption DEF Tries
<1>3. /\ clock + skew[c] \in 0..(MaxTime + Skew)
      /\ clock + skew[c] <= clock + Skew
  BY <1>1, RedisAssumption DEF TypeOK
<1>4. reply[<<c, 1>>] = NoReply /\ \A a \in Tries : a[1] = c => reply[a] = NoReply
  BY <1>1, <1>2 DEF TryInv
<1>5. verdict[c] = "pending"
  BY <1>1 DEF DenialInv
<1>6. \A d \in Calls : d # c => BucketOf(d)' = BucketOf(d)
  BY <1>1 DEF BucketOf, TypeOK
<1>a. TypeOK'
  <2>1. readAt' \in [Calls -> 0..(MaxTime + Skew)]
    BY <1>1, <1>3 DEF TypeOK
  <2>2. tries' \in [Calls -> 0..(MaxRetries + 1)]
    BY <1>1, RedisAssumption DEF TypeOK
  <2> QED
    BY <2>1, <2>2, <1>1, <1>2 DEF TypeOK
<1>b. CounterInv'
  BY <1>1 DEF CounterInv, ResetAt, Spent
<1>c. TryInv'
  <2>1. \A a \in pending' : reply[a] = NoReply /\ tries'[a[1]] > 0
    <3> SUFFICES ASSUME NEW a \in pending' PROVE reply[a] = NoReply /\ tries'[a[1]] > 0
      OBVIOUS
    <3>1. CASE a = <<c, 1>>
      BY <3>1, <1>1, <1>4 DEF TypeOK
    <3>2. CASE a \in pending
      BY <3>2, <1>1, <1>2 DEF TryInv, TypeOK
    <3> QED
      BY <3>1, <3>2, <1>1
  <2>2. \A a \in Tries : a[2] > tries'[a[1]] => reply[a] = NoReply /\ a \notin pending'
    <3> SUFFICES ASSUME NEW a \in Tries, a[2] > tries'[a[1]]
                 PROVE  reply[a] = NoReply /\ a \notin pending'
      OBVIOUS
    <3>1. a # <<c, 1>>
      BY <1>1 DEF TypeOK
    <3>2. a[2] > tries[a[1]]
      BY <1>1, <1>2 DEF TypeOK
    <3> QED
      BY <3>1, <3>2, <1>1 DEF TryInv
  <2>3. \A d \in Calls : readAt'[d] <= clock + Skew
    BY <1>1, <1>3 DEF TryInv, TypeOK
  <2>4. ASSUME NEW d \in Calls, tries'[d] > 0 PROVE readAt'[d] - skew[d] <= clock
    <3>1. clock \in Int /\ skew[d] \in Int /\ skew[c] \in Int
      BY <1>1, RedisAssumption DEF TypeOK
    <3> QED
      BY <2>4, <3>1, <1>1 DEF TryInv, TypeOK
  <2> QED
    BY <2>1, <2>2, <2>3, <2>4, <1>1 DEF TryInv
<1>d. DenialInv'
  BY <1>1, <1>2, <1>4, <1>5, <1>6 DEF DenialInv, ResetAt, TypeOK
<1>e. DenialIsEarned' /\ RetryAfterSound'
  BY <1>1, <1>5, <1>6 DEF DenialIsEarned, RetryAfterSound, ResetAt
<1> QED
  BY <1>a, <1>b, <1>c, <1>d, <1>e DEF RedisInv

\* Sending it again adds a try of the same window.
LEMMA ResendPreserves ==
  ASSUME RedisInv, NEW c \in Calls, Resend(c)
  PROVE  RedisInv'
<1> DEFINE n == tries[c] + 1
<1>1. /\ TypeOK /\ CounterInv /\ TryInv /\ DenialInv /\ DenialIsEarned /\ RetryAfterSound
      /\ tries[c] > 0 /\ tries[c] <= MaxRetries
      /\ tries' = [tries EXCEPT ![c] = n]
      /\ pending' = pending \cup {<<c, n>>}
      /\ UNCHANGED <<clock, counters, resets, granted, skew, key, readAt, reply,
                     verdict, retryAfter>>
  BY DEF RedisInv, Resend, Waiting, TypeOK
<1>2. n \in 1..(MaxRetries + 1) /\ n = tries[c] + 1 /\ tries[c] \in Nat
  BY <1>1, RedisAssumption DEF TypeOK
<1>3. <<c, n>> \in Tries /\ \A a \in Tries : a[1] \in Calls /\ a[2] \in Nat \ {0} /\ a = <<a[1], a[2]>>
  BY <1>2, RedisAssumption DEF Tries
<1>4. reply[<<c, n>>] = NoReply
  BY <1>1, <1>2, <1>3 DEF TryInv
<1>5. \A d \in Calls : BucketOf(d)' = BucketOf(d)
  BY <1>1 DEF BucketOf
<1> HIDE DEF n
<1>a. TypeOK'
  BY <1>1, <1>2, <1>3 DEF TypeOK
<1>b. CounterInv'
  BY <1>1 DEF CounterInv, ResetAt, Spent
<1>c. TryInv'
  <2>1. \A a \in pending' : reply[a] = NoReply /\ tries'[a[1]] > 0
    <3> SUFFICES ASSUME NEW a \in pending' PROVE reply[a] = NoReply /\ tries'[a[1]] > 0
      OBVIOUS
    <3>1. CASE a = <<c, n>>
      BY <3>1, <1>1, <1>2, <1>4 DEF TypeOK
    <3>2. CASE a \in pending
      BY <3>2, <1>1, <1>2, <1>3 DEF TryInv, TypeOK
    <3> QED
      BY <3>1, <3>2, <1>1
  <2>2. \A a \in Tries : a[2] > tries'[a[1]] => reply[a] = NoReply /\ a \notin pending'
    <3> SUFFICES ASSUME NEW a \in Tries, a[2] > tries'[a[1]]
                 PROVE  reply[a] = NoReply /\ a \notin pending'
      OBVIOUS
    <3>1. a # <<c, n>>
      BY <1>1, <1>2 DEF TypeOK
    <3>2. a[2] > tries[a[1]]
      <4>1. tries[a[1]] \in Nat /\ tries'[a[1]] \in Nat /\ tries[a[1]] <= tries'[a[1]]
        BY <1>1, <1>2, <1>3, RedisAssumption DEF TypeOK
      <4> QED
        BY <4>1, <1>3
    <3> QED
      BY <3>1, <3>2, <1>1 DEF TryInv
  <2> QED
    BY <2>1, <2>2, <1>1 DEF TryInv
<1>d. DenialInv'
  BY <1>1, <1>2, <1>3, <1>5 DEF DenialInv, ResetAt, TypeOK
<1>e. DenialIsEarned' /\ RetryAfterSound'
  BY <1>1, <1>5 DEF DenialIsEarned, RetryAfterSound, ResetAt
<1> QED
  BY <1>a, <1>b, <1>c, <1>d, <1>e DEF RedisInv

\* The caller learns what the server decided, or gives up.
LEMMA AnswerPreserves ==
  ASSUME RedisInv, NEW c \in Calls, Receive(c) \/ Fail(c)
  PROVE  RedisInv'
<1> DEFINE a == <<c, tries[c]>>
<1>1. /\ TypeOK /\ CounterInv /\ TryInv /\ DenialInv /\ DenialIsEarned /\ RetryAfterSound
      /\ tries[c] > 0 /\ tries[c] \in 1..(MaxRetries + 1)
      /\ a \in Tries /\ a[1] = c
      /\ UNCHANGED <<clock, counters, resets, granted, skew, key, readAt, tries, pending, reply>>
  BY RedisAssumption DEF RedisInv, Receive, Fail, Waiting, TypeOK, Tries
<1>2. \/ /\ verdict' \in {[verdict EXCEPT ![c] = "allowed"], [verdict EXCEPT ![c] = "failedOpen"]}
         /\ retryAfter' = retryAfter
      \/ /\ reply[a] # NoReply /\ ~reply[a].allowed
         /\ verdict' = [verdict EXCEPT ![c] = "denied"]
         /\ retryAfter' = [retryAfter EXCEPT ![c] = WaitFor(reply[a].ttl)]
  BY DEF Receive, Fail
<1>3. \A d \in Calls : BucketOf(d)' = BucketOf(d) /\ ResetAt(BucketOf(d)) \in Nat
  BY <1>1, BucketOfCall, WindowsAreNatural DEF BucketOf
<1>4. /\ clock \in Nat /\ Window \in Nat \ {0} /\ Skew \in Nat
  BY <1>1, Numbers
<1>5. reply[a].ttl \in -2..(Window + Skew)
  BY <1>1 DEF TypeOK
<1>6. reply[a] # NoReply /\ ~reply[a].allowed =>
        /\ WaitFor(reply[a].ttl) \in Nat /\ WaitFor(reply[a].ttl) > 0
        /\ clock + WaitFor(reply[a].ttl) >= ResetAt(BucketOf(c))
        /\ \/ (readAt[c] - skew[c]) + WaitFor(reply[a].ttl) <= ResetAt(BucketOf(c))
           \/ WaitFor(reply[a].ttl) = Window /\ clock >= ResetAt(BucketOf(c))
        /\ granted[BucketOf(c)] >= Limit
  BY <1>1, <1>3, <1>4, <1>5 DEF DenialInv, WaitFor
<1> HIDE DEF a
<1>a. TypeOK'
  <2>1. verdict' \in [Calls -> {"pending", "allowed", "denied", "failedOpen"}]
    BY <1>1, <1>2 DEF TypeOK
  <2>2. retryAfter' \in [Calls -> Nat]
    BY <1>1, <1>2, <1>4, <1>6 DEF TypeOK
  <2> QED
    BY <2>1, <2>2, <1>1 DEF TypeOK
<1>b. CounterInv'
  BY <1>1 DEF CounterInv, ResetAt, Spent
<1>c. TryInv'
  BY <1>1 DEF TryInv
<1>d. DenialInv'
  BY <1>1, <1>2, <1>3 DEF DenialInv, ResetAt, Tries, TypeOK
<1>e. DenialIsEarned' /\ RetryAfterSound'
  BY <1>1, <1>2, <1>3, <1>6 DEF DenialIsEarned, RetryAfterSound, ResetAt, TypeOK
<1> QED
  BY <1>a, <1>b, <1>c, <1>d, <1>e DEF RedisInv

\* Time and the loss of the data take counters away, never grants.
LEMMA ServerPreserves ==
  ASSUME RedisInv, Tick \/ LoseData
  PROVE  RedisInv'
<1>1. /\ TypeOK /\ CounterInv /\ TryInv /\ DenialInv /\ DenialIsEarned /\ RetryAfterSound
      /\ UNCHANGED <<granted, skew, key, readAt, tries, pending, reply, verdict, retryAfter>>
  BY DEF RedisInv, Tick, LoseData
<1>2. /\ clock \in Nat /\ resets \in Nat /\ Skew \in Nat /\ Limit \in Nat \ {0}
      /\ counters \in [BucketIds -> Nat] /\ granted \in [BucketIds -> Nat]
      /\ \A b \in BucketIds : ResetAt(b) \in Nat
  BY <1>1, Numbers
<1>3. \/ /\ clock' = clock + 1 /\ clock < MaxTime /\ resets' = resets
         /\ counters' = [b \in BucketIds |-> IF clock + 1 > ResetAt(b) THEN 0 ELSE counters[b]]
      \/ /\ clock' = clock /\ resets' = resets + 1 /\ resets < MaxResets
         /\ counters' = [b \in BucketIds |-> 0]
  BY DEF Tick, LoseData
<1>4. \A c \in Calls : BucketOf(c)' = BucketOf(c) /\ BucketOf(c) \in BucketIds
  BY <1>1, BucketOfCall DEF BucketOf
<1>5. Limit * (resets + 1) = Limit * resets + Limit /\ Limit * resets \in Nat
  BY <1>2
<1>a. TypeOK'
  BY <1>1, <1>2, <1>3, RedisAssumption DEF TypeOK
<1>b. CounterInv'
  BY <1>1, <1>2, <1>3, <1>5 DEF CounterInv, ResetAt, Spent
<1>c. TryInv'
  BY <1>1, <1>2, <1>3, RedisAssumption DEF TryInv, TypeOK
<1>d. DenialInv'
  <2> SUFFICES ASSUME NEW a \in Tries, reply[a] # NoReply, ~reply[a].allowed
               PROVE  clock' + reply[a].ttl >= ResetAt(BucketOf(a[1]))
    BY <1>1, <1>4 DEF DenialInv, ResetAt, Tries
  <2>1. reply[a].ttl \in Int /\ ResetAt(BucketOf(a[1])) \in Nat
    BY <1>1, <1>2, <1>4, RedisAssumption DEF TypeOK, Tries
  <2> QED
    BY <2>1, <1>1, <1>2, <1>3 DEF DenialInv
<1>e. DenialIsEarned' /\ RetryAfterSound'
  <2>1. \A c \in Calls : retryAfter[c] \in Nat /\ ResetAt(BucketOf(c)) \in Nat
    BY <1>1, <1>2, <1>4 DEF TypeOK
  <2> QED
    BY <2>1, <1>1, <1>2, <1>3, <1>4 DEF DenialIsEarned, RetryAfterSound, ResetAt
<1> QED
  BY <1>a, <1>b, <1>c, <1>d, <1>e DEF RedisInv

\* The inductive invariant holds in every reachable state.
THEOREM RedisInvariance == Spec => []RedisInv
<1>1. Init => RedisInv
  <2> SUFFICES ASSUME Init PROVE RedisInv
    OBVIOUS
  <2>1. TypeOK
    BY RedisAssumption DEF Init, TypeOK, NoReply, Tries
  <2>2. CounterInv
    BY RedisAssumption, WindowsAreNatural DEF Init, CounterInv, Spent
  <2>3. TryInv /\ DenialInv /\ DenialIsEarned /\ RetryAfterSound
    BY RedisAssumption DEF Init, TryInv, DenialInv, DenialIsEarned, RetryAfterSound
  <2> QED
    BY <2>1, <2>2, <2>3 DEF RedisInv
<1>2. RedisInv /\ [Next]_vars => RedisInv'
  <2> SUFFICES ASSUME RedisInv, [Next]_vars PROVE RedisInv'
    OBVIOUS
  <2>1. ASSUME NEW c \in Calls, Send(c) PROVE RedisInv'
    BY <2>1, SendPreserves
  <2>2. ASSUME NEW c \in Calls, Resend(c) PROVE RedisInv'
    BY <2>2, ResendPreserves
  <2>3. ASSUME NEW c \in Calls, Receive(c) \/ Fail(c) PROVE RedisInv'
    BY <2>3, AnswerPreserves
  <2>4. ASSUME NEW a \in Tries, Execute(a) PROVE RedisInv'
    BY <2>4, ExecutePreserves
  <2>5. CASE Tick \/ LoseData
    BY <2>5, ServerPreserves
  <2>6. CASE Terminated \/ UNCHANGED vars
    BY <2>6 DEF Terminated, vars, RedisInv, TypeOK, CounterInv, TryInv, DenialInv,
                DenialIsEarned, RetryAfterSound, BucketOf, ResetAt
  <2> QED
    BY <2>1, <2>2, <2>3, <2>4, <2>5, <2>6 DEF Next
<1> QED
  BY <1>1, <1>2, PTL DEF Spec

\* All proxies together are granted one budget per window and life of the
\* server, for as long as the server takes the window for open.
THEOREM BudgetIsShared == Spec => []SharedBudget
<1>1. RedisInv => SharedBudget
  <2> SUFFICES ASSUME RedisInv, NEW b \in BucketIds, clock < ResetAt(b)
               PROVE  granted[b] <= Limit * (1 + resets)
    BY DEF SharedBudget
  <2>1. /\ resets \in Nat /\ Limit \in Nat \ {0} /\ granted[b] \in Nat /\ counters[b] \in Nat
    BY Numbers DEF RedisInv
  <2>2. Limit * (1 + resets) = Limit * resets + Limit /\ Limit * resets \in Nat
    BY <2>1
  <2>3. granted[b] <= Limit * resets + Spent(counters[b])
    BY DEF RedisInv, CounterInv
  <2>4. Spent(counters[b]) \in Nat /\ Spent(counters[b]) <= Limit
    BY <2>1 DEF Spent
  <2> QED
    BY <2>1, <2>2, <2>3, <2>4
<1> QED
  BY <1>1, RedisInvariance, PTL

\* Every denial was earned, and tells a wait that ends with the window, or one
\* window more where it was over when the script ran (redis.go:22, 54-59).
THEOREM DenialsAreSound == Spec => [](DenialIsEarned /\ RetryAfterSound)
<1>1. RedisInv => DenialIsEarned /\ RetryAfterSound
  BY DEF RedisInv
<1> QED
  BY <1>1, RedisInvariance, PTL

\* The variables keep their types; no answer carries an absurd wait.
THEOREM RedisTypes == Spec => []TypeOK
<1>1. RedisInv => TypeOK
  BY DEF RedisInv
<1> QED
  BY <1>1, RedisInvariance, PTL

-----------------------------------------------------------------------------
(* RedisLimiter implements FixedWindowBudget.                              *)

\* A run of the script is a Grant or a Deny of the call's bucket, whichever
\* try it is and however late.
LEMMA ExecuteIsRuling ==
  ASSUME RedisInv, NEW a \in Tries, Execute(a),
         NEW b \in BucketIds, b = BucketOf(a[1])
  PROVE  Budget!Grant(a, b) \/ Budget!Deny(a, b)
<1> DEFINE count == counters[b] + 1
<1>1. /\ TypeOK /\ CounterInv /\ TryInv
      /\ b[2] <= clock + Skew
      /\ a[1] \in Calls
  <2>1. TypeOK /\ CounterInv /\ TryInv /\ a[1] \in Calls
    BY DEF RedisInv, Tries
  <2>2. b[2] \in Nat /\ b[2] <= readAt[a[1]]
    BY <2>1, BucketOfCall, WindowsAreNatural
  <2>3. readAt[a[1]] \in Nat /\ readAt[a[1]] <= clock + Skew
    BY <2>1, RedisAssumption DEF TypeOK, TryInv
  <2> QED
    BY <2>1, <2>2, <2>3, Numbers
<1>2. /\ a \in pending /\ reply[a] = NoReply
      /\ counters' = [counters EXCEPT ![b] =
                        IF count = 1 /\ clock >= ResetAt(b) THEN 0 ELSE count]
      /\ UNCHANGED <<clock, resets, skew, key, readAt, tries, verdict, retryAfter>>
  BY <1>1 DEF Execute, AfterCount, TryInv
<1>3. /\ clock \in Nat /\ Limit \in Nat \ {0}
      /\ counters \in [BucketIds -> Nat] /\ granted \in [BucketIds -> Nat]
      /\ \A d \in BucketIds : ResetAt(d) \in Nat
  BY <1>1, Numbers
<1>4. \/ /\ count > Limit
         /\ reply' = [reply EXCEPT ![a] = [allowed |-> FALSE, ttl |-> ResetAt(b) - clock]]
         /\ granted' = granted
      \/ /\ count <= Limit
         /\ reply' = [reply EXCEPT ![a] = [allowed |-> TRUE, ttl |-> 0]]
         /\ granted' = [granted EXCEPT ![b] = @ + 1]
  BY <1>3 DEF Execute, OverLimit
<1>5. \A c \in Calls : BucketOf(c)' = BucketOf(c)
  BY <1>2 DEF BucketOf
<1>6. /\ reply \in [Tries -> [allowed : BOOLEAN, ttl : -2..(Window + Skew)]]
      /\ \A e \in Tries : e[1] \in Calls
  BY <1>1 DEF TypeOK, Tries
<1>7. count > Limit => ResetAt(b) - clock >= 0 /\ ResetAt(b) - clock \in Int
  BY <1>1, <1>3 DEF CounterInv
<1>8. reply'[a] # NoReply /\ \A e \in Tries \ {a} : reply'[e] = reply[e]
  <2>1. CASE count > Limit
    <3>1. reply' = [reply EXCEPT ![a] = [allowed |-> FALSE, ttl |-> ResetAt(b) - clock]]
      BY <2>1, <1>3, <1>4
    <3> QED
      BY <3>1, <2>1, <1>6, <1>7 DEF NoReply
  <2>2. CASE count <= Limit
    <3>1. reply' = [reply EXCEPT ![a] = [allowed |-> TRUE, ttl |-> 0]]
      BY <2>2, <1>3, <1>4
    <3> QED
      BY <3>1, <1>6 DEF NoReply
  <2> QED
    BY <2>1, <2>2, <1>3
<1> DEFINE Spending  == [d \in BucketIds |-> Spent(counters[d])]
           Spending2 == [d \in BucketIds |-> Spent(counters'[d])]
           Ruled     == [e \in Tries |-> IF reply[e] = NoReply THEN <<>> ELSE BucketOf(e[1])]
           Ruled2    == [e \in Tries |-> IF reply'[e] = NoReply THEN <<>> ELSE BucketOf(e[1])]
           Said      == [e \in Tries |-> IF reply[e] = NoReply THEN "pending"
                                         ELSE IF reply[e].allowed THEN "allowed" ELSE "denied"]
           Said2     == [e \in Tries |-> IF reply'[e] = NoReply THEN "pending"
                                         ELSE IF reply'[e].allowed THEN "allowed" ELSE "denied"]
<1>9. \A d \in BucketIds \ {b} : Spending2[d] \in Budget!Remembered(d, clock)
  BY <1>2, <1>3 DEF Budget!Remembered, Spent
<1>10. Ruled2 = [Ruled EXCEPT ![a] = b]
  BY <1>8
<1>11. Said[a] = "pending"
  BY <1>2
<1>12. Budget!Charge(a, b)
  BY <1>1, <1>2, <1>5, <1>6, <1>9, <1>10, <1>11 DEF Budget!Charge, Spent, Answer
<1>13. CASE count <= Limit
  <2>1. /\ reply' = [reply EXCEPT ![a] = [allowed |-> TRUE, ttl |-> 0]]
        /\ granted' = [granted EXCEPT ![b] = @ + 1]
    BY <1>3, <1>4, <1>13
  <2>2. Said2 = [Said EXCEPT ![a] = "allowed"]
    <3>1. reply'[a].allowed
      BY <2>1, <1>6
    <3> QED
      BY <3>1, <1>8
  <2>3. counters[b] < Limit /\ Spending[b] = counters[b]
    BY <1>3, <1>13 DEF Spent
  <2>4. Spending2[b] \in {counters[b] + 1} \cup {z \in {0} : clock >= b[2] + Window}
    BY <1>2, <1>3, <1>13 DEF Spent, ResetAt
  <2>5. \E n \in Budget!Remembered(b, clock) :
          /\ n < Limit
          /\ Spending2[b] \in {n + 1} \cup {z \in {0} : Budget!Ended(b, clock)}
    BY <2>3, <2>4 DEF Budget!Remembered, Budget!Ended, Spent
  <2> QED
    BY <2>1, <2>2, <2>5, <1>12 DEF Budget!Grant, Spent, Answer
<1>14. CASE count > Limit
  <2>1. /\ reply' = [reply EXCEPT ![a] = [allowed |-> FALSE, ttl |-> ResetAt(b) - clock]]
        /\ granted' = granted
    BY <1>3, <1>4, <1>14
  <2>2. Said2 = [Said EXCEPT ![a] = "denied"]
    <3>1. ~reply'[a].allowed
      BY <2>1, <1>6
    <3> QED
      BY <3>1, <1>8
  <2>3. Spending[b] = Limit /\ Spending2[b] = Limit
    BY <1>2, <1>3, <1>14 DEF Spent
  <2> QED
    BY <2>1, <2>2, <2>3, <1>12 DEF Budget!Deny, Spent, Answer
<1> QED
  BY <1>3, <1>13, <1>14

\* Every behaviour of the Redis limiter is one of the abstract limiter: what
\* the callers do is a stutter, a run of the script a ruling, a loss of the
\* server's data a reset.
THEOREM RedisImplementsBudget == Spec => ImplementsBudget
<1>1. Init => Budget!Init
  BY RedisAssumption DEF Init, Budget!Init, Budget!NoBucket, Answer
<1>2. RedisInv /\ [Next]_vars => [Budget!Next]_Budget!vars
  <2> SUFFICES ASSUME RedisInv, [Next]_vars
               PROVE  Budget!Next \/ UNCHANGED Budget!vars
    BY DEF Budget!vars
  <2>1. ASSUME NEW c \in Calls, Send(c) PROVE UNCHANGED Budget!vars
    <3>1. \A a \in Tries : a[1] = c => reply[a] = NoReply
      BY <2>1, RedisAssumption DEF Send, RedisInv, TryInv, Tries
    <3>2. \A a \in Tries : reply[a] # NoReply => BucketOf(a[1])' = BucketOf(a[1])
      BY <2>1, <3>1 DEF Send, RedisInv, TypeOK, BucketOf, Tries
    <3> QED
      BY <2>1, <3>2 DEF Send, Budget!vars, Answer
  <2>2. ASSUME NEW c \in Calls, Resend(c) \/ Receive(c) \/ Fail(c)
        PROVE  UNCHANGED Budget!vars
    BY <2>2 DEF Resend, Receive, Fail, Budget!vars, Answer, BucketOf
  <2>3. ASSUME NEW a \in Tries, Execute(a) PROVE Budget!Next
    <3>1. PICK b \in BucketIds : b = BucketOf(a[1])
      BY BucketOfCall DEF RedisInv, Tries
    <3>2. Budget!Grant(a, b) \/ Budget!Deny(a, b)
      BY <2>3, <3>1, ExecuteIsRuling
    <3> QED
      BY <3>2 DEF Budget!Next
  <2>4. CASE Tick
    <3>1. /\ clock' = clock + 1
          /\ counters' = [b \in BucketIds |-> IF clock' > ResetAt(b) THEN 0 ELSE counters[b]]
          /\ UNCHANGED <<resets, granted, key, readAt, reply>>
      BY <2>4 DEF Tick
    <3>2. /\ clock \in Nat /\ Limit \in Nat \ {0}
          /\ counters \in [BucketIds -> Nat]
          /\ \A d \in BucketIds : ResetAt(d) \in Nat
      BY Numbers DEF RedisInv
    <3>3. \A d \in BucketIds :
            Spent(counters'[d]) \in {Spent(counters[d])} \cup {n \in {0} : clock' >= ResetAt(d)}
      BY <3>1, <3>2 DEF Spent
    <3> QED
      BY <3>1, <3>3 DEF Budget!Next, Budget!Tick, Budget!Remembered, Budget!Ended,
                        Spent, ResetAt, Answer, BucketOf
  <2>5. CASE LoseData
    BY <2>5, RedisAssumption
       DEF LoseData, Budget!Next, Budget!Reset, Answer, BucketOf
  <2>6. CASE Terminated \/ UNCHANGED vars
    BY <2>6 DEF Terminated, vars, Budget!vars, Answer, BucketOf
  <2> QED
    BY <2>1, <2>2, <2>3, <2>4, <2>5, <2>6 DEF Next
<1> QED
  BY <1>1, <1>2, RedisInvariance, PTL DEF Spec, Budget!Spec, ImplementsBudget
=============================================================================
