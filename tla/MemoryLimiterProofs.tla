------------------------ MODULE MemoryLimiterProofs ------------------------
(* Proofs about MemoryLimiter, for every budget, window and map size. *)
EXTENDS MemoryLimiter, TLAPS

\* The count of a bucket is a count of decisions; what it admitted follows
\* from it as long as the bucket cannot have been pruned, and is never less.
CountInv ==
  \A b \in BucketIds :
    /\ clock <= ResetAt(b) => admitted[b] <= Limit
    /\ clock <= ResetAt(b) => admitted[b] <= buckets[b]
    /\ buckets[b] <= Limit => buckets[b] <= admitted[b]
    /\ buckets[b] > Limit => Limit <= admitted[b]

\* A call's reading of the clock is old, never new, and stays once decided.
CallInv ==
  \A c \in Calls :
    /\ readAt[c] <= clock
    /\ verdict[c] # "pending" => pc[c] = "done"

LimiterInv == TypeOK /\ CountInv /\ CallInv /\ NoSpuriousDenial

\* Windows start and end at natural times.
LEMMA WindowsAreNatural ==
  /\ \A t \in 0..MaxTime : WindowStart(t) \in Nat
  /\ \A b \in BucketIds : ResetAt(b) \in Nat
<1>1. \A t \in 0..MaxTime : WindowStart(t) \in Nat
  BY LimiterAssumption DEF WindowStart
<1> QED
  BY <1>1, LimiterAssumption DEF BucketIds, ResetAt

\* A call counts itself in a bucket that exists in the model.
LEMMA BucketOfCall ==
  ASSUME TypeOK, NEW c \in Calls
  PROVE  BucketOf(c) \in BucketIds
BY DEF TypeOK, BucketOf, BucketIds

\* Pruning takes only buckets whose window has ended by now.
LEMMA PruningTakesEnded ==
  ASSUME TypeOK, CallInv, NEW c \in Calls
  PROVE  LET found == AfterEviction(BucketOf(c), readAt[c]) IN
         /\ found \in [BucketIds -> Nat]
         /\ \A d \in BucketIds :
              \/ found[d] = buckets[d]
              \/ found[d] = 0 /\ clock > ResetAt(d)
<1> DEFINE found == AfterEviction(BucketOf(c), readAt[c])
<1>1. readAt[c] \in Nat /\ clock \in Nat /\ readAt[c] <= clock
  BY LimiterAssumption DEF TypeOK, CallInv
<1>2. CASE found = buckets
  BY <1>2 DEF TypeOK
<1>3. CASE found = [d \in BucketIds |-> IF Expired(d, readAt[c]) THEN 0 ELSE buckets[d]]
  BY <1>1, <1>3, WindowsAreNatural DEF TypeOK, Expired
<1> QED
  BY <1>2, <1>3 DEF AfterEviction

\* The critical section of Allow keeps the counts and the budget in step.
LEMMA DecidePreserves ==
  ASSUME LimiterInv, NEW c \in Calls, Decide(c)
  PROVE  LimiterInv'
<1> DEFINE b     == BucketOf(c)
           found == AfterEviction(b, readAt[c])
           count == found[b] + 1
<1>1. /\ TypeOK /\ CountInv /\ CallInv /\ NoSpuriousDenial
      /\ b \in BucketIds
      /\ Limit \in Nat \ {0}
  BY BucketOfCall, LimiterAssumption DEF LimiterInv
<1>2. /\ found \in [BucketIds -> Nat]
      /\ \A d \in BucketIds :
           \/ found[d] = buckets[d]
           \/ found[d] = 0 /\ clock > ResetAt(d)
  BY <1>1, PruningTakesEnded
<1>3. /\ pc[c] = "locking"
      /\ buckets' = [found EXCEPT ![b] = count]
      /\ pc' = [pc EXCEPT ![c] = "done"]
      /\ UNCHANGED <<clock, key, readAt>>
  BY DEF Decide
<1>4. \/ /\ count <= Limit
         /\ verdict' = [verdict EXCEPT ![c] = "allowed"]
         /\ admitted' = [admitted EXCEPT ![b] = @ + 1]
         /\ retryAfter' = [retryAfter EXCEPT ![c] = 0]
      \/ /\ count > Limit
         /\ verdict' = [verdict EXCEPT ![c] = "denied"]
         /\ retryAfter' = [retryAfter EXCEPT ![c] = Wait(b)]
         /\ admitted' = admitted
  <2>1. count \in Nat
    BY <1>1, <1>2
  <2> QED
    BY <2>1, <1>1 DEF Decide, WithinLimit, WaitIfAllowed
<1>5. /\ Wait(b) \in Int
      /\ \A d \in BucketIds : ResetAt(d) \in Nat
      /\ clock \in Nat
  BY <1>1, WindowsAreNatural, LimiterAssumption DEF TypeOK, Wait
<1>6. \A d \in Calls : BucketOf(d)' = BucketOf(d)
  BY <1>3 DEF BucketOf
<1> HIDE DEF b, found
<1>a. TypeOK'
  BY <1>1, <1>2, <1>3, <1>4, <1>5 DEF TypeOK, CallInv
<1>b. CountInv'
  BY <1>1, <1>2, <1>3, <1>4, <1>5 DEF TypeOK, CountInv, ResetAt
<1>c. CallInv'
  BY <1>1, <1>3, <1>4 DEF TypeOK, CallInv
<1>d. NoSpuriousDenial'
  <2> SUFFICES ASSUME NEW d \in Calls, verdict'[d] = "denied"
               PROVE  admitted'[BucketOf(d)] >= Limit
    BY <1>6 DEF NoSpuriousDenial
  <2>1. BucketOf(d) \in BucketIds
    BY <1>1, BucketOfCall
  <2>2. CASE d = c /\ verdict[d] # "denied"
    <3>1. /\ count > Limit
          /\ admitted' = admitted
      BY <2>2, <1>1, <1>4 DEF TypeOK
    <3>2. CASE found[b] = 0
      BY <3>1, <3>2, <1>1
    <3>3. CASE found[b] = buckets[b]
      BY <3>1, <3>3, <2>2, <1>1 DEF TypeOK, CountInv, b
    <3> QED
      BY <3>2, <3>3, <1>1, <1>2
  <2>3. CASE verdict[d] = "denied"
    BY <2>1, <2>3, <1>1, <1>4 DEF TypeOK, NoSpuriousDenial
  <2> QED
    BY <2>2, <2>3, <1>1, <1>4 DEF TypeOK
<1> QED
  BY <1>a, <1>b, <1>c, <1>d DEF LimiterInv

\* The inductive invariant holds in every reachable state of the limiter.
THEOREM LimiterInvariance == Spec => []LimiterInv
<1>1. Init => LimiterInv
  BY LimiterAssumption, WindowsAreNatural
     DEF Init, LimiterInv, TypeOK, CountInv, CallInv, NoSpuriousDenial
<1>2. LimiterInv /\ [Next]_vars => LimiterInv'
  <2> SUFFICES ASSUME LimiterInv, [Next]_vars PROVE LimiterInv'
    OBVIOUS
  <2>1. ASSUME NEW c \in Calls, ReadClock(c) PROVE LimiterInv'
    BY <2>1 DEF ReadClock, LimiterInv, TypeOK, CountInv, CallInv, NoSpuriousDenial, BucketOf, ResetAt
  <2>2. ASSUME NEW c \in Calls, Decide(c) PROVE LimiterInv'
    BY <2>2, DecidePreserves
  <2>3. CASE Tick
    BY <2>3, WindowsAreNatural, LimiterAssumption
       DEF Tick, LimiterInv, TypeOK, CountInv, CallInv, NoSpuriousDenial, BucketOf, ResetAt
  <2>4. CASE Terminated \/ UNCHANGED vars
    BY <2>4 DEF Terminated, vars, LimiterInv, TypeOK, CountInv, CallInv, NoSpuriousDenial,
                BucketOf, ResetAt
  <2> QED
    BY <2>1, <2>2, <2>3, <2>4 DEF Next
<1> QED
  BY <1>1, <1>2, PTL DEF Spec

\* No key gets more than its budget in a window that has not ended, however
\* late calls decide and whoever prunes the map.
THEOREM BudgetHoldsWhileOpen == Spec => []OpenWindowBudget
<1>1. LimiterInv => OpenWindowBudget
  BY DEF LimiterInv, CountInv, OpenWindowBudget
<1> QED
  BY <1>1, LimiterInvariance, PTL

\* Whoever is denied had a budget that was spent.
THEOREM DenialsAreDue == Spec => []NoSpuriousDenial
<1>1. LimiterInv => NoSpuriousDenial
  BY DEF LimiterInv
<1> QED
  BY <1>1, LimiterInvariance, PTL

\* The variables keep their types.
THEOREM LimiterTypes == Spec => []TypeOK
<1>1. LimiterInv => TypeOK
  BY DEF LimiterInv
<1> QED
  BY <1>1, LimiterInvariance, PTL

-----------------------------------------------------------------------------
(* MemoryLimiter implements FixedWindowBudget.                             *)

\* The spending of a bucket, as the abstract limiter sees it.
Spent(n) == IF n < Limit THEN n ELSE Limit

\* A decision is a Grant or a Deny of the call's bucket.
LEMMA DecideIsRuling ==
  ASSUME LimiterInv, NEW c \in Calls, Decide(c),
         NEW b \in BucketIds, b = BucketOf(c)
  PROVE  Budget!Grant(c, b) \/ Budget!Deny(c, b)
<1> DEFINE found == AfterEviction(b, readAt[c])
           count == found[b] + 1
<1>1. /\ TypeOK /\ CallInv
      /\ b \in BucketIds
      /\ Limit \in Nat \ {0}
      /\ clock \in Nat
      /\ \A d \in BucketIds : ResetAt(d) \in Nat
  BY BucketOfCall, LimiterAssumption, WindowsAreNatural DEF LimiterInv, TypeOK
<1>2. /\ found \in [BucketIds -> Nat]
      /\ \A d \in BucketIds :
           \/ found[d] = buckets[d]
           \/ found[d] = 0 /\ clock > ResetAt(d)
  BY <1>1, PruningTakesEnded
<1>3. /\ pc[c] = "locking"
      /\ buckets' = [found EXCEPT ![b] = count]
      /\ pc' = [pc EXCEPT ![c] = "done"]
      /\ UNCHANGED <<clock, key, readAt>>
  BY DEF Decide
<1>4. \/ /\ count <= Limit
         /\ verdict' = [verdict EXCEPT ![c] = "allowed"]
         /\ admitted' = [admitted EXCEPT ![b] = @ + 1]
      \/ /\ count > Limit
         /\ verdict' = [verdict EXCEPT ![c] = "denied"]
         /\ admitted' = admitted
  <2>1. count \in Nat
    BY <1>1, <1>2
  <2> QED
    BY <2>1, <1>1 DEF Decide, WithinLimit
<1>5. \A d \in Calls : BucketOf(d)' = BucketOf(d)
  BY <1>3 DEF BucketOf
<1>6. b[2] <= clock
  <2>1. readAt[c] \in Nat /\ readAt[c] <= clock
    BY <1>1, LimiterAssumption DEF TypeOK, CallInv
  <2>2. WindowStart(readAt[c]) <= readAt[c]
    BY <2>1, LimiterAssumption DEF WindowStart
  <2>3. WindowStart(readAt[c]) \in Nat
    BY <1>1, WindowsAreNatural DEF TypeOK
  <2> QED
    BY <2>1, <2>2, <2>3, <1>1 DEF BucketOf
<1>7. b[2] \in Nat
  BY <1>1, WindowsAreNatural DEF BucketOf, TypeOK
<1>8. buckets \in [BucketIds -> Nat]
  BY <1>1 DEF TypeOK
<1> DEFINE Spending  == [d \in BucketIds |-> Spent(buckets[d])]
           Spending2 == [d \in BucketIds |-> Spent(buckets'[d])]
           Ruled     == [d \in Calls |-> IF pc[d] = "done" THEN BucketOf(d) ELSE <<>>]
           Ruled2    == [d \in Calls |-> IF pc'[d] = "done" THEN BucketOf(d) ELSE <<>>]
<1> HIDE DEF found
<1>10. \A d \in BucketIds : Budget!Remembered(d, clock)
           = {Spending[d]} \cup {n \in {0} : clock >= ResetAt(d)}
  BY DEF Budget!Remembered, Budget!Ended, ResetAt, Spent
<1>11. \A d \in BucketIds \ {b} : Spending2[d] \in Budget!Remembered(d, clock)
  <2> SUFFICES ASSUME NEW d \in BucketIds \ {b}
               PROVE  Spending2[d] \in {Spending[d]} \cup {n \in {0} : clock >= ResetAt(d)}
    BY <1>10
  <2>1. buckets'[d] = found[d]
    BY <1>2, <1>3
  <2> QED
    BY <2>1, <1>1, <1>2 DEF Spent
<1>12. Ruled2 = [Ruled EXCEPT ![c] = b]
  BY <1>1, <1>3 DEF TypeOK
<1>13. verdict[c] = "pending"
  BY <1>1, <1>3 DEF TypeOK, CallInv
<1>14. Budget!Charge(c, b)
  BY <1>3, <1>5, <1>6, <1>7, <1>1, <1>11, <1>12, <1>13 DEF Budget!Charge, Spent
<1>15. Spending2[b] = Spent(count)
  BY <1>1, <1>2, <1>3
<1>16. CASE count <= Limit
  <2>1. PICK n \in Budget!Remembered(b, clock) : n = found[b]
    BY <1>1, <1>2, <1>8, <1>10, <1>16 DEF Spent
  <2>2. n < Limit /\ Spending2[b] = n + 1
    BY <2>1, <1>1, <1>2, <1>15, <1>16 DEF Spent
  <2>3. /\ verdict' = [verdict EXCEPT ![c] = "allowed"]
        /\ admitted' = [admitted EXCEPT ![b] = @ + 1]
    BY <1>1, <1>2, <1>4, <1>16
  <2>4. Budget!Grant(c, b)
    BY <2>2, <2>3, <1>1, <1>14 DEF Budget!Grant, Spent
  <2> QED
    BY <2>4
<1>17. CASE count > Limit
  <2>1. found[b] >= Limit /\ found[b] = buckets[b]
    BY <1>1, <1>2, <1>17
  <2>2. Spending[b] = Limit /\ Spending2[b] = Limit
    BY <2>1, <1>1, <1>2, <1>8, <1>15, <1>17 DEF Spent
  <2>3. /\ verdict' = [verdict EXCEPT ![c] = "denied"]
        /\ admitted' = admitted
    BY <1>1, <1>2, <1>4, <1>17
  <2>4. Budget!Deny(c, b)
    BY <2>2, <2>3, <1>1, <1>14 DEF Budget!Deny, Spent
  <2> QED
    BY <2>4
<1> QED
  BY <1>1, <1>2, <1>16, <1>17

\* Every behaviour of the in-memory limiter is one of the abstract limiter:
\* the clock's reading is a stutter, a decision a ruling.
THEOREM LimiterImplementsBudget == Spec => ImplementsBudget
<1>1. Init => Budget!Init
  BY LimiterAssumption DEF Init, Budget!Init, Budget!NoBucket
<1>2. LimiterInv /\ [Next]_vars => [Budget!Next]_Budget!vars
  <2> SUFFICES ASSUME LimiterInv, [Next]_vars
               PROVE  Budget!Next \/ UNCHANGED Budget!vars
    BY DEF Budget!vars
  <2>1. ASSUME NEW c \in Calls, ReadClock(c) PROVE UNCHANGED Budget!vars
    <3>1. \A d \in Calls : pc'[d] = "done" <=> pc[d] = "done"
      BY <2>1 DEF ReadClock, LimiterInv, TypeOK
    <3>2. \A d \in Calls : pc[d] = "done" => BucketOf(d)' = BucketOf(d)
      BY <2>1 DEF ReadClock, LimiterInv, TypeOK, BucketOf
    <3> QED
      BY <2>1, <3>1, <3>2 DEF ReadClock, Budget!vars
  <2>2. ASSUME NEW c \in Calls, Decide(c) PROVE Budget!Next
    <3>1. PICK b \in BucketIds : b = BucketOf(c)
      BY BucketOfCall DEF LimiterInv
    <3>2. Budget!Grant(c, b) \/ Budget!Deny(c, b)
      BY <2>2, <3>1, DecideIsRuling
    <3> QED
      BY <3>1, <3>2 DEF Budget!Next
  <2>3. CASE Tick
    <3>1. UNCHANGED <<buckets, pc, key, readAt, verdict, admitted>> /\ clock' = clock + 1
      BY <2>3 DEF Tick
    <3> QED
      BY <3>1 DEF Budget!Next, Budget!Tick, Budget!Remembered, BucketOf
  <2>4. CASE Terminated \/ UNCHANGED vars
    BY <2>4 DEF Terminated, vars, Budget!vars, BucketOf
  <2> QED
    BY <2>1, <2>2, <2>3, <2>4 DEF Next
<1> QED
  BY <1>1, <1>2, LimiterInvariance, PTL DEF Spec, Budget!Spec, ImplementsBudget
=============================================================================
