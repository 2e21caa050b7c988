---------------------- MODULE FixedWindowBudgetProofs ----------------------
(* What every implementation of FixedWindowBudget promises.                *)
EXTENDS FixedWindowBudget, TLAPS

\* Parameters a limiter can have.
Parameters ==
  /\ Limit \in Nat \ {0} /\ Window \in Nat \ {0}
  /\ \A b \in Buckets : b[2] \in Nat

BudgetInv ==
  /\ clock \in Nat /\ resets \in Nat
  /\ spent \in [Buckets -> 0..Limit]
  /\ granted \in [Buckets -> Nat]
  /\ charged \in [Requests -> Buckets \cup {NoBucket}]
  /\ answer \in [Requests -> {"pending", "allowed", "denied"}]
  /\ \A b \in Buckets :
       /\ spent[b] <= granted[b]
       /\ ~Ended(b, clock) => granted[b] <= Limit * resets + spent[b]
  /\ \A r \in Requests : answer[r] = "denied" =>
       charged[r] \in Buckets /\ granted[charged[r]] >= Limit

\* Granting a request spends one unit of the budget it is charged to.
LEMMA GrantPreserves ==
  ASSUME Parameters, BudgetInv, NEW r \in Requests, NEW b \in Buckets, Grant(r, b)
  PROVE  BudgetInv'
<1>1. PICK n \in Remembered(b, clock) :
        /\ n < Limit
        /\ spent'[b] \in {n + 1} \cup {z \in {0} : Ended(b, clock)}
  BY DEF Grant
<1>2. /\ answer[r] = "pending"
      /\ charged' = [charged EXCEPT ![r] = b]
      /\ \A d \in Buckets \ {b} : spent'[d] \in {spent[d]} \cup {z \in {0} : Ended(d, clock)}
      /\ clock' = clock /\ resets' = resets
      /\ spent' = [d \in Buckets |-> spent'[d]]
      /\ granted' = [granted EXCEPT ![b] = @ + 1]
      /\ answer' = [answer EXCEPT ![r] = "allowed"]
  BY DEF Grant, Charge, Remembered
<1>3. Limit * resets \in Nat
  BY DEF Parameters, BudgetInv
<1>4. spent' \in [Buckets -> 0..Limit]
  <2>1. \A d \in Buckets : spent'[d] \in 0..Limit
    BY <1>1, <1>2 DEF Parameters, BudgetInv, Remembered
  <2> QED
    BY <2>1, <1>2
<1>5. \A d \in Buckets :
        /\ spent'[d] <= granted'[d]
        /\ ~Ended(d, clock) => granted'[d] <= Limit * resets + spent'[d]
  BY <1>1, <1>2, <1>3 DEF Parameters, BudgetInv, Remembered
<1>6. \A q \in Requests : answer'[q] = "denied" =>
        charged'[q] \in Buckets /\ granted'[charged'[q]] >= Limit
  BY <1>2 DEF Parameters, BudgetInv
<1> QED
  BY <1>2, <1>4, <1>5, <1>6 DEF BudgetInv, Ended

\* A denial changes no budget.
LEMMA DenyPreserves ==
  ASSUME Parameters, BudgetInv, NEW r \in Requests, NEW b \in Buckets, Deny(r, b)
  PROVE  BudgetInv'
<1>1. /\ answer[r] = "pending" /\ spent[b] = Limit /\ spent'[b] = Limit
      /\ charged' = [charged EXCEPT ![r] = b]
      /\ \A d \in Buckets \ {b} : spent'[d] \in {spent[d]} \cup {z \in {0} : Ended(d, clock)}
      /\ clock' = clock /\ resets' = resets /\ granted' = granted
      /\ spent' = [d \in Buckets |-> spent'[d]]
      /\ answer' = [answer EXCEPT ![r] = "denied"]
  BY DEF Deny, Charge, Remembered
<1>2. \A d \in Buckets : spent'[d] \in 0..Limit
  BY <1>1 DEF Parameters, BudgetInv
<1>3. \A d \in Buckets :
        /\ spent'[d] <= granted[d]
        /\ ~Ended(d, clock) => granted[d] <= Limit * resets + spent'[d]
  BY <1>1 DEF Parameters, BudgetInv
<1>4. granted[b] >= Limit
  BY <1>1 DEF Parameters, BudgetInv
<1> QED
  BY <1>1, <1>2, <1>3, <1>4 DEF BudgetInv, Ended

\* Time only ends windows, and what is forgotten was of an ended one; the
\* store's loss of its data is one more budget per bucket.
LEMMA StorePreserves ==
  ASSUME Parameters, BudgetInv, Tick \/ Reset
  PROVE  BudgetInv'
<1>1. Limit * (resets + 1) = Limit * resets + Limit /\ Limit * resets \in Nat
  BY DEF Parameters, BudgetInv
<1>2. CASE Tick
  <2>1. \A d \in Buckets : spent'[d] \in {spent[d]} \cup {z \in {0} : Ended(d, clock')}
    BY <1>2 DEF Tick, Remembered
  <2>2. \A d \in Buckets : Ended(d, clock) => Ended(d, clock')
    BY <1>2 DEF Tick, Ended, Parameters, BudgetInv
  <2>3. spent' \in [Buckets -> 0..Limit]
    BY <1>2, <2>1 DEF Tick, Parameters, BudgetInv
  <2>4. \A d \in Buckets :
          /\ spent'[d] <= granted[d]
          /\ ~Ended(d, clock') => granted[d] <= Limit * resets + spent'[d]
    BY <2>1, <2>2 DEF Parameters, BudgetInv
  <2> QED
    BY <1>2, <2>3, <2>4 DEF Tick, BudgetInv, Ended
<1>3. CASE Reset
  BY <1>1, <1>3 DEF Reset, Parameters, BudgetInv, Ended
<1> QED
  BY <1>2, <1>3

\* The abstract limiter keeps the accounts it is specified by.
THEOREM BudgetInvariance ==
  ASSUME Parameters
  PROVE  Spec => []BudgetInv
<1>1. Init => BudgetInv
  BY DEF Init, BudgetInv, Parameters, NoBucket
<1>2. BudgetInv /\ [Next]_vars => BudgetInv'
  <2> SUFFICES ASSUME BudgetInv, [Next]_vars PROVE BudgetInv'
    OBVIOUS
  <2>1. ASSUME NEW r \in Requests, NEW b \in Buckets, Grant(r, b) PROVE BudgetInv'
    BY <2>1, GrantPreserves
  <2>2. ASSUME NEW r \in Requests, NEW b \in Buckets, Deny(r, b) PROVE BudgetInv'
    BY <2>2, DenyPreserves
  <2>3. CASE Tick \/ Reset
    BY <2>3, StorePreserves
  <2>4. CASE UNCHANGED vars
    BY <2>4 DEF vars, BudgetInv, Ended
  <2> QED
    BY <2>1, <2>2, <2>3, <2>4 DEF Next
<1> QED
  BY <1>1, <1>2, PTL DEF Spec

\* Whatever implements the abstract limiter grants, while a window is open, at
\* most one budget per key and life of its store, and denies only those who
\* come after a whole budget was granted.
THEOREM BudgetIsKept ==
  ASSUME Parameters
  PROVE  Spec => [](WithinBudget /\ DenialIsEarned)
<1>1. BudgetInv => WithinBudget /\ DenialIsEarned
  <2> SUFFICES ASSUME BudgetInv PROVE WithinBudget /\ DenialIsEarned
    OBVIOUS
  <2>1. Limit * (1 + resets) = Limit * resets + Limit /\ Limit * resets \in Nat
    BY DEF Parameters, BudgetInv
  <2> QED
    BY <2>1 DEF BudgetInv, WithinBudget, DenialIsEarned, Parameters
<1> QED
  BY <1>1, BudgetInvariance, PTL
=============================================================================
