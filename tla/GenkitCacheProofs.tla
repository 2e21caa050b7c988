------------------------- MODULE GenkitCacheProofs -------------------------
(* Proofs about GenkitCache, for every set of calls and every TTL and cap. *)
EXTENDS GenkitCache, TLAPS, FiniteSetTheorems

-----------------------------------------------------------------------------
(* The inductive invariant                                                 *)

Building == {"building", "publishing", "announcing", "returning"}

\* What is under a key was inserted by a call for that key which left get's
\* lookup, and is not a failed build.
EntriesInv ==
  \A k \in Keys : entries[k] # NoRequest =>
    /\ k = KeyOf(entries[k])
    /\ pc[entries[k]] \notin {"idle", "await"}
    /\ outcome[entries[k]] # "err"
    /\ outcome[entries[k]] = "none" => InFlight(entries[k])

\* The outcome is set exactly by the critical sections of the builder, before
\* ready is closed.
OutcomeInv ==
  \A r \in Requests :
    /\ pc[r] \in {"idle", "await", "building", "publishing"} => outcome[r] = "none"
    /\ pc[r] \in {"announcing", "returning"} => outcome[r] # "none"
    /\ IsReady(r) => outcome[r] # "none"
    /\ r \in builds <=> pc[r] \in Building

\* An instance exists from initApp's return on.
InstanceInv ==
  \A r \in Requests :
    /\ inst[r] # "none" => outcome[r] = "app" \/ pc[r] = "publishing"
    /\ outcome[r] = "app" => inst[r] # "none"
    /\ pc[r] = "publishing" => inst[r] = "live"

\* A call waits for, and takes its app from, an entry of its own key.
SourceInv ==
  \A r \in Requests :
    /\ pc[r] \in Building => src[r] = r
    /\ pc[r] # "done" => result[r] = "pending"
    /\ pc[r] = "await" => src[r] \in Requests /\ KeyOf(src[r]) = KeyOf(r)
    /\ result[r] = "app" =>
         /\ src[r] \in Requests
         /\ KeyOf(src[r]) = KeyOf(r)
         /\ outcome[src[r]] = "app"

\* A build in flight is under its key unless a lookup overtook it.
FlightInv ==
  \A r \in Requests :
    InFlight(r) => entries[KeyOf(r)] = r \/ r \in overtaken

ClosedInv ==
  closer = "closed" => builds = {} /\ \A k \in Keys : entries[k] = NoRequest

NoTTLInv == TTL = 0 => overtaken = {}

CacheInv ==
  /\ TypeOK
  /\ EntriesInv
  /\ OutcomeInv
  /\ InstanceInv
  /\ SourceInv
  /\ FlightInv
  /\ LiveInstanceOwned
  /\ ClosedInv
  /\ NoTTLInv

-----------------------------------------------------------------------------
(* Helpers                                                                 *)

\* The key of a call is a key, and equal keys mean equal credentials: cacheKey
\* separates providers and API keys.
LEMMA KeysSeparateCredentials ==
  ASSUME TypeOK
  PROVE  /\ \A r \in Requests : KeyOf(r) \in Keys
         /\ \A r, s \in Requests : KeyOf(r) = KeyOf(s) <=> want[r] = want[s]
BY DEF TypeOK, KeyOf, Keys, CacheKey, Credentials

\* Removing keys from the map only removes.
LEMMA WithoutRemoves ==
  ASSUME NEW m \in [Keys -> Requests \cup {NoRequest}], NEW K
  PROVE  /\ Without(m, K) \in [Keys -> Requests \cup {NoRequest}]
         /\ \A k \in Keys : Without(m, K)[k] = IF k \in K THEN NoRequest ELSE m[k]
BY DEF Without

\* Removal cancels the built entries among those removed, and nothing else.
LEMMA CancelBuiltCancels ==
  ASSUME TypeOK, NEW S
  PROVE  /\ CancelBuilt(S) \in [Requests -> {"none", "live", "cancelled"}]
         /\ \A r \in Requests :
              CancelBuilt(S)[r] = IF r \in S /\ outcome[r] = "app"
                                    THEN "cancelled" ELSE inst[r]
BY DEF CancelBuilt, TypeOK

\* Eviction picks occupied keys whose entries are ready.
LEMMA VictimsAreReady ==
  ASSUME NEW m, NEW K \in Victims(m), NEW k \in K
  PROVE  k \in Keys /\ m[k] # NoRequest /\ IsReady(m[k])
BY DEF Victims, LeastRecentlyUsed, Evictable, Occupied

-----------------------------------------------------------------------------
(* The steps                                                               *)

\* An empty, open cache satisfies the invariant.
LEMMA InitEstablishes == Init => CacheInv
BY CacheAssumption
   DEF Init, CacheInv, TypeOK, EntriesInv, OutcomeInv, InstanceInv, SourceInv,
       FlightInv, LiveInstanceOwned, ClosedInv, NoTTLInv, CallStates, InFlight,
       Building, IsReady, KeyOf

\* A lookup changes no entry of another key unless it removes it, and what it
\* removes was built, or is recorded as overtaken.
LEMMA GetMissPreserves ==
  ASSUME CacheInv, NEW r \in Requests, GetMiss(r)
  PROVE  CacheInv'
<1> DEFINE k == KeyOf(r)
           stale == {entries[k]} \ {NoRequest}
           inserted == [entries EXCEPT ![k] = r]
<1>0. /\ TypeOK /\ EntriesInv /\ OutcomeInv /\ InstanceInv /\ SourceInv
      /\ FlightInv /\ LiveInstanceOwned /\ ClosedInv /\ NoTTLInv
  BY DEF CacheInv
<1>1. PICK victims \in Victims(inserted) :
        /\ entries' = Without(inserted, victims)
        /\ inst' = CancelBuilt(stale \cup {inserted[j] : j \in victims})
  BY DEF GetMiss
<1>2. /\ pc[r] = "idle" /\ closer = "open"
      /\ \A e \in stale : Expired(e)
      /\ lastUsed' = [lastUsed EXCEPT ![r] = clock]
      /\ builds' = builds \cup {r}
      /\ src' = [src EXCEPT ![r] = r]
      /\ pc' = [pc EXCEPT ![r] = "building"]
      /\ overtaken' = overtaken \cup {e \in stale : outcome[e] = "none"}
      /\ peak' = Larger(peak, Cardinality(builds'))
      /\ UNCHANGED <<readyAt, outcome, want, result, clock, janitor, tickDue, closer>>
  BY DEF GetMiss, Closed, timeVars
<1>3. /\ k \in Keys
      /\ \A s \in Requests : KeyOf(s) \in Keys
      /\ NoRequest \notin Requests
      /\ r # NoRequest
  BY <1>0, KeysSeparateCredentials, CacheAssumption
<1>4. /\ inserted \in [Keys -> Requests \cup {NoRequest}]
      /\ \A j \in Keys : inserted[j] = IF j = k THEN r ELSE entries[j]
  BY <1>0, <1>3 DEF TypeOK
<1>5. /\ k \notin victims
      /\ \A j \in victims : j \in Keys /\ entries[j] # NoRequest /\ outcome[entries[j]] = "app"
  <2>1. \A j \in victims : j \in Keys /\ inserted[j] # NoRequest /\ IsReady(inserted[j])
    BY <1>1, VictimsAreReady
  <2>2. ~IsReady(r)
    BY <1>0, <1>2 DEF OutcomeInv
  <2> QED
    BY <2>1, <2>2, <1>4, <1>0 DEF TypeOK, EntriesInv, OutcomeInv
<1>6. /\ entries' \in [Keys -> Requests \cup {NoRequest}]
      /\ \A j \in Keys : entries'[j] = IF j = k THEN r
                                      ELSE IF j \in victims THEN NoRequest ELSE entries[j]
  <2>1. /\ Without(inserted, victims) \in [Keys -> Requests \cup {NoRequest}]
        /\ \A j \in Keys : Without(inserted, victims)[j]
                            = IF j \in victims THEN NoRequest ELSE inserted[j]
    BY <1>4, WithoutRemoves
  <2> QED
    BY <2>1, <1>1, <1>4, <1>5
<1>7. /\ inst' \in [Requests -> {"none", "live", "cancelled"}]
      /\ \A s \in Requests : inst'[s] =
           IF s \in stale \cup {inserted[j] : j \in victims} /\ outcome[s] = "app"
             THEN "cancelled" ELSE inst[s]
  BY <1>1, <1>0, CancelBuiltCancels
<1>8. \A s \in stale : s \in Requests /\ outcome[s] \in {"none", "app"} /\ (TTL > 0)
  BY <1>0, <1>2, <1>3 DEF TypeOK, EntriesInv, Expired
<1> HIDE DEF stale, inserted
<1>a. TypeOK'
  <2>1. peak' \in Nat
    <3>1. IsFiniteSet(builds')
      BY <1>0, <1>2, CacheAssumption, FS_Subset DEF TypeOK
    <3> QED
      BY <3>1, <1>0, <1>2, FS_CardinalityType DEF TypeOK, Larger
  <2> QED
    BY <2>1, <1>0, <1>2, <1>6, <1>7, <1>8 DEF TypeOK, CallStates
<1>b. EntriesInv'
  BY <1>0, <1>2, <1>3, <1>6 DEF TypeOK, EntriesInv, OutcomeInv, KeyOf, InFlight
<1>c. OutcomeInv'
  BY <1>0, <1>2 DEF TypeOK, OutcomeInv, IsReady, Building
<1>d. InstanceInv'
  BY <1>0, <1>2, <1>7 DEF TypeOK, InstanceInv, OutcomeInv
<1>e. SourceInv'
  BY <1>0, <1>2 DEF TypeOK, CallStates, SourceInv, OutcomeInv, KeyOf, Building
<1>f. FlightInv'
  <2> SUFFICES ASSUME NEW s \in Requests, InFlight(s)'
               PROVE  entries'[KeyOf(s)] = s \/ s \in overtaken'
    BY <1>2 DEF FlightInv, KeyOf
  <2>1. CASE s = r
    BY <2>1, <1>3, <1>6
  <2>2. CASE s # r
    <3>1. InFlight(s) /\ outcome[s] = "none"
      BY <2>2, <1>0, <1>2 DEF TypeOK, InFlight, OutcomeInv
    <3>2. CASE s \in overtaken
      BY <3>2, <1>2
    <3>3. CASE entries[KeyOf(s)] = s
      BY <3>1, <3>3, <1>2, <1>3, <1>5, <1>6 DEF stale
    <3> QED
      BY <3>1, <3>2, <3>3, <1>0 DEF FlightInv
  <2> QED
    BY <2>1, <2>2
<1>g. LiveInstanceOwned'
  <2> SUFFICES ASSUME NEW s \in Requests, inst'[s] = "live"
               PROVE  \/ pc'[s] = "publishing"
                      \/ entries'[KeyOf(s)] = s
                      \/ s \in overtaken'
    BY <1>2 DEF LiveInstanceOwned, KeyOf
  <2>1. /\ inst[s] = "live"
        /\ s \in stale \cup {inserted[j] : j \in victims} => outcome[s] # "app"
    BY <1>7
  <2>2. s # r
    BY <2>1, <1>0, <1>2 DEF InstanceInv, OutcomeInv
  <2>3. CASE pc[s] = "publishing"
    BY <2>2, <2>3, <1>0, <1>2 DEF TypeOK
  <2>4. CASE s \in overtaken
    BY <2>4, <1>2
  <2>5. CASE entries[KeyOf(s)] = s /\ KeyOf(s) = k
    BY <2>1, <2>5, <1>2, <1>3, <1>8 DEF stale
  <2>6. CASE entries[KeyOf(s)] = s /\ KeyOf(s) # k
    <3>1. KeyOf(s) \notin victims
      BY <2>1, <2>6, <1>3, <1>4, <1>5
    <3> QED
      BY <3>1, <2>6, <1>3, <1>6
  <2> QED
    BY <2>1, <2>3, <2>4, <2>5, <2>6, <1>0 DEF LiveInstanceOwned
<1>h. ClosedInv' /\ NoTTLInv'
  BY <1>0, <1>2, <1>8 DEF ClosedInv, NoTTLInv
<1> QED
  BY <1>a, <1>b, <1>c, <1>d, <1>e, <1>f, <1>g, <1>h DEF CacheInv

\* A rejected call touches nothing shared.
LEMMA GetClosedPreserves ==
  ASSUME CacheInv, NEW r \in Requests, GetClosed(r)
  PROVE  CacheInv'
  BY CacheAssumption
     DEF CacheInv, TypeOK, CallStates, EntriesInv, OutcomeInv, InstanceInv, SourceInv,
         FlightInv, LiveInstanceOwned, ClosedInv, NoTTLInv, Building, InFlight,
         IsReady, KeyOf, GetClosed, Closed, entryVars, timeVars, historyVars

\* A hit refreshes an entry of its own key and waits for it.
LEMMA GetHitPreserves ==
  ASSUME CacheInv, NEW r \in Requests, GetHit(r)
  PROVE  CacheInv'
  BY CacheAssumption, KeysSeparateCredentials
     DEF CacheInv, TypeOK, CallStates, EntriesInv, OutcomeInv, InstanceInv, SourceInv,
         FlightInv, LiveInstanceOwned, ClosedInv, NoTTLInv, Building, InFlight,
         IsReady, KeyOf, GetHit, Closed, timeVars, historyVars

\* The builder of a running instance owns it.
LEMMA InitOkPreserves ==
  ASSUME CacheInv, NEW r \in Requests, InitOk(r)
  PROVE  CacheInv'
  BY CacheAssumption
     DEF CacheInv, TypeOK, CallStates, EntriesInv, OutcomeInv, InstanceInv, SourceInv,
         FlightInv, LiveInstanceOwned, ClosedInv, NoTTLInv, Building, InFlight,
         IsReady, KeyOf, InitOk, timeVars, historyVars

\* Ownership passes from the builder to the entry.
LEMMA PublishPreserves ==
  ASSUME CacheInv, NEW r \in Requests, Publish(r)
  PROVE  CacheInv'
  BY CacheAssumption
     DEF CacheInv, TypeOK, CallStates, EntriesInv, OutcomeInv, InstanceInv, SourceInv,
         FlightInv, LiveInstanceOwned, ClosedInv, NoTTLInv, Building, InFlight,
         IsReady, KeyOf, Publish, timeVars, historyVars

\* ready closes after the outcome was set.
LEMMA AnnouncePreserves ==
  ASSUME CacheInv, NEW r \in Requests, Announce(r)
  PROVE  CacheInv'
  BY CacheAssumption
     DEF CacheInv, TypeOK, CallStates, EntriesInv, OutcomeInv, InstanceInv, SourceInv,
         FlightInv, LiveInstanceOwned, ClosedInv, NoTTLInv, Building, InFlight,
         IsReady, KeyOf, Announce, WithReady, timeVars, historyVars

\* The builder returns its own outcome and leaves builds.
LEMMA ReturnPreserves ==
  ASSUME CacheInv, NEW r \in Requests, Return(r)
  PROVE  CacheInv'
  BY CacheAssumption
     DEF CacheInv, TypeOK, CallStates, EntriesInv, OutcomeInv, InstanceInv, SourceInv,
         FlightInv, LiveInstanceOwned, ClosedInv, NoTTLInv, Building, InFlight,
         IsReady, KeyOf, Return, BuildsWithout, entryVars, timeVars, historyVars

\* A waiter returns the outcome of an entry of its key.
LEMMA AwaitReadyPreserves ==
  ASSUME CacheInv, NEW r \in Requests, AwaitReady(r)
  PROVE  CacheInv'
  BY CacheAssumption
     DEF CacheInv, TypeOK, CallStates, EntriesInv, OutcomeInv, InstanceInv, SourceInv,
         FlightInv, LiveInstanceOwned, ClosedInv, NoTTLInv, Building, InFlight,
         IsReady, KeyOf, AwaitReady, entryVars, timeVars, historyVars

\* A cancelled wait touches nothing shared.
LEMMA AwaitCancelledPreserves ==
  ASSUME CacheInv, NEW r \in Requests, AwaitCancelled(r)
  PROVE  CacheInv'
  BY CacheAssumption
     DEF CacheInv, TypeOK, CallStates, EntriesInv, OutcomeInv, InstanceInv, SourceInv,
         FlightInv, LiveInstanceOwned, ClosedInv, NoTTLInv, Building, InFlight,
         IsReady, KeyOf, AwaitCancelled, entryVars, timeVars, historyVars

\* fail takes away only the entry of its own call.
LEMMA FailPreserves ==
  ASSUME CacheInv, NEW r \in Requests, Fail(r)
  PROVE  CacheInv'
  BY CacheAssumption, KeysSeparateCredentials
     DEF CacheInv, TypeOK, CallStates, EntriesInv, OutcomeInv, InstanceInv, SourceInv,
         FlightInv, LiveInstanceOwned, ClosedInv, NoTTLInv, Building, InFlight,
         IsReady, KeyOf, Fail, DropOwn, timeVars, historyVars

\* Steps of the clock, the janitor and Close that leave the entries alone.
LEMMA IdlePreserves ==
  ASSUME CacheInv, Tick \/ MarkClosed \/ StopJanitor \/ JanitorExit \/ UNCHANGED vars
  PROVE  CacheInv'
  BY CacheAssumption
     DEF CacheInv, TypeOK, CallStates, EntriesInv, OutcomeInv, InstanceInv, SourceInv,
         FlightInv, LiveInstanceOwned, ClosedInv, NoTTLInv, Building, InFlight,
         IsReady, KeyOf, Tick, MarkClosed, StopJanitor, JanitorExit, vars, entryVars,
         callVars, timeVars, historyVars

\* Removing a set of keys whose entries are built, or with no build in flight,
\* keeps the invariant: what leaves the map is cancelled on the way.
LEMMA RemovalPreserves ==
  ASSUME CacheInv, NEW K,
         \A k \in K : k \in Keys /\ (entries[k] # NoRequest => outcome[entries[k]] = "app"),
         NEW S, \A k \in K : entries[k] # NoRequest => entries[k] \in S,
         entries' = Without(entries, K),
         inst' = CancelBuilt(S),
         UNCHANGED <<lastUsed, readyAt, outcome, callVars, overtaken, peak, clock>>,
         janitor' = janitor,
         tickDue' \in Nat,
         closer' \in {"open", "marked", "stopping", "closed"},
         closer' = "closed" /\ closer # "closed" => builds = {} /\ K = Keys
  PROVE  CacheInv'
<1>1. /\ entries' \in [Keys -> Requests \cup {NoRequest}]
      /\ \A k \in Keys : entries'[k] = IF k \in K THEN NoRequest ELSE entries[k]
  BY WithoutRemoves DEF CacheInv, TypeOK
<1>2. /\ inst' \in [Requests -> {"none", "live", "cancelled"}]
      /\ \A r \in Requests : inst'[r] = IF r \in S /\ outcome[r] = "app"
                                        THEN "cancelled" ELSE inst[r]
  BY CancelBuiltCancels DEF CacheInv
<1>3. \A r \in Requests : KeyOf(r) \in Keys
  BY KeysSeparateCredentials DEF CacheInv
<1> QED
  BY <1>1, <1>2, <1>3, CacheAssumption
     DEF CacheInv, TypeOK, CallStates, EntriesInv, OutcomeInv, InstanceInv, SourceInv,
         FlightInv, LiveInstanceOwned, ClosedInv, NoTTLInv, Building, InFlight,
         IsReady, KeyOf, callVars

\* A sweep takes ready entries, which are built.
LEMMA SweepPreserves ==
  ASSUME CacheInv, Sweep
  PROVE  CacheInv'
<1>1. \A k \in Swept : k \in Keys /\ outcome[entries[k]] = "app"
  BY DEF CacheInv, TypeOK, EntriesInv, OutcomeInv, Swept, Occupied
<1>2. tickDue' \in Nat
  BY CacheAssumption DEF CacheInv, TypeOK, Sweep, NextTick
<1> QED
  BY <1>1, <1>2, RemovalPreserves DEF Sweep, CacheInv, TypeOK, historyVars

\* With no build in flight every entry is built, and Close cancels it.
LEMMA DrainPreserves ==
  ASSUME CacheInv, Drain
  PROVE  CacheInv'
<1>1. \A k \in Keys : entries[k] # NoRequest =>
        /\ entries[k] \in Cached
        /\ outcome[entries[k]] = "app"
  BY DEF CacheInv, TypeOK, CallStates, EntriesInv, OutcomeInv, FlightInv, Cached,
         Drain, BuildsDone, Building, InFlight
<1> QED
  BY <1>1, RemovalPreserves DEF Drain, BuildsDone, CacheInv, TypeOK, timeVars, historyVars

\* Whatever step is taken, the invariant carries over.
LEMMA CacheInvStep ==
  ASSUME CacheInv, [Next]_vars
  PROVE  CacheInv'
<1>1. ASSUME NEW r \in Requests, GetClosed(r) \/ GetHit(r) \/ GetMiss(r) PROVE CacheInv'
  BY <1>1, GetClosedPreserves, GetHitPreserves, GetMissPreserves
<1>2. ASSUME NEW r \in Requests, GetStep(r) PROVE CacheInv'
  BY <1>2, InitOkPreserves, PublishPreserves, FailPreserves, AnnouncePreserves,
     ReturnPreserves, AwaitReadyPreserves DEF GetStep
<1>3. ASSUME NEW r \in Requests, AwaitCancelled(r) PROVE CacheInv'
  BY <1>3, AwaitCancelledPreserves
<1>4. ASSUME Sweep PROVE CacheInv'
  BY <1>4, SweepPreserves
<1>5. ASSUME CloseStep PROVE CacheInv'
  BY <1>5, IdlePreserves, DrainPreserves DEF CloseStep
<1>6. ASSUME Tick \/ MarkClosed \/ JanitorExit \/ Terminated \/ UNCHANGED vars
      PROVE CacheInv'
  BY <1>6, IdlePreserves DEF Terminated
<1> QED
  BY <1>1, <1>2, <1>3, <1>4, <1>5, <1>6 DEF Next

-----------------------------------------------------------------------------
(* The theorems                                                            *)

\* The inductive invariant holds in every reachable state: each step of get, of
\* the janitor and of Close preserves it.
THEOREM CacheInvariance == Spec => []CacheInv
<1>1. CacheInv /\ [Next]_vars => CacheInv'
  BY CacheInvStep
<1> QED
  BY <1>1, InitEstablishes, PTL DEF Spec

\* Every variable keeps its type, and get returns one of its four outcomes.
THEOREM TypeCorrect == Spec => []TypeOK
<1>1. CacheInv => TypeOK
  BY DEF CacheInv
<1> QED
  BY <1>1, CacheInvariance, PTL

\* No call is ever served an instance built with another call's credential.
THEOREM CredentialsIsolated == Spec => []CredentialIsolation
<1>1. CacheInv => CredentialIsolation
  BY KeysSeparateCredentials DEF CacheInv, SourceInv, InstanceInv, CredentialIsolation
<1> QED
  BY <1>1, CacheInvariance, PTL

\* Two builds of one key are in flight only when the TTL overtook one.
THEOREM SingleFlightHolds == Spec => []SingleFlight
<1>1. CacheInv => SingleFlight
  BY DEF CacheInv, FlightInv, SingleFlight
<1> QED
  BY <1>1, CacheInvariance, PTL

\* Whoever could cancel a running instance exists until it is cancelled.
THEOREM LiveInstancesOwned == Spec => []LiveInstanceOwned
<1>1. CacheInv => LiveInstanceOwned
  BY DEF CacheInv
<1> QED
  BY <1>1, CacheInvariance, PTL

\* After Close nothing runs but what the TTL orphaned.
THEOREM CloseReleases == Spec => []CloseReleasesAll
<1>1. CacheInv => CloseReleasesAll
  BY KeysSeparateCredentials, CacheAssumption
     DEF CacheInv, TypeOK, OutcomeInv, LiveInstanceOwned, ClosedInv, CloseReleasesAll,
         Building, InFlight
<1> QED
  BY <1>1, CacheInvariance, PTL

\* A failed build is in no later caller's way.
THEOREM FailuresNotCached == Spec => []FailureNotCached
<1>1. CacheInv => FailureNotCached
  BY CacheAssumption DEF CacheInv, EntriesInv, FailureNotCached, Cached
<1> QED
  BY <1>1, CacheInvariance, PTL

\* With time-based eviction disabled the comments of cache.go hold as written:
\* no build is ever orphaned, so Close leaves nothing running.
THEOREM NoOrphanWithoutTTL == ASSUME TTL = 0 PROVE Spec => []NoBuildOrphaned
<1>1. CacheInv => NoBuildOrphaned
  BY DEF CacheInv, NoTTLInv, LiveInstanceOwned, NoBuildOrphaned
<1> QED
  BY <1>1, CacheInvariance, PTL

-----------------------------------------------------------------------------
(* The bounds on the map and on how long a credential stays                *)

\* What is in the map and not announced is a build of a call that is still in
\* builds; and what was ever in flight at once is remembered by peak.
ReadyInv ==
  /\ \A k \in Keys : entries[k] # NoRequest =>
       IsReady(entries[k]) \/ pc[entries[k]] \in {"building", "publishing", "announcing"}
  /\ Cardinality(builds) <= peak

\* The next tick is never further than a TTL away, a due sweep not later than
\* JanitorLag, and a built entry is met by a tick before its time is over.
JanitorInv ==
  /\ \A r \in Requests : lastUsed[r] <= clock
  /\ janitor = "running" =>
       /\ TTL > 0
       /\ clock <= tickDue + JanitorLag
       /\ tickDue <= clock + TTL
       /\ \A r \in Cached : IsReady(r) =>
            tickDue <= Larger(lastUsed[r] + 2 * TTL, readyAt[r] + TTL)

BoundInv == CacheInv /\ ReadyInv /\ JanitorInv /\ MapWithinPeak

\* A map whose entries lie under their own keys is no larger than any set of
\* calls that contains them.
LEMMA OccupiedBounded ==
  ASSUME NEW m, NEW B \in SUBSET Requests,
         \A k \in Occupied(m) : k = KeyOf(m[k]) /\ m[k] \in B
  PROVE  IsFiniteSet(Occupied(m)) /\ Cardinality(Occupied(m)) <= Cardinality(B)
<1> DEFINE f == [k \in Occupied(m) |-> m[k]]
<1>1. f \in Injection(Occupied(m), B)
  BY DEF Injection, IsInjective
<1>2. IsFiniteSet(B)
  BY CacheAssumption, FS_Subset
<1> QED
  BY <1>1, <1>2, FS_Injection

\* The map is finite in every state of the invariant.
LEMMA MapFinite ==
  ASSUME CacheInv
  PROVE  IsFiniteSet(Occupied(entries)) /\ Cardinality(Occupied(entries)) \in Nat
<1>1. \A k \in Occupied(entries) : k = KeyOf(entries[k]) /\ entries[k] \in Requests
  BY DEF CacheInv, TypeOK, EntriesInv, Occupied
<1> QED
  BY <1>1, OccupiedBounded, FS_CardinalityType

\* A map that only loses entries stays within its bound.
LEMMA ShrinkingMap ==
  ASSUME CacheInv, MapWithinPeak, peak' = peak, Occupied(entries') \subseteq Occupied(entries)
  PROVE  MapWithinPeak'
<1>1. /\ Cardinality(Occupied(entries')) <= Cardinality(Occupied(entries))
      /\ Cardinality(Occupied(entries')) \in Nat
  BY MapFinite, FS_Subset, FS_CardinalityType
<1> QED
  BY <1>1, MapFinite, CacheAssumption DEF MapWithinPeak, Larger, CacheInv, TypeOK, Occupied

\* Eviction removes one entry of a map that is over its cap, unless everything
\* in it is a build in flight, and then the map is no larger than builds.
LEMMA GetMissBounded ==
  ASSUME BoundInv, CacheInv', NEW r \in Requests, GetMiss(r)
  PROVE  ReadyInv' /\ MapWithinPeak'
<1> DEFINE k == KeyOf(r)
           inserted == [entries EXCEPT ![k] = r]
<1>0. /\ CacheInv /\ TypeOK /\ EntriesInv /\ OutcomeInv /\ ReadyInv /\ MapWithinPeak
      /\ k \in Keys /\ NoRequest \notin Requests
  BY KeysSeparateCredentials, CacheAssumption DEF BoundInv, CacheInv
<1>1. /\ pc[r] = "idle" /\ pc' = [pc EXCEPT ![r] = "building"]
      /\ builds' = builds \cup {r} /\ peak' = Larger(peak, Cardinality(builds'))
      /\ UNCHANGED <<readyAt, want>>
  BY DEF GetMiss
<1>2. PICK victims \in Victims(inserted) : entries' = Without(inserted, victims)
  BY DEF GetMiss
<1>3. /\ inserted \in [Keys -> Requests \cup {NoRequest}]
      /\ \A j \in Keys : inserted[j] = IF j = k THEN r ELSE entries[j]
  BY <1>0 DEF TypeOK
<1>4. /\ entries' \in [Keys -> Requests \cup {NoRequest}]
      /\ \A j \in Keys : entries'[j] = IF j \in victims THEN NoRequest ELSE inserted[j]
  BY <1>2, <1>3, WithoutRemoves
<1>5. /\ IsFiniteSet(builds) /\ IsFiniteSet(builds')
      /\ Cardinality(builds') \in Nat /\ peak' \in Nat /\ peak \in Nat
      /\ Cardinality(builds') <= peak' /\ peak <= peak'
  <2>1. IsFiniteSet(builds) /\ IsFiniteSet(builds')
    BY <1>0, <1>1, CacheAssumption, FS_Subset DEF TypeOK
  <2>2. Cardinality(builds') \in Nat /\ peak \in Nat
    BY <2>1, <1>0, FS_CardinalityType DEF TypeOK
  <2> QED
    BY <2>1, <2>2, <1>1 DEF Larger
<1>6. ReadyInv'
  <2>1. ASSUME NEW j \in Keys, entries'[j] # NoRequest
        PROVE  \/ readyAt'[entries'[j]] >= 0
               \/ pc'[entries'[j]] \in {"building", "publishing", "announcing"}
    <3>1. CASE j = k
      BY <2>1, <3>1, <1>0, <1>1, <1>3, <1>4 DEF TypeOK
    <3>2. CASE j # k
      <4>1. entries'[j] = entries[j] /\ entries[j] \in Requests
        BY <2>1, <3>2, <1>0, <1>3, <1>4 DEF TypeOK
      <4>2. IsReady(entries[j]) \/ pc[entries[j]] \in {"building", "publishing", "announcing"}
        BY <2>1, <4>1, <1>0 DEF ReadyInv
      <4>3. pc'[entries[j]] = IF entries[j] = r THEN "building" ELSE pc[entries[j]]
        BY <4>1, <1>0, <1>1 DEF TypeOK
      <4> QED
        BY <4>1, <4>2, <4>3, <1>1 DEF IsReady
    <3> QED
      BY <3>1, <3>2
  <2> QED
    BY <2>1, <1>5 DEF ReadyInv, IsReady
<1> HIDE DEF k, inserted
<1>7. ASSUME MaxSize > 0
      PROVE  Cardinality(Occupied(entries')) <= Larger(MaxSize, peak')
  <2>1. /\ IsFiniteSet(Occupied(entries)) /\ Cardinality(Occupied(entries)) \in Nat
        /\ Cardinality(Occupied(entries)) <= Larger(MaxSize, peak)
    BY <1>0, <1>7, MapFinite DEF MapWithinPeak
  <2>2. Occupied(inserted) = Occupied(entries) \cup {k}
    BY <1>0, <1>3 DEF Occupied
  <2>3. /\ IsFiniteSet(Occupied(inserted))
        /\ Cardinality(Occupied(inserted)) \in Nat
        /\ Cardinality(Occupied(inserted)) <= Cardinality(Occupied(entries)) + 1
    <3>1. /\ IsFiniteSet(Occupied(entries) \cup {k})
          /\ Cardinality(Occupied(entries) \cup {k}) =
               IF k \in Occupied(entries) THEN Cardinality(Occupied(entries))
                                          ELSE Cardinality(Occupied(entries)) + 1
      BY <2>1, FS_AddElement
    <3> QED
      BY <2>1, <2>2, <3>1
  <2>4. Occupied(entries') = Occupied(inserted) \ victims
    BY <1>3, <1>4 DEF Occupied
  <2>5. CASE Cardinality(Occupied(inserted)) <= MaxSize
    <3>1. Cardinality(Occupied(entries')) <= Cardinality(Occupied(inserted))
      BY <2>3, <2>4, FS_Subset
    <3>2. Cardinality(Occupied(entries')) \in Nat
      BY <2>3, <2>4, FS_Subset, FS_CardinalityType
    <3> QED
      BY <2>3, <2>5, <3>1, <3>2, <1>5, CacheAssumption DEF Larger
  <2>6. CASE Cardinality(Occupied(inserted)) > MaxSize /\ Evictable(inserted) # {}
    <3>1. PICK v : victims = {v} /\ v \in Occupied(inserted)
      BY <2>6, <1>7, <1>2 DEF Victims, LeastRecentlyUsed, Evictable
    <3>2. Cardinality(Occupied(entries')) = Cardinality(Occupied(inserted)) - 1
      BY <3>1, <2>3, <2>4, FS_RemoveElement
    <3> QED
      BY <2>1, <2>3, <3>2, <1>5, CacheAssumption DEF Larger
  <2>7. CASE Evictable(inserted) = {}
    <3>1. \A j \in Occupied(entries') :
            j = KeyOf(entries'[j]) /\ entries'[j] \in builds'
      <4> TAKE j \in Occupied(entries')
      <4>1. j \in Keys /\ entries'[j] # NoRequest /\ entries'[j] = inserted[j]
        BY <1>4 DEF Occupied
      <4>2. ~IsReady(entries'[j])
        BY <4>1, <2>7 DEF Evictable, Occupied
      <4>3. pc'[entries'[j]] \in Building /\ entries'[j] \in Requests
        BY <4>1, <4>2, <1>1, <1>4, <1>6 DEF ReadyInv, IsReady, Building
      <4>4. entries'[j] \in builds'
        BY <4>3 DEF CacheInv, OutcomeInv
      <4>5. j = KeyOf(entries'[j])
        BY <4>1, <1>1 DEF CacheInv, EntriesInv, KeyOf
      <4> QED
        BY <4>4, <4>5
    <3>2. builds' \in SUBSET Requests
      BY DEF CacheInv, TypeOK
    <3>3. /\ Cardinality(Occupied(entries')) <= Cardinality(builds')
          /\ IsFiniteSet(Occupied(entries'))
      BY <3>1, <3>2, OccupiedBounded
    <3>4. Cardinality(Occupied(entries')) \in Nat
      BY <3>3, FS_CardinalityType
    <3> QED
      BY <3>3, <3>4, <1>5, CacheAssumption DEF Larger
  <2> QED
    BY <2>3, <2>5, <2>6, <2>7, CacheAssumption
<1> QED
  BY <1>6, <1>7 DEF MapWithinPeak

\* Every other step keeps the map or takes entries away, and a call leaves
\* builds only once its entry is ready.
LEMMA OtherStepsBounded ==
  ASSUME BoundInv, CacheInv',
         \/ \E r \in Requests : \/ GetClosed(r) \/ GetHit(r) \/ GetStep(r)
                                \/ AwaitCancelled(r)
         \/ Tick \/ Sweep \/ MarkClosed \/ JanitorExit \/ CloseStep \/ UNCHANGED vars
  PROVE  ReadyInv' /\ MapWithinPeak'
<1>0. /\ CacheInv /\ TypeOK /\ EntriesInv /\ OutcomeInv /\ ReadyInv /\ MapWithinPeak
      /\ \A r \in Requests : KeyOf(r) \in Keys
  BY KeysSeparateCredentials DEF BoundInv, CacheInv
<1>1. peak' = peak /\ builds' \in SUBSET builds
  BY DEF GetClosed, GetHit, GetStep, InitOk, Publish, Fail, Announce, Return, AwaitReady,
     AwaitCancelled, Tick, Sweep, MarkClosed, JanitorExit, CloseStep, StopJanitor, Drain,
     BuildsWithout, vars, callVars, historyVars
<1>2. \A k \in Keys : entries'[k] \in {entries[k], NoRequest}
  <2>1. CASE \E r \in Requests : Fail(r)
    BY <2>1, <1>0 DEF Fail, DropOwn, TypeOK
  <2>2. CASE Sweep \/ Drain
    BY <2>2, <1>0, WithoutRemoves DEF Sweep, Drain, TypeOK
  <2>3. CASE entries' = entries
    BY <2>3
  <2> QED
    BY <2>1, <2>2, <2>3
    DEF GetClosed, GetHit, GetStep, InitOk, Publish, Announce, Return, AwaitReady,
        AwaitCancelled, Tick, MarkClosed, JanitorExit, CloseStep, StopJanitor, vars, entryVars
<1>3. MapWithinPeak'
  BY <1>0, <1>1, <1>2, ShrinkingMap DEF Occupied
<1>4. Cardinality(builds') <= peak'
  <2>1. IsFiniteSet(builds)
    BY <1>0, CacheAssumption, FS_Subset DEF TypeOK
  <2>2. /\ Cardinality(builds') <= Cardinality(builds)
        /\ Cardinality(builds') \in Nat /\ Cardinality(builds) \in Nat
    BY <2>1, <1>1, FS_Subset, FS_CardinalityType
  <2> QED
    BY <2>2, <1>0, <1>1 DEF ReadyInv, TypeOK
<1>5. ASSUME NEW k \in Keys, entries'[k] # NoRequest
      PROVE  \/ readyAt'[entries'[k]] >= 0
             \/ pc'[entries'[k]] \in {"building", "publishing", "announcing"}
  <2> DEFINE e == entries[k]
  <2>1. /\ entries'[k] = e /\ e \in Requests
        /\ readyAt[e] >= 0 \/ pc[e] \in {"building", "publishing", "announcing"}
        /\ outcome'[e] # "err"
    BY <1>0, <1>2, <1>5 DEF TypeOK, ReadyInv, IsReady, CacheInv, EntriesInv
  <2> HIDE DEF e
  <2>2. CASE \E r \in Requests : GetClosed(r) \/ GetHit(r) \/ AwaitReady(r) \/ AwaitCancelled(r)
    BY <2>1, <2>2, <1>0 DEF TypeOK, GetClosed, GetHit, AwaitReady, AwaitCancelled, entryVars
  <2>3. CASE \E r \in Requests : InitOk(r) \/ Publish(r) \/ Fail(r)
    BY <2>1, <2>3, <1>0 DEF TypeOK, InitOk, Publish, Fail
  <2>4. CASE \E r \in Requests : Announce(r)
    BY <2>1, <2>4, <1>0 DEF TypeOK, Announce, WithReady
  <2>5. CASE \E r \in Requests : Return(r)
    BY <2>1, <2>5, <1>0 DEF TypeOK, Return, entryVars
  <2>6. CASE UNCHANGED <<readyAt, pc>>
    BY <2>1, <2>6
  <2> QED
    BY <2>1, <2>2, <2>3, <2>4, <2>5, <2>6
    DEF GetStep, Tick, Sweep, MarkClosed, JanitorExit, CloseStep, StopJanitor, Drain,
        vars, entryVars, callVars
<1> QED
  BY <1>3, <1>4, <1>5 DEF ReadyInv, IsReady

\* Time: a tick is a TTL after the one before, and what a sweep leaves was used
\* at most a TTL ago.
LEMMA JanitorStep ==
  ASSUME BoundInv, CacheInv', [Next]_vars
  PROVE  JanitorInv'
<1>0. /\ CacheInv /\ TypeOK /\ EntriesInv /\ OutcomeInv /\ JanitorInv
      /\ clock \in Nat /\ tickDue \in Nat
      /\ lastUsed \in [Requests -> Nat] /\ readyAt \in [Requests -> Nat \cup {-1}]
      /\ TTL \in Nat /\ JanitorLag \in Nat /\ NoRequest \notin Requests
      /\ \A r \in Requests : KeyOf(r) \in Keys
  BY KeysSeparateCredentials, CacheAssumption DEF BoundInv, CacheInv, TypeOK
<1>1. /\ clock' \in Nat /\ clock' >= clock
      /\ lastUsed' \in [Requests -> Nat] /\ readyAt' \in [Requests -> Nat \cup {-1}]
      /\ \A r \in Requests : lastUsed'[r] >= lastUsed[r] /\ lastUsed'[r] <= clock'
  <2>1. CASE \E r \in Requests : GetHit(r) \/ GetMiss(r)
    BY <2>1, <1>0 DEF GetHit, GetMiss, JanitorInv, timeVars, TypeOK, CacheInv
  <2>2. CASE UNCHANGED lastUsed /\ clock' \in {clock, clock + 1}
    BY <2>2, <1>0 DEF JanitorInv, TypeOK, CacheInv
  <2> QED
    BY <2>1, <2>2
    DEF Next, GetClosed, GetStep, InitOk, Publish, Fail, Announce, Return, AwaitReady,
        AwaitCancelled, Tick, Sweep, MarkClosed, JanitorExit, CloseStep, StopJanitor, Drain,
        Terminated, vars, entryVars, timeVars
<1>2. ASSUME janitor' = "running"
      PROVE  /\ janitor = "running" /\ TTL > 0
             /\ clock' <= tickDue' + JanitorLag
             /\ tickDue' <= clock' + TTL
  <2>1. janitor = "running"
    BY <1>2 DEF Next, GetClosed, GetHit, GetMiss, GetStep, InitOk, Publish, Fail, Announce,
        Return, AwaitReady, AwaitCancelled, Tick, Sweep, MarkClosed, JanitorExit, CloseStep,
        StopJanitor, Drain, Terminated, vars, timeVars
  <2>2. TTL > 0 /\ clock <= tickDue + JanitorLag /\ tickDue <= clock + TTL
    BY <2>1, <1>0 DEF JanitorInv
  <2>3. CASE Tick
    BY <2>1, <2>2, <2>3, <1>0 DEF Tick
  <2>4. CASE Sweep
    BY <2>1, <2>2, <2>4, <1>0 DEF Sweep, NextTick
  <2>5. CASE UNCHANGED <<clock, tickDue>>
    BY <2>1, <2>2, <2>5
  <2> QED
    BY <2>1, <2>2, <2>3, <2>4, <2>5
    DEF Next, GetClosed, GetHit, GetMiss, GetStep, InitOk, Publish, Fail, Announce, Return,
        AwaitReady, AwaitCancelled, MarkClosed, JanitorExit, CloseStep, StopJanitor, Drain,
        Terminated, vars, timeVars
<1>3. ASSUME janitor' = "running", NEW e \in Requests, e \in Cached', readyAt'[e] >= 0
      PROVE  tickDue' <= Larger(lastUsed'[e] + 2 * TTL, readyAt'[e] + TTL)
  <2>1. janitor = "running" /\ TTL > 0 /\ tickDue' \in Nat
    BY <1>2, <1>3 DEF CacheInv, TypeOK
  <2>2. CASE \E r \in Requests : Announce(r) /\ e = r
    <3>1. readyAt'[e] = clock /\ tickDue' = tickDue
      BY <2>2, <1>0 DEF Announce, WithReady, timeVars
    <3> QED
      BY <3>1, <2>1, <1>0, <1>1 DEF JanitorInv, Larger
  <2>3. CASE Sweep
    <3>1. /\ clock >= tickDue /\ tickDue' = tickDue + TTL
          /\ entries' = Without(entries, Swept) /\ UNCHANGED <<lastUsed, readyAt>>
      BY <2>3 DEF Sweep, NextTick
    <3>2. PICK k \in Keys : entries'[k] = e
      BY <1>3 DEF Cached
    <3>3. entries[k] = e /\ k \notin Swept
      BY <3>1, <3>2, <1>0, WithoutRemoves DEF TypeOK
    <3>4. clock - lastUsed[e] <= TTL
      BY <3>1, <3>2, <3>3, <2>1, <1>0, <1>3 DEF Swept, Occupied, IsReady, Expired
    <3> QED
      BY <3>1, <3>4, <2>1, <1>0 DEF Larger
  <2>4. CASE e \in Cached /\ readyAt'[e] = readyAt[e] /\ tickDue' = tickDue
    <3>1. tickDue <= Larger(lastUsed[e] + 2 * TTL, readyAt[e] + TTL)
      BY <2>1, <2>4, <1>0, <1>3 DEF JanitorInv, IsReady
    <3> QED
      BY <3>1, <2>4, <1>0, <1>1 DEF Larger
  <2>5. CASE \E r \in Requests : GetMiss(r) /\ e = r
    BY <2>5, <1>0, <1>3 DEF GetMiss, OutcomeInv, IsReady
  <2>6. e \in Cached \/ \E r \in Requests : GetMiss(r) /\ e = r
    <3>1. PICK k \in Keys : entries'[k] = e
      BY <1>3 DEF Cached
    <3>2. CASE \E r \in Requests : GetMiss(r)
      <4>1. PICK r \in Requests : GetMiss(r)
        BY <3>2
      <4>2. PICK victims : entries' = Without([entries EXCEPT ![KeyOf(r)] = r], victims)
        BY <4>1 DEF GetMiss
      <4>3. /\ KeyOf(r) \in Keys
            /\ [entries EXCEPT ![KeyOf(r)] = r] \in [Keys -> Requests \cup {NoRequest}]
        BY <1>0 DEF TypeOK
      <4>4. [entries EXCEPT ![KeyOf(r)] = r][k] = e
        BY <3>1, <4>2, <4>3, <1>0 DEF Without
      <4>5. entries[k] = e \/ r = e
        BY <4>3, <4>4, <1>0 DEF TypeOK
      <4> QED
        BY <4>1, <4>5 DEF Cached
    <3>3. CASE \E r \in Requests : Fail(r)
      BY <3>1, <3>3, <1>0 DEF Fail, DropOwn, TypeOK, Cached
    <3>4. CASE Sweep \/ Drain
      BY <3>1, <3>4, <1>0, WithoutRemoves DEF Sweep, Drain, TypeOK, Cached
    <3>5. CASE entries' = entries
      BY <3>1, <3>5 DEF Cached
    <3> QED
      BY <3>2, <3>3, <3>4, <3>5
      DEF Next, GetClosed, GetHit, GetStep, InitOk, Publish, Announce, Return, AwaitReady,
          AwaitCancelled, Tick, MarkClosed, JanitorExit, CloseStep, StopJanitor, Terminated,
          vars, entryVars
  <2>7. CASE ~Sweep /\ ~\E r \in Requests : Announce(r) /\ e = r
    <3>1. readyAt'[e] = readyAt[e] /\ tickDue' = tickDue
      BY <2>7, <1>0
      DEF Next, GetClosed, GetHit, GetMiss, GetStep, InitOk, Publish, Fail, Announce, Return,
          WithReady, AwaitReady, AwaitCancelled, Tick, MarkClosed, JanitorExit, CloseStep,
          StopJanitor, Drain, Terminated, vars, entryVars, timeVars
    <3> QED
      BY <3>1, <2>4, <2>5, <2>6
  <2> QED
    BY <2>2, <2>3, <2>7
<1> QED
  BY <1>1, <1>2, <1>3 DEF JanitorInv, IsReady, Cached

\* The bounds hold at the start and survive every step.
LEMMA BoundInvStep ==
  ASSUME BoundInv, [Next]_vars
  PROVE  BoundInv'
<1>1. CacheInv'
  BY CacheInvStep DEF BoundInv
<1>2. JanitorInv'
  BY <1>1, JanitorStep
<1>3. ReadyInv' /\ MapWithinPeak'
  BY <1>1, GetMissBounded, OtherStepsBounded DEF Next, Terminated
<1> QED
  BY <1>1, <1>2, <1>3 DEF BoundInv

\* The map, its builds and the janitor's ticker keep their bounds.
THEOREM BoundInvariance == Spec => []BoundInv
<1>1. Init => BoundInv
  <2> SUFFICES ASSUME Init PROVE ReadyInv /\ JanitorInv /\ MapWithinPeak
    BY InitEstablishes DEF BoundInv
  <2>1. Occupied(entries) = {} /\ Cached = {}
    BY CacheAssumption DEF Init, Occupied, Cached
  <2>2. Cardinality(builds) = 0 /\ Cardinality(Occupied(entries)) = 0
    BY <2>1, FS_EmptySet DEF Init
  <2> QED
    BY <2>1, <2>2, CacheAssumption
    DEF Init, ReadyInv, JanitorInv, MapWithinPeak, Occupied, Larger
<1>2. BoundInv /\ [Next]_vars => BoundInv'
  BY BoundInvStep
<1> QED
  BY <1>1, <1>2, PTL DEF Spec

\* Builds in flight are all that ever pushes the map over its cap.
THEOREM MapStaysWithinPeak == Spec => []MapWithinPeak
<1>1. BoundInv => MapWithinPeak
  BY DEF BoundInv
<1> QED
  BY <1>1, BoundInvariance, PTL

\* A credential nobody asks for leaves memory in bounded time.
THEOREM IdleCredentialsReleased == Spec => []IdleCredentialReleased
<1>1. ASSUME BoundInv PROVE IdleCredentialReleased
  <2> SUFFICES ASSUME janitor = "running", NEW r \in Cached, IsReady(r)
               PROVE  clock <= Larger(lastUsed[r] + 2 * TTL, readyAt[r] + TTL) + JanitorLag
    BY DEF IdleCredentialReleased
  <2>1. /\ clock <= tickDue + JanitorLag
        /\ tickDue <= Larger(lastUsed[r] + 2 * TTL, readyAt[r] + TTL)
    BY <1>1 DEF BoundInv, JanitorInv
  <2>2. /\ clock \in Nat /\ tickDue \in Nat /\ TTL \in Nat /\ JanitorLag \in Nat
        /\ lastUsed[r] \in Nat /\ readyAt[r] \in Nat \cup {-1}
    BY <1>1, CacheAssumption DEF BoundInv, CacheInv, TypeOK, Cached
  <2> QED
    BY <2>1, <2>2 DEF Larger
<1> QED
  BY <1>1, BoundInvariance, PTL

\* A lookup takes a built entry from the map because it is past its TTL, or as
\* the one entry that goes, least recently used, for the one it inserts.
LEMMA MissRemoves ==
  ASSUME CacheInv, NEW r \in Requests, GetMiss(r),
         NEW e \in Cached, IsReady(e), e \notin Cached'
  PROVE  (TTL > 0 /\ clock - lastUsed[e] > TTL) \/ MakesRoom(r, e)
<1> DEFINE k == KeyOf(r)
           inserted == [entries EXCEPT ![k] = r]
<1>0. /\ TypeOK /\ k \in Keys /\ NoRequest \notin Requests /\ e \in Requests
      /\ entries \in [Keys -> Requests \cup {NoRequest}]
      /\ pc[r] = "idle" /\ pc'[r] = "building"
  BY KeysSeparateCredentials, CacheAssumption DEF CacheInv, GetMiss, TypeOK, Cached
<1>1. PICK j \in Keys : entries[j] = e
  BY DEF Cached
<1>2. CASE j = k
  <2>1. Expired(e)
    BY <1>0, <1>1, <1>2 DEF GetMiss
  <2> QED
    BY <2>1 DEF Expired
<1>3. CASE j # k
  <2>1. inserted[j] = e
    BY <1>0, <1>1, <1>3
  <2>2. PICK victims \in Victims(inserted) : entries' = Without(inserted, victims)
    BY DEF GetMiss
  <2>3. entries'[j] # e
    BY <1>0, <1>1 DEF Cached
  <2>4. j \in victims
    <3> HIDE DEF inserted
    <3> QED
      BY <1>1, <2>1, <2>2, <2>3 DEF Without
  <2>5. /\ MaxSize > 0 /\ Cardinality(Occupied(inserted)) > MaxSize
        /\ j \in LeastRecentlyUsed(inserted)
    <3> HIDE DEF inserted
    <3> QED
      BY <2>2, <2>4 DEF Victims
  <2>6. Occupied(inserted) = Occupied(entries) \cup {k}
    BY <1>0 DEF Occupied
  <2>7. ASSUME NEW f \in Cached \ {entries[k]}, IsReady(f)
        PROVE  lastUsed[e] <= lastUsed[f]
    <3>1. PICK i \in Keys : entries[i] = f /\ i # k
      BY DEF Cached
    <3>2. inserted[i] = f /\ f # NoRequest
      BY <1>0, <3>1 DEF Cached
    <3>3. i \in Evictable(inserted)
      BY <2>7, <3>1, <3>2 DEF Evictable, Occupied
    <3> HIDE DEF inserted
    <3> QED
      BY <2>1, <2>5, <3>2, <3>3 DEF LeastRecentlyUsed
  <2> HIDE DEF inserted
  <2> QED
    BY <1>0, <2>5, <2>6, <2>7 DEF MakesRoom, k
<1> QED
  BY <1>2, <1>3

\* While the cache is open an entry that was built leaves the map only once it
\* has been idle for longer than the TTL, whatever lookup or sweep removes it, or
\* as the least recently used one, for an insert the map has no room for.
THEOREM LeaveOnlyForCause == Spec => EntriesLeaveForCause
<1>1. ASSUME CacheInv, [Next]_vars, closer = "open",
             NEW e \in Cached, IsReady(e), e \notin Cached'
      PROVE  \/ TTL > 0 /\ clock - lastUsed[e] > TTL
             \/ \E r \in Requests : MakesRoom(r, e)
  <2>0. /\ TypeOK /\ EntriesInv /\ OutcomeInv /\ NoRequest \notin Requests
        /\ e \in Requests /\ \A r \in Requests : KeyOf(r) \in Keys
    BY <1>1, KeysSeparateCredentials, CacheAssumption DEF CacheInv, Cached
  <2>1. PICK k \in Keys : entries[k] = e
    BY <1>1 DEF Cached
  <2>2. entries'[k] # e
    BY <2>1, <2>0, <1>1 DEF Cached
  <2>3. CASE \E r \in Requests : GetMiss(r)
    <3>1. PICK r \in Requests : GetMiss(r)
      BY <2>3
    <3> QED
      BY <1>1, <3>1, MissRemoves
  <2>4. CASE \E r \in Requests : Fail(r)
    BY <2>4, <2>0, <2>1, <2>2, <1>1 DEF Fail, DropOwn, OutcomeInv, TypeOK
  <2>5. CASE Sweep
    <3>1. k \in Swept
      BY <2>5, <2>0, <2>1, <2>2, WithoutRemoves DEF Sweep, TypeOK
    <3> QED
      BY <3>1, <2>1 DEF Swept, Expired
  <2>6. CASE entries' = entries
    BY <2>6, <2>1, <2>2
  <2> QED
    BY <1>1, <2>3, <2>4, <2>5, <2>6
    DEF Next, GetClosed, GetHit, GetStep, InitOk, Publish, Announce, Return, AwaitReady,
        AwaitCancelled, Tick, MarkClosed, JanitorExit, CloseStep, StopJanitor, Drain,
        Terminated, vars, entryVars
<1>2. CacheInv /\ [Next]_vars =>
        [closer = "open" =>
           \A e \in Cached :
             IsReady(e) /\ e \notin Cached' =>
               \/ TTL > 0 /\ clock - lastUsed[e] > TTL
               \/ \E r \in Requests : MakesRoom(r, e)]_vars
  BY <1>1
<1> QED
  BY <1>2, CacheInvariance, PTL DEF Spec, EntriesLeaveForCause

=============================================================================
