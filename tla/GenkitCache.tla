---------------------------- MODULE GenkitCache ----------------------------
(***************************************************************************)
(* The credential-keyed cache of provider instances                        *)
(* (internal/proxy/cache.go): concurrent calls of get share one build per  *)
(* key, entries leave by idle TTL (lookup or janitor), by LRU eviction or  *)
(* by Close, and leaving is what cancels the instance an entry holds.      *)
(*                                                                         *)
(* A request is one call of get and also names the entry that call         *)
(* inserts, should it miss: an entry is never inserted twice.  A critical  *)
(* section under GenkitCache.mu is one action; what the code does outside  *)
(* the lock (the build, the close of ready, the wait) is a step of its own.*)
(***************************************************************************)
EXTENDS Integers, FiniteSets

CONSTANTS
  Requests,    \* calls of get
  Providers,   \* what providerOf yields for a supported model name
  ApiKeys,     \* API keys the resolver hands to get
  NoRequest,   \* "no entry": the key is absent from the map
  TTL,         \* GENKIT_CACHE_TTL in clock units, 0 disables it
  MaxSize,     \* GENKIT_CACHE_MAX_SIZE, 0 disables the cap
  MaxTime,     \* bound on the clock
  JanitorLag   \* how late the scheduler may run a due sweep

ASSUME CacheAssumption ==
  /\ IsFiniteSet(Requests)
  /\ NoRequest \notin Requests
  /\ TTL \in Nat /\ MaxSize \in Nat /\ MaxTime \in Nat /\ JanitorLag \in Nat

VARIABLES
  entries,     \* the map: the request whose entry is under the key
  lastUsed,    \* cacheEntry.lastUsed
  readyAt,     \* when cacheEntry.ready was closed, -1 while it is open
  outcome,     \* cacheEntry.app/.err; cancel is non-nil exactly on "app"
  inst,        \* the instance initApp built for the entry, and its context
  want,        \* the credential the request asks for, fixed
  pc,          \* where the call of get stands
  src,         \* the entry the call builds or waits for
  result,      \* what the call returned
  builds,      \* GenkitCache.builds: calls that Add-ed and are not Done
  clock,
  janitor,     \* the janitor goroutine
  tickDue,     \* when its ticker fires next
  closer,      \* progress of the one call of Close; closed is # "open"
  overtaken,   \* history: entries a lookup removed before they were built
  peak         \* history: the most builds ever in flight

callVars == <<want, pc, src, result, builds>>
entryVars == <<entries, lastUsed, readyAt, outcome, inst>>
timeVars == <<clock, janitor, tickDue>>
historyVars == <<overtaken, peak>>
vars == <<entryVars, callVars, timeVars, closer, historyVars>>

-----------------------------------------------------------------------------
Credentials == [provider : Providers, apiKey : ApiKeys]

\* Mutant of CacheKey: the API key is left out.
CacheKeyOfProvider(c) == <<c.provider>>

\* cacheKey hashes provider NUL apiKey; no provider name holds a NUL, so the
\* text is unambiguous, and SHA-256 is taken to be collision free.
CacheKey(c) == <<c.provider, c.apiKey>>

Keys == {CacheKey(c) : c \in Credentials}
KeyOf(r) == CacheKey(want[r])

\* Mutant of IsReady: an entry counts as built once it is in the map.
IsReadyWhenPresent(e) == readyAt[e] >= -1

IsReady(e) == readyAt[e] >= 0

Closed == closer # "open"

\* Mutant of Expired: an entry idle for exactly the TTL counts.
ExpiredEarly(e) == TTL > 0 /\ clock - lastUsed[e] >= TTL

Expired(e) == TTL > 0 /\ clock - lastUsed[e] > TTL

Cached == {r \in Requests : \E k \in Keys : entries[k] = r}

\* removeLocked calls e.cancel only when it is non-nil.
CancelBuilt(S) ==
  [e \in Requests |->
     IF e \in S /\ outcome[e] = "app" THEN "cancelled" ELSE inst[e]]

\* Mutants of the eviction: in-flight entries are victims, the cap is one off.
EvictableAnyEntry(m) == {k \in Keys : m[k] # NoRequest}
VictimsLate(m) ==
  IF MaxSize > 0 /\ Cardinality({k \in Keys : m[k] # NoRequest}) > MaxSize + 1
    THEN {{k} : k \in {j \in Keys : m[j] # NoRequest /\ IsReady(m[j])}}
    ELSE {{}}

\* evictLocked: at most one victim, a ready entry no other ready entry was
\* used before.  Map iteration order breaks ties.
Occupied(m) == {k \in Keys : m[k] # NoRequest}
Evictable(m) == {k \in Occupied(m) : IsReady(m[k])}
LeastRecentlyUsed(m) ==
  {k \in Evictable(m) : \A j \in Evictable(m) : lastUsed[m[k]] <= lastUsed[m[j]]}
Victims(m) ==
  IF MaxSize > 0 /\ Cardinality(Occupied(m)) > MaxSize /\ Evictable(m) # {}
    THEN {{k} : k \in LeastRecentlyUsed(m)}
    ELSE {{}}

Without(m, K) == [k \in Keys |-> IF k \in K THEN NoRequest ELSE m[k]]
Larger(a, b) == IF a >= b THEN a ELSE b

-----------------------------------------------------------------------------
(* get                                                                     *)

GetClosed(r) ==
  /\ pc[r] = "idle"
  /\ Closed
  /\ pc' = [pc EXCEPT ![r] = "done"]
  /\ result' = [result EXCEPT ![r] = "closed"]
  /\ UNCHANGED <<entryVars, want, src, builds, timeVars, closer, historyVars>>

\* A live entry, built or in flight: refresh it and wait for it.
GetHit(r) ==
  /\ pc[r] = "idle"
  /\ ~Closed
  /\ entries[KeyOf(r)] # NoRequest
  /\ ~Expired(entries[KeyOf(r)])
  /\ lastUsed' = [lastUsed EXCEPT ![entries[KeyOf(r)]] = clock]
  /\ src' = [src EXCEPT ![r] = entries[KeyOf(r)]]
  /\ pc' = [pc EXCEPT ![r] = "await"]
  /\ UNCHANGED <<entries, readyAt, outcome, inst, want, result, builds,
                 timeVars, closer, historyVars>>

\* No entry, or an expired one (in flight or not), which is removed first:
\* insert an in-flight entry, count the build, enforce the cap.
GetMiss(r) ==
  LET k        == KeyOf(r)
      stale    == {entries[k]} \ {NoRequest}
      inserted == [entries EXCEPT ![k] = r]
  IN
  /\ pc[r] = "idle"
  /\ ~Closed
  /\ \A e \in stale : Expired(e)
  /\ \E victims \in Victims(inserted) :
       /\ entries' = Without(inserted, victims)
       /\ inst' = CancelBuilt(stale \cup {inserted[j] : j \in victims})
  /\ lastUsed' = [lastUsed EXCEPT ![r] = clock]
  /\ builds' = builds \cup {r}
  /\ src' = [src EXCEPT ![r] = r]
  /\ pc' = [pc EXCEPT ![r] = "building"]
  /\ overtaken' = overtaken \cup {e \in stale : outcome[e] = "none"}
  /\ peak' = Larger(peak, Cardinality(builds'))
  /\ UNCHANGED <<readyAt, outcome, want, result, timeVars, closer>>

\* initApp returned an instance; its cancel function is still a local.
InitOk(r) ==
  /\ pc[r] = "building"
  /\ inst' = [inst EXCEPT ![r] = "live"]
  /\ pc' = [pc EXCEPT ![r] = "publishing"]
  /\ UNCHANGED <<entries, lastUsed, readyAt, outcome, want, src, result, builds,
                 timeVars, closer, historyVars>>

\* The critical section that hands app and cancel to the entry.
Publish(r) ==
  /\ pc[r] = "publishing"
  /\ outcome' = [outcome EXCEPT ![r] = "app"]
  /\ pc' = [pc EXCEPT ![r] = "announcing"]
  /\ UNCHANGED <<entries, lastUsed, readyAt, inst, want, src, result, builds,
                 timeVars, closer, historyVars>>

\* Mutant of DropOwn: the entry stays.
DropNothing(r) == entries

DropOwn(r) ==
  IF entries[KeyOf(r)] = r THEN [entries EXCEPT ![KeyOf(r)] = NoRequest] ELSE entries

\* pluginFor or initApp failed: fail drops the entry if it is still there.
Fail(r) ==
  /\ pc[r] = "building"
  /\ entries' = DropOwn(r)
  /\ outcome' = [outcome EXCEPT ![r] = "err"]
  /\ pc' = [pc EXCEPT ![r] = "announcing"]
  /\ UNCHANGED <<lastUsed, readyAt, inst, want, src, result, builds,
                 timeVars, closer, historyVars>>

\* Mutant of WithReady: only a successful build closes ready.
WithReadyOnSuccess(r) ==
  [readyAt EXCEPT ![r] = IF outcome[r] = "app" THEN clock ELSE @]

WithReady(r) == [readyAt EXCEPT ![r] = clock]

\* close(e.ready), after the lock was released.
Announce(r) ==
  /\ pc[r] = "announcing"
  /\ readyAt' = WithReady(r)
  /\ pc' = [pc EXCEPT ![r] = "returning"]
  /\ UNCHANGED <<entries, lastUsed, outcome, inst, want, src, result, builds,
                 timeVars, closer, historyVars>>

\* Mutant of BuildsWithout: Done is not deferred, and the error path misses it.
BuildsWithoutBuilt(r) == IF outcome[r] = "app" THEN builds \ {r} ELSE builds

BuildsWithout(r) == builds \ {r}

\* The builder returns, and its deferred builds.Done runs.
Return(r) ==
  /\ pc[r] = "returning"
  /\ result' = [result EXCEPT ![r] = outcome[r]]
  /\ builds' = BuildsWithout(r)
  /\ pc' = [pc EXCEPT ![r] = "done"]
  /\ UNCHANGED <<entryVars, want, src, timeVars, closer, historyVars>>

\* await: the entry's ready channel is closed.
AwaitReady(r) ==
  /\ pc[r] = "await"
  /\ IsReady(src[r])
  /\ result' = [result EXCEPT ![r] = outcome[src[r]]]
  /\ pc' = [pc EXCEPT ![r] = "done"]
  /\ UNCHANGED <<entryVars, want, src, builds, timeVars, closer, historyVars>>

\* await: the request's context is done (client gone, deadline).
AwaitCancelled(r) ==
  /\ pc[r] = "await"
  /\ result' = [result EXCEPT ![r] = "ctx"]
  /\ pc' = [pc EXCEPT ![r] = "done"]
  /\ UNCHANGED <<entryVars, want, src, builds, timeVars, closer, historyVars>>

-----------------------------------------------------------------------------
(* The janitor                                                             *)

\* Time passes; a due sweep runs at most JanitorLag late.
Tick ==
  /\ clock < MaxTime
  /\ janitor = "running" => clock < tickDue + JanitorLag
  /\ clock' = clock + 1
  /\ UNCHANGED <<entryVars, callVars, janitor, tickDue, closer, historyVars>>

\* Mutants of Swept: in-flight entries go too; so do entries in use.
SweptAnyEntry == {k \in Occupied(entries) : Expired(entries[k])}
SweptUnlooked == {k \in Occupied(entries) : IsReady(entries[k])}

Swept == {k \in Occupied(entries) : IsReady(entries[k]) /\ Expired(entries[k])}

\* Mutant of NextTick: every other tick is lost.
NextTickLost == tickDue + 2 * TTL

NextTick == tickDue + TTL

Sweep ==
  /\ janitor = "running"
  /\ clock >= tickDue
  /\ tickDue' = NextTick
  /\ entries' = Without(entries, Swept)
  /\ inst' = CancelBuilt({entries[k] : k \in Swept})
  /\ UNCHANGED <<lastUsed, readyAt, outcome, callVars, clock, janitor, closer,
                 historyVars>>

-----------------------------------------------------------------------------
(* Close                                                                   *)

MarkClosed ==
  /\ closer = "open"
  /\ closer' = "marked"
  /\ UNCHANGED <<entryVars, callVars, timeVars, historyVars>>

StopJanitor ==
  /\ closer = "marked"
  /\ closer' = "stopping"
  /\ UNCHANGED <<entryVars, callVars, timeVars, historyVars>>

JanitorExit ==
  /\ janitor = "running"
  /\ closer = "stopping"
  /\ janitor' = "exited"
  /\ UNCHANGED <<entryVars, callVars, clock, tickDue, closer, historyVars>>

\* Mutant of BuildsDone: Close does not wait for the builds.
BuildsIgnored == TRUE

BuildsDone == builds = {}

\* Both WaitGroups are at zero: remove every entry.
Drain ==
  /\ closer = "stopping"
  /\ janitor # "running"
  /\ BuildsDone
  /\ closer' = "closed"
  /\ entries' = Without(entries, Keys)
  /\ inst' = CancelBuilt(Cached)
  /\ UNCHANGED <<lastUsed, readyAt, outcome, callVars, timeVars, historyVars>>

Terminated ==
  /\ \A r \in Requests : pc[r] = "done"
  /\ closer = "closed"
  /\ UNCHANGED vars

-----------------------------------------------------------------------------
Init ==
  /\ entries = [k \in Keys |-> NoRequest]
  /\ lastUsed = [r \in Requests |-> 0]
  /\ readyAt = [r \in Requests |-> -1]
  /\ outcome = [r \in Requests |-> "none"]
  /\ inst = [r \in Requests |-> "none"]
  /\ want \in [Requests -> Credentials]
  /\ pc = [r \in Requests |-> "idle"]
  /\ src = [r \in Requests |-> NoRequest]
  /\ result = [r \in Requests |-> "pending"]
  /\ builds = {}
  /\ clock = 0
  /\ janitor = IF TTL > 0 THEN "running" ELSE "off"
  /\ tickDue = TTL
  /\ closer = "open"
  /\ overtaken = {}
  /\ peak = 0

\* The steps the goroutine inside get takes once its call has begun, the
\* return of initApp among them.
GetStep(r) ==
  \/ InitOk(r) \/ Publish(r) \/ Fail(r) \/ Announce(r) \/ Return(r)
  \/ AwaitReady(r)

CloseStep == StopJanitor \/ Drain

Next ==
  \/ \E r \in Requests :
       \/ GetClosed(r) \/ GetHit(r) \/ GetMiss(r)
       \/ GetStep(r) \/ AwaitCancelled(r)
  \/ Tick \/ Sweep \/ MarkClosed \/ JanitorExit \/ CloseStep \/ Terminated

Spec == Init /\ [][Next]_vars

-----------------------------------------------------------------------------
(* Properties                                                              *)

CallStates == {"idle", "await", "building", "publishing", "announcing",
               "returning", "done"}

\* Every variable has its type; nothing is used later than now, and a call
\* returns only a result the code can return (get's four outcomes).
TypeOK ==
  /\ entries \in [Keys -> Requests \cup {NoRequest}]
  /\ lastUsed \in [Requests -> Nat]
  /\ readyAt \in [Requests -> Nat \cup {-1}]
  /\ outcome \in [Requests -> {"none", "app", "err"}]
  /\ inst \in [Requests -> {"none", "live", "cancelled"}]
  /\ want \in [Requests -> Credentials]
  /\ pc \in [Requests -> CallStates]
  /\ src \in [Requests -> Requests \cup {NoRequest}]
  /\ result \in [Requests -> {"pending", "app", "err", "closed", "ctx"}]
  /\ builds \in SUBSET Requests
  /\ clock \in Nat
  /\ janitor \in {"off", "running", "exited"}
  /\ tickDue \in Nat
  /\ closer \in {"open", "marked", "stopping", "closed"}
  /\ overtaken \in SUBSET Requests
  /\ peak \in Nat

InFlight(r) == pc[r] \in {"building", "publishing"}

\* An instance only ever serves the provider and API key it was built for: a
\* call that returns an app returns one built for its own credential, whether
\* it built it or waited for another call's build (cache.go:88-130).
CredentialIsolation ==
  \A r \in Requests :
    result[r] = "app" => want[src[r]] = want[r] /\ inst[src[r]] # "none"

\* Concurrent misses of one key share one build: two calls build for the same
\* key only when a lookup past the TTL overtook one of them (cache.go:42-43).
SingleFlight ==
  \A r, s \in Requests :
    r # s /\ InFlight(r) /\ InFlight(s) /\ KeyOf(r) = KeyOf(s)
      => r \in overtaken \/ s \in overtaken

\* Somebody can still cancel every running instance: its builder, which has
\* not handed it over yet, or the map.  Entries a lookup overtook while in
\* flight are the exception (cache.go:95-101, 174-191, 211-219).
LiveInstanceOwned ==
  \A r \in Requests :
    inst[r] = "live" =>
      pc[r] = "publishing" \/ entries[KeyOf(r)] = r \/ r \in overtaken

\* When Close has returned no instance is running and no build is under way
\* that could still start one, overtaken entries apart (cache.go:224-238).
CloseReleasesAll ==
  closer = "closed" =>
    \A r \in Requests :
      ~InFlight(r) /\ (inst[r] = "live" => r \in overtaken)

\* A failed build is never found by a later lookup, so the next caller
\* retries (cache.go:142-152).
FailureNotCached ==
  \A r \in Cached : outcome[r] # "err"

\* The size the map can really reach: eviction removes one entry per insert
\* and never an in-flight one, so builds in flight push the map over the cap,
\* and never past the most that were in flight at once (cache.go:174-191).
MapWithinPeak ==
  MaxSize > 0 => Cardinality(Occupied(entries)) <= Larger(MaxSize, peak)

\* How long a credential nobody asks for really stays resident: at most two
\* TTLs after its last use, or one TTL after a build that took longer, plus the
\* janitor's lag (cache.go:194-219).  Not the one TTL of the comment on sweep
\* (cache.go:208-210): an entry a sweep just misses stays until the next.
IdleCredentialReleased ==
  janitor = "running" =>
    \A r \in Cached : IsReady(r) =>
      clock <= Larger(lastUsed[r] + 2 * TTL, readyAt[r] + TTL) + JanitorLag

\* This step's lookup r inserts an entry the map has no room for, and of the
\* built entries it leaves in the map none was used before e.
MakesRoom(r, e) ==
  /\ pc[r] = "idle" /\ pc'[r] = "building"
  /\ MaxSize > 0 /\ Cardinality(Occupied(entries) \cup {KeyOf(r)}) > MaxSize
  /\ \A f \in Cached \ {entries[KeyOf(r)]} :
       IsReady(f) => lastUsed[e] <= lastUsed[f]

\* A built entry leaves an open cache only when it has been idle for longer than
\* the TTL or as the least recently used one, for an insert the map has no room
\* for: a sweep or a lookup racing a hit never takes an entry just used
\* (cache.go:95-101, 156-158, 171-191, 211-219).
EntriesLeaveForCause ==
  [][closer = "open" =>
       \A e \in Cached :
         IsReady(e) /\ e \notin Cached' =>
           \/ TTL > 0 /\ clock - lastUsed[e] > TTL
           \/ \E r \in Requests : MakesRoom(r, e)]_vars

-----------------------------------------------------------------------------
(* What the comments of cache.go say and the code does not do              *)

\* "In-flight entries are never removed here" (cache.go:160-163) and "a build
\* is never orphaned" (cache.go:171-173): the exception LiveInstanceOwned
\* makes for overtaken entries would not be needed.
NoBuildOrphaned ==
  \A r \in Requests :
    inst[r] = "live" => pc[r] = "publishing" \/ entries[KeyOf(r)] = r

\* "caps the number of live entries at maxSize" (cache.go:55-57): with no
\* build in flight the map holds at most maxSize entries.
CapHoldsWhenIdle ==
  MaxSize > 0 /\ builds = {} => Cardinality(Occupied(entries)) <= MaxSize

=============================================================================
