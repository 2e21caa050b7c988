-------------------------- MODULE ShutdownProofs --------------------------
(* Proofs about Shutdown.  A step of the process is a step of its cache or   *)
(* leaves the cache alone, so whatever is proved of the cache on its own     *)
(* holds inside the process; the rest relates main, the handlers and it.     *)
EXTENDS Shutdown, GenkitCacheProofs

-----------------------------------------------------------------------------
(* The process implements its cache                                        *)

\* Every step of main, of a handler or of the runtime is a step the cache
\* could take on its own, or none at all.
LEMMA ProcessStepIsCacheStep == [ShutdownNext]_shutdownVars => [Next]_vars
BY DEF ShutdownNext, shutdownVars, Arrive, Admit, Lookup, LookupStep, Generate, Answer,
       Signal, Drained, GraceOver, CloseCache, CacheStep, CloseLimiter, Exit, Exited, Next

\* The process uses the cache as its specification demands, so that every
\* theorem about Spec is a theorem about the cache inside the process.
THEOREM ProcessImplementsCache == ShutdownSpec => Spec
<1>1. ShutdownInit => Init
  BY DEF ShutdownInit
<1> QED
  BY <1>1, ProcessStepIsCacheStep, PTL DEF ShutdownSpec, Spec

-----------------------------------------------------------------------------
(* The inductive invariant                                                 *)

Late == {"closing", "limiterClosed", "exited"}

Phases == {"absent", "limiting", "looking", "generating", "answered"}

\* main closes the cache only after srv.Shutdown has returned, which waits for
\* the handlers unless it times out, and the limiter only after the cache.
ServerInv ==
  /\ server \in {"serving", "draining"} \cup Late
  /\ timedOut \in BOOLEAN
  /\ closer # "open" => server \in Late
  /\ server \in Late /\ ~timedOut => Idle
  /\ LimiterClosed => closer = "closed"
  /\ closer = "closed" => janitor # "running"

\* A handler asks the cache once it is past the limiter, and generates with
\* what it was given; one the closed limiter let through finds a closed cache.
PhaseInv ==
  /\ phase \in [Requests -> Phases]
  /\ unlimited \in SUBSET Requests
  /\ \A r \in Requests :
       /\ phase[r] \in {"absent", "limiting"} => pc[r] = "idle"
       /\ phase[r] = "generating" => result[r] = "app"
       /\ r \in unlimited =>
            /\ closer = "closed"
            /\ phase[r] \in {"looking", "answered"}
            /\ pc[r] = "idle" \/ (pc[r] = "done" /\ result[r] = "closed")

ProcessInv == CacheInv /\ ServerInv /\ PhaseInv /\ OnlyLateRequestsRefused

\* The process starts in it: nothing has arrived and the cache is open.
LEMMA ProcessInvInit == ShutdownInit => ProcessInv
<1> SUFFICES ASSUME ShutdownInit PROVE ProcessInv
  OBVIOUS
<1>1. Init /\ CacheInv
  BY InitEstablishes DEF ShutdownInit
<1> QED
  BY <1>1 DEF ShutdownInit, Init, ProcessInv, ServerInv, PhaseInv, Late, Phases, Idle,
     LimiterClosed, OnlyLateRequestsRefused

\* The handler's own steps leave main and the cache alone.
LEMMA HandlerSteps ==
  ASSUME ProcessInv, NEW r \in Requests,
         Arrive(r) \/ Admit(r) \/ Generate(r) \/ Answer(r)
  PROVE  ServerInv' /\ PhaseInv' /\ OnlyLateRequestsRefused'
<1>0. /\ TypeOK /\ SourceInv /\ ServerInv /\ PhaseInv /\ OnlyLateRequestsRefused
      /\ UNCHANGED <<server, timedOut, closer, janitor, pc, result>>
  BY DEF ProcessInv, CacheInv, Arrive, Admit, Generate, Answer, serverVars, vars,
         callVars, timeVars
<1>1. CASE Arrive(r)
  BY <1>0, <1>1 DEF Arrive, ServerInv, PhaseInv, OnlyLateRequestsRefused, Late, Phases,
     Idle, LimiterClosed, Up, serverVars, SourceInv
<1>2. CASE Admit(r)
  BY <1>0, <1>2 DEF Admit, ServerInv, PhaseInv, OnlyLateRequestsRefused, Late, Phases,
     Idle, LimiterClosed, Up, SourceInv
<1>3. CASE Generate(r)
  BY <1>0, <1>3 DEF Generate, ServerInv, PhaseInv, OnlyLateRequestsRefused, Late, Phases,
     Idle, LimiterClosed, Up, serverVars, SourceInv
<1>4. CASE Answer(r)
  BY <1>0, <1>4 DEF Answer, ServerInv, PhaseInv, OnlyLateRequestsRefused, Late, Phases,
     Idle, LimiterClosed, Up, serverVars, SourceInv
<1> QED
  BY <1>1, <1>2, <1>3, <1>4

\* A call of get is made by a handler that is looking, and moves on only the
\* call; it is turned away only when Close has begun, which the handler can
\* see only if the grace period ran out.
LEMMA LookupSteps ==
  ASSUME ProcessInv, NEW r \in Requests, Lookup(r) \/ LookupStep(r)
  PROVE  ServerInv' /\ PhaseInv' /\ OnlyLateRequestsRefused'
<1>0. /\ TypeOK /\ SourceInv /\ ServerInv /\ PhaseInv /\ OnlyLateRequestsRefused
      /\ UNCHANGED <<server, timedOut, unlimited, phase>>
  BY DEF ProcessInv, CacheInv, Lookup, LookupStep, serverVars
<1>1. UNCHANGED <<closer, janitor>>
  BY DEF Lookup, LookupStep, GetClosed, GetHit, GetMiss, GetStep, InitOk, Publish, Fail,
         Announce, Return, AwaitReady, AwaitCancelled, timeVars
<1>2. \A s \in Requests \ {r} : pc'[s] = pc[s] /\ result'[s] = result[s]
  BY <1>0 DEF TypeOK, Lookup, LookupStep, GetClosed, GetHit, GetMiss, GetStep, InitOk,
              Publish, Fail, Announce, Return, AwaitReady, AwaitCancelled
<1>3. /\ pc[r] # "done" /\ result[r] = "pending"
      /\ pc[r] = "idle" => phase[r] = "looking"
      /\ closer = "closed" /\ pc[r] = "idle" => pc'[r] = "done" /\ result'[r] = "closed"
      /\ result'[r] = "closed" => closer # "open" /\ phase[r] = "looking"
  <2>1. CASE GetClosed(r) /\ Lookup(r)
    BY <2>1, <1>0 DEF GetClosed, Lookup, Closed, TypeOK, SourceInv
  <2>2. CASE (GetHit(r) \/ GetMiss(r) \/ AwaitCancelled(r)) /\ Lookup(r)
    BY <2>2, <1>0 DEF GetHit, GetMiss, AwaitCancelled, Lookup, Closed, TypeOK, SourceInv
  <2>3. CASE GetStep(r)
    BY <2>3, <1>0 DEF GetStep, InitOk, Publish, Fail, Announce, Return, AwaitReady, TypeOK,
                      SourceInv
  <2> QED
    BY <2>1, <2>2, <2>3 DEF Lookup, LookupStep
<1>4. result'[r] = "closed" => timedOut
  BY <1>0, <1>3 DEF ServerInv, Idle
<1>5. ServerInv'
  BY <1>0, <1>1 DEF ServerInv, Idle, LimiterClosed
<1>6. PhaseInv'
  <2> SUFFICES ASSUME NEW s \in Requests
               PROVE  /\ phase[s] \in {"absent", "limiting"} => pc'[s] = "idle"
                      /\ phase[s] = "generating" => result'[s] = "app"
                      /\ s \in unlimited =>
                           /\ closer = "closed"
                           /\ phase[s] \in {"looking", "answered"}
                           /\ pc'[s] = "idle" \/ (pc'[s] = "done" /\ result'[s] = "closed")
    BY <1>0, <1>1 DEF PhaseInv
  <2>1. CASE s # r
    BY <2>1, <1>0, <1>2 DEF PhaseInv
  <2>2. CASE s = r
    BY <2>2, <1>0, <1>3 DEF PhaseInv
  <2> QED
    BY <2>1, <2>2
<1>7. OnlyLateRequestsRefused'
  BY <1>0, <1>2, <1>4 DEF OnlyLateRequestsRefused
<1> QED
  BY <1>5, <1>6, <1>7

\* main's steps and the cache's own change no call and no handler.
LEMMA MainSteps ==
  ASSUME ProcessInv,
         \/ Signal \/ Drained \/ GraceOver \/ CloseCache \/ CacheStep
         \/ CloseLimiter \/ Exit \/ UNCHANGED shutdownVars
  PROVE  ServerInv' /\ PhaseInv' /\ OnlyLateRequestsRefused'
<1>0. /\ TypeOK /\ ServerInv /\ PhaseInv /\ OnlyLateRequestsRefused
      /\ UNCHANGED <<pc, result, phase, unlimited>>
      /\ timedOut' \in {timedOut, TRUE}
  BY DEF ProcessInv, CacheInv, Signal, Drained, GraceOver, CloseCache, CacheStep,
         CloseLimiter, Exit, shutdownVars, serverVars, MarkClosed, Tick, Sweep, JanitorExit,
         CloseStep, StopJanitor, Drain, vars, callVars
<1>1. closer = "closed" => closer' = "closed"
  BY DEF Signal, Drained, GraceOver, CloseCache, CacheStep, CloseLimiter, Exit,
         shutdownVars, serverVars, MarkClosed, Tick, Sweep, JanitorExit, CloseStep,
         StopJanitor, Drain, vars
<1>2. PhaseInv' /\ OnlyLateRequestsRefused'
  BY <1>0, <1>1 DEF PhaseInv, OnlyLateRequestsRefused, ServerInv
<1>3. CASE Signal \/ Drained \/ GraceOver \/ CloseLimiter \/ Exit
  BY <1>3, <1>0, <1>2 DEF Signal, Drained, GraceOver, CloseLimiter, Exit, CacheReleased,
     ServerInv, Late, Idle, LimiterClosed, vars, timeVars
<1>4. CASE CloseCache
  BY <1>4, <1>0, <1>2 DEF CloseCache, MarkClosed, ServerInv, Late, Idle, LimiterClosed,
     serverVars, timeVars
<1>5. CASE CacheStep
  <2>1. server' = server /\ timedOut' = timedOut
    BY <1>5 DEF CacheStep, serverVars
  <2>2. CASE Tick \/ Sweep
    BY <2>1, <2>2, <1>0, <1>2 DEF Tick, Sweep, ServerInv, Idle, LimiterClosed
  <2>3. CASE JanitorExit
    BY <2>1, <2>3, <1>0, <1>2 DEF JanitorExit, ServerInv, Idle, LimiterClosed
  <2>4. CASE CloseStep
    BY <2>1, <2>4, <1>0, <1>2 DEF CloseStep, StopJanitor, Drain, ServerInv, Idle,
       LimiterClosed, timeVars
  <2> QED
    BY <1>5, <2>2, <2>3, <2>4 DEF CacheStep
<1>6. CASE UNCHANGED shutdownVars
  BY <1>6, <1>0, <1>2 DEF shutdownVars, serverVars, vars, timeVars, ServerInv, Idle,
     LimiterClosed
<1> QED
  BY <1>2, <1>3, <1>4, <1>5, <1>6

\* Every step of the process keeps its invariant.
LEMMA ProcessInvStep ==
  ASSUME ProcessInv, [ShutdownNext]_shutdownVars
  PROVE  ProcessInv'
<1>1. CacheInv'
  BY ProcessStepIsCacheStep, CacheInvStep DEF ProcessInv
<1>2. ServerInv' /\ PhaseInv' /\ OnlyLateRequestsRefused'
  BY HandlerSteps, LookupSteps, MainSteps DEF ShutdownNext, Exited
<1> QED
  BY <1>1, <1>2 DEF ProcessInv

-----------------------------------------------------------------------------
(* The theorems                                                            *)

\* main, the handlers and the cache stay in step in every reachable state.
THEOREM ProcessInvariance == ShutdownSpec => []ProcessInv
<1>1. ProcessInv /\ [ShutdownNext]_shutdownVars => ProcessInv'
  BY ProcessInvStep
<1> QED
  BY <1>1, ProcessInvInit, PTL DEF ShutdownSpec

\* A shutdown that drains turns no request away.
THEOREM NoneRefusedByDraining == ShutdownSpec => []OnlyLateRequestsRefused
<1>1. ProcessInv => OnlyLateRequestsRefused
  BY DEF ProcessInv
<1> QED
  BY <1>1, ProcessInvariance, PTL

\* What the closed limiter let through uncounted never reaches a provider.
THEOREM UncountedNotServed == ShutdownSpec => []UncountedNeverServed
<1>1. ProcessInv => UncountedNeverServed
  BY DEF ProcessInv, CacheInv, SourceInv, TypeOK, PhaseInv, UncountedNeverServed
<1> QED
  BY <1>1, ProcessInvariance, PTL

\* A lookup cancels an instance only because it is past its TTL, or as the one
\* entry that goes, least recently used, for the one it inserts.
LEMMA LookupCancels ==
  ASSUME CacheInv, NEW r \in Requests, GetMiss(r),
         NEW e \in Requests, inst[e] = "live", inst'[e] = "cancelled"
  PROVE  /\ closer = "open"
         /\ \/ EvictedFor(r, e)
            \/ clock - lastUsed[e] > TTL /\ TTL > 0
<1> DEFINE k == KeyOf(r)
           inserted == [entries EXCEPT ![k] = r]
           stale == {entries[k]} \ {NoRequest}
<1>0. /\ TypeOK /\ k \in Keys /\ closer = "open" /\ NoRequest \notin Requests
      /\ pc[r] = "idle" /\ pc'[r] = "building"
  BY KeysSeparateCredentials, CacheAssumption DEF CacheInv, GetMiss, Closed, TypeOK
<1>1. PICK victims \in Victims(inserted) :
        inst' = CancelBuilt(stale \cup {inserted[j] : j \in victims})
  BY DEF GetMiss
<1>2. \A f \in Requests :
        inst[f] = "live" /\ inst'[f] = "cancelled" =>
          f \in stale \/ f \in {inserted[j] : j \in victims}
  BY <1>0, <1>1, CancelBuiltCancels
<1>3. CASE e \in stale
  BY <1>0, <1>3 DEF GetMiss, Expired
<1>4. CASE e \notin stale
  <2>1. e \in {inserted[j] : j \in victims}
    BY <1>2, <1>4
  <2>2. /\ MaxSize > 0 /\ Cardinality(Occupied(inserted)) > MaxSize
        /\ victims \in {{j} : j \in LeastRecentlyUsed(inserted)}
    BY <1>1, <2>1 DEF Victims
  <2>3. Occupied(inserted) = Occupied(entries) \cup {k}
    BY <1>0 DEF Occupied, TypeOK
  <2>4. PICK v \in LeastRecentlyUsed(inserted) : victims = {v}
    BY <2>2
  <2>5. inserted[v] = e
    BY <2>1, <2>4
  <2>6. ASSUME NEW f \in Cached \ {entries[k]}, IsReady(f)
        PROVE  lastUsed[e] <= lastUsed[f]
    <3>1. PICK j \in Keys : entries[j] = f /\ j # k
      BY DEF Cached
    <3>2. inserted[j] = f /\ f # NoRequest
      BY <1>0, <3>1 DEF TypeOK, Cached
    <3>3. j \in Evictable(inserted)
      BY <2>6, <3>1, <3>2 DEF Evictable, Occupied
    <3> HIDE DEF inserted
    <3> QED
      BY <2>4, <2>5, <3>2, <3>3 DEF LeastRecentlyUsed
  <2>7. \A f \in Requests :
          inst[f] = "live" /\ inst'[f] = "cancelled" => f \in {e, entries[k]}
    BY <1>2, <2>4, <2>5
  <2>8. EvictedFor(r, e)
    <3> HIDE DEF inserted
    <3> QED
      BY <1>0, <2>2, <2>3, <2>6, <2>7 DEF EvictedFor, MakesRoom, k
  <2> QED
    BY <1>0, <2>8
<1> QED
  BY <1>0, <1>3, <1>4

\* Under a request that still uses it an instance goes only as the least
\* recently used one, for an insert the map has no room for; past its TTL; or
\* at a Close after the grace period (cache.go:160-191, 211-238).
THEOREM TornOnlyUnderPressure == ShutdownSpec => TornOnlyByPressure
<1>1. ASSUME ProcessInv, [ShutdownNext]_shutdownVars,
             NEW e \in Requests, InUse(e), inst[e] = "live", inst'[e] = "cancelled"
      PROVE  \/ closer = "open" /\ \E r \in Requests : EvictedFor(r, e)
             \/ clock - lastUsed[e] > TTL /\ TTL > 0 /\ closer # "closed"
             \/ closer' = "closed" /\ timedOut
  <2>0. CacheInv /\ TypeOK /\ ServerInv
    BY <1>1 DEF ProcessInv, CacheInv
  <2>1. CASE \E r \in Requests : GetMiss(r)
    <3>1. PICK r \in Requests : GetMiss(r)
      BY <2>1
    <3> QED
      BY <2>0, <3>1, <1>1, LookupCancels
  <2>2. CASE Sweep
    <3>1. e \in {entries[k] : k \in Swept} /\ janitor = "running"
      BY <2>0, <2>2, <1>1, CancelBuiltCancels DEF Sweep
    <3>2. Expired(e)
      BY <3>1 DEF Swept
    <3> QED
      BY <3>1, <3>2, <2>0 DEF Expired, ServerInv
  <2>3. CASE CacheStep /\ Drain
    <3>1. ~Idle
      BY <1>1 DEF InUse, Idle
    <3>2. closer' = "closed" /\ closer = "stopping"
      BY <2>3 DEF Drain
    <3> QED
      BY <3>1, <3>2, <2>0 DEF ServerInv
  <2>4. inst'[e] \in {inst[e], "live"} \/ (\E r \in Requests : GetMiss(r)) \/ Sweep
          \/ (CacheStep /\ Drain)
    BY <2>0, <1>1
    DEF TypeOK, ShutdownNext, shutdownVars, Arrive, Admit, Lookup, LookupStep, Generate,
        Answer, Signal, Drained, GraceOver, CloseCache, CacheStep, CloseLimiter, Exit, Exited,
        GetClosed, GetHit, GetStep, InitOk, Publish, Fail, Announce, Return, AwaitReady,
        AwaitCancelled, Tick, MarkClosed, JanitorExit, CloseStep, StopJanitor, vars, entryVars
  <2> QED
    BY <2>1, <2>2, <2>3, <2>4, <1>1
<1>2. ProcessInv /\ [ShutdownNext]_shutdownVars =>
        [\A e \in Requests :
           InUse(e) /\ inst[e] = "live" /\ inst'[e] = "cancelled" =>
             \/ closer = "open" /\ \E r \in Requests : EvictedFor(r, e)
             \/ clock - lastUsed[e] > TTL /\ TTL > 0 /\ closer # "closed"
             \/ closer' = "closed" /\ timedOut]_shutdownVars
  BY <1>1
<1> QED
  BY <1>2, ProcessInvariance, PTL DEF ShutdownSpec, TornOnlyByPressure

=============================================================================
