------------------------------ MODULE Shutdown ------------------------------
(***************************************************************************)
(* The life of the process (cmd/app/main.go) around the instance cache:    *)
(* requests are rate limited, take an instance from the cache and generate *)
(* with it; the signal starts a graceful shutdown, which waits for them    *)
(* for at most its grace period; then main's deferred calls close the      *)
(* cache and, after it, the limiter, and the process exits.                *)
(*                                                                         *)
(* The cache is the one of GenkitCache.  A request makes one call of get:  *)
(* an attempt that is retried is a request of its own here.                *)
(***************************************************************************)
EXTENDS GenkitCache

VARIABLES
  server,      \* how far main has come
  timedOut,    \* srv.Shutdown returned because its context was done
  phase,       \* where the handler of a request stands
  unlimited    \* history: requests the closed limiter failed open for

serverVars == <<server, timedOut, unlimited>>
shutdownVars == <<vars, serverVars, phase>>

ShutdownInit ==
  /\ Init
  /\ server = "serving"
  /\ timedOut = FALSE
  /\ phase = [r \in Requests |-> "absent"]
  /\ unlimited = {}

Up == server # "exited"

-----------------------------------------------------------------------------
(* Requests                                                                *)

\* A request comes on a connection the listener has accepted.  Once
\* srv.Shutdown has returned without an error every connection is closed.
Arrive(r) ==
  /\ phase[r] = "absent"
  /\ server \in {"serving", "draining"} \/ (Up /\ timedOut)
  /\ phase' = [phase EXCEPT ![r] = "limiting"]
  /\ UNCHANGED <<vars, serverVars>>

LimiterClosed == server \in {"limiterClosed", "exited"}

\* Allow answers; a client that was closed returns an error, and the callers
\* fail open.  (A denial ends the request before the cache is asked.)
Admit(r) ==
  /\ Up
  /\ phase[r] = "limiting"
  /\ phase' = [phase EXCEPT ![r] = "looking"]
  /\ unlimited' = IF LimiterClosed THEN unlimited \cup {r} ELSE unlimited
  /\ UNCHANGED <<vars, server, timedOut>>

\* GenkitCache.get, called by the generator; calls that overlap are calls of
\* different requests.
Lookup(r) ==
  /\ Up
  /\ phase[r] = "looking"
  /\ GetClosed(r) \/ GetHit(r) \/ GetMiss(r) \/ AwaitCancelled(r)
  /\ UNCHANGED <<serverVars, phase>>

LookupStep(r) ==
  /\ Up
  /\ GetStep(r)
  /\ UNCHANGED <<serverVars, phase>>

\* get has returned: generate with the instance, or answer the error.
Generate(r) ==
  /\ Up
  /\ phase[r] = "looking"
  /\ pc[r] = "done"
  /\ phase' = [phase EXCEPT ![r] = IF result[r] = "app" THEN "generating"
                                                       ELSE "answered"]
  /\ UNCHANGED <<vars, serverVars>>

\* The provider answered, or failed, or the generation timed out.
Answer(r) ==
  /\ Up
  /\ phase[r] = "generating"
  /\ phase' = [phase EXCEPT ![r] = "answered"]
  /\ UNCHANGED <<vars, serverVars>>

-----------------------------------------------------------------------------
(* main                                                                    *)

\* The first SIGINT or SIGTERM.
Signal ==
  /\ server = "serving"
  /\ server' = "draining"
  /\ UNCHANGED <<vars, timedOut, unlimited, phase>>

\* Mutant of Idle: Shutdown returns as soon as the listener is closed.
IdleAtOnce == TRUE

Idle == \A r \in Requests : phase[r] \in {"absent", "answered"}

\* srv.Shutdown returns nil: no connection is active.
Drained ==
  /\ server = "draining"
  /\ Idle
  /\ server' = "closing"
  /\ UNCHANGED <<vars, timedOut, unlimited, phase>>

\* Its 30 seconds are over: it returns the context's error and leaves the
\* handlers running.
GraceOver ==
  /\ server = "draining"
  /\ server' = "closing"
  /\ timedOut' = TRUE
  /\ UNCHANGED <<vars, unlimited, phase>>

\* The deferred cache.Close begins.
CloseCache ==
  /\ server = "closing"
  /\ MarkClosed
  /\ UNCHANGED <<serverVars, phase>>

\* Mutant of CacheReleased: main defers the two calls the other way round.
CacheUntouched == closer = "open"

CacheReleased == closer = "closed"

\* The deferred lim.Close, registered before cache.Close and so run after it.
CloseLimiter ==
  /\ server = "closing"
  /\ CacheReleased
  /\ server' = "limiterClosed"
  /\ UNCHANGED <<vars, timedOut, unlimited, phase>>

\* main returns; the goroutines that are left end with the process.
Exit ==
  /\ server = "limiterClosed"
  /\ server' = "exited"
  /\ UNCHANGED <<vars, timedOut, unlimited, phase>>

-----------------------------------------------------------------------------
\* The janitor, the goroutine of Close and the clock.
CacheStep ==
  /\ Up
  /\ Tick \/ Sweep \/ JanitorExit \/ CloseStep
  /\ UNCHANGED <<serverVars, phase>>

Exited == server = "exited" /\ UNCHANGED shutdownVars

ShutdownNext ==
  \/ \E r \in Requests :
       \/ Arrive(r) \/ Admit(r) \/ Lookup(r) \/ LookupStep(r)
       \/ Generate(r) \/ Answer(r)
  \/ Signal \/ Drained \/ GraceOver
  \/ CloseCache \/ CacheStep \/ CloseLimiter \/ Exit
  \/ Exited

\* main runs, the grace period ends, goroutines that can run do, initApp
\* returns.  No request has to arrive, no client to give up, no generation to
\* end, and no signal to come.
ShutdownFairness ==
  /\ WF_shutdownVars(Drained \/ GraceOver)
  /\ WF_shutdownVars(CloseCache \/ CloseLimiter \/ Exit)
  /\ WF_shutdownVars(Up /\ (JanitorExit \/ CloseStep)
                        /\ UNCHANGED <<serverVars, phase>>)
  /\ \A r \in Requests : WF_shutdownVars(LookupStep(r))

ShutdownSpec == ShutdownInit /\ [][ShutdownNext]_shutdownVars /\ ShutdownFairness

-----------------------------------------------------------------------------
(* Properties                                                              *)

\* A shutdown that drains turns nobody away: only a request that outlived the
\* grace period finds the cache closed (main.go:138-146, deployment.md:90-92).
OnlyLateRequestsRefused ==
  \A r \in Requests : result[r] = "closed" => timedOut

\* The limiter outlives the cache: a request the closed limiter let through
\* uncounted never reaches a provider (main.go:77-83).
UncountedNeverServed ==
  \A r \in unlimited : phase[r] # "generating" /\ result[r] # "app"

\* The instance a request has been given and not finished with.
InUse(e) ==
  \E r \in Requests :
    /\ src[r] = e
    /\ result[r] = "app"
    /\ phase[r] \in {"looking", "generating"}

\* e goes for the entry this step's lookup r inserts, and no other instance is
\* cancelled but one that lay expired under r's key.
EvictedFor(r, e) ==
  /\ MakesRoom(r, e)
  /\ \A f \in Requests :
       inst[f] = "live" /\ inst'[f] = "cancelled" => f \in {e, entries[KeyOf(r)]}

\* An instance in use is cancelled only as the least recently used one, by an
\* insert that the map has no room for; for having been idle for longer than the
\* TTL since its last lookup; or by a Close after a grace period that was too
\* short (cache.go:160-191, 211-238; main.go:141-146).
TornOnlyByPressure ==
  [][\A e \in Requests :
       InUse(e) /\ inst[e] = "live" /\ inst'[e] = "cancelled" =>
         \/ closer = "open" /\ \E r \in Requests : EvictedFor(r, e)
         \/ clock - lastUsed[e] > TTL /\ TTL > 0 /\ closer # "closed"
         \/ closer' = "closed" /\ timedOut]_shutdownVars

\* Every call of get that has begun returns, waiters of a failed build
\* included, unless the process ends first (cache.go:128, 151).
GetReturns ==
  \A r \in Requests :
    pc[r] # "idle" ~> pc[r] = "done" \/ server = "exited"

\* The signal ends the process, whatever the requests do: Shutdown gives up
\* after its grace period, the janitor stops and every build is Done
\* (main.go:138-146, cache.go:224-231).
ShutdownCompletes == server = "draining" ~> server = "exited"

=============================================================================
