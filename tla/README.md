# A verification of genkit-proxy in TLA+

genkit-proxy is an HTTP gateway in front of LLM providers. A request names a
model, carries a bearer token, passes a middleware chain and two rate-limit
layers, and ends in a call of the Genkit library with a provider instance built
for the caller's own key. This directory holds TLA+ modules that model the parts
of the gateway where orderings, timeouts and failures decide whether it is
correct, TLC configurations that check them on small instances, and TLAPS proofs
that hold for every instance. `PROJECT.json` is the index: components, runs,
mutants, the map from definitions to source lines, findings, hazards, theorems.

Run `tlc -config <run>.cfg <module>.tla` for a run and `tlapm <module>.tla` for
the proofs.

## 1. Inventory

| Component | Source | State | Operations | Talks to |
|---|---|---|---|---|
| Genkit instance cache | `internal/proxy/cache.go` | map of entries, each built or in flight; `closed`; two WaitGroups; a janitor goroutine | `get` (hit, miss, build, fail, await), janitor sweep, `Close` | called by the generator in each request's goroutine, by `main` at shutdown; calls `genkit.Init` |
| In-memory limiter | `internal/ratelimit/memory.go` | map of buckets (count, resetAt) | `Allow`, pruning | called by three layers |
| Redis limiter | `internal/ratelimit/redis.go` | counters in Redis, shared by several proxies | `Allow` (a Lua script the client may send again) | the same contract over a network |
| Retrying generator | `internal/proxy/retry.go` | loop variable, `chunkSent` | `Generate`, `GenerateStream` | wraps the Genkit generator |
| Genkit generator | `internal/proxy/generator.go` | none, a context with a deadline per call | one attempt, text deltas | cache, Genkit library |
| Error classification | `internal/proxy/errors.go`, `proxy.go:160-181` | none | error to category to status | retry loop, handlers |
| Handlers | `internal/proxy/proxy.go`, `stream.go` | per response: `started` | the sequence of checks, the JSON or SSE answer | everything above |
| Middleware chain | `internal/proxy/middleware.go`, `metrics.go`, `cmd/app/main.go:122-132` | `statusWriter`, `modelSlot`, counters | CORS, Recover, RequestID, RateLimit, Logger, Metrics | wraps the handlers |
| Gateway auth | `internal/auth`, `internal/proxy/credentials.go` | tenant table and secrets, fixed at startup | `Authenticate`, `Resolve` | called by the handlers |
| Validation, routing, allowlist | `request.go`, `router.go`, `policy.go` | none | pure functions | called by the handlers |
| Conversation mapping | `generator.go:226-344` | none; the client keeps the history | request to Genkit options, answer to response | handlers, Genkit library |
| Configuration | `cmd/app/config.go`, `internal/auth/resolver.go`, `source.go` | lists and tables, fixed at startup | parse, reject | read by the checks of the handlers |
| Startup and shutdown | `cmd/app/main.go` | the server, deferred calls | serving, `Shutdown` with 30 s of grace, deferred `Close`s | owns everything |

What is hard in it:

* **Concurrency.** Every request is a goroutine. They share the cache, whose
  lock is released around a build, and the limiter, which reads the clock before
  it takes its lock.
* **Time.** Idle TTL, a ticker that is not aligned with anything, deadlines per
  attempt, backoffs, fixed windows.
* **Failure.** Builds fail or panic, providers fail, hang or panic, clients
  leave, the limiter's backend fails and is ignored ("fail open"), a stream
  fails after its status was sent.
* **Networks.** A script may run twice, late or never; the clocks of the proxies
  and of Redis differ; Redis may lose its data.
* **Statelessness.** The proxy keeps no session, so what a model asked for must
  survive a trip to the client and back.
* **Ordering.** `close(ready)` after the critical section, `Close` against
  builds, checks in a fixed order with budgets charged on the way.

What makes each component correct:

* cache: one build per key and one credential per instance; every instance is
  cancelled exactly when its entry goes; failures do not stick; the map is
  bounded; idle credentials leave; everything that began returns.
* limiter: no more than the budget in a window; no denial without cause; waits
  that are true; a bounded map.
* generation: one complete answer or one error, from one attempt, in bounded
  time; only what can be mended is retried.
* conversation: what is malformed is refused, of the rest nothing is lost on its
  way to the provider, and a replayed conversation is accepted as it was.
* shutdown: it ends whatever the requests do, turns away only who is too late,
  and leaves nothing running.
* pipeline: budgets per token and layer hold under all interleavings; nothing
  unauthenticated or with a foreign credential reaches a provider; the metrics
  agree with the answers.

The hazards at their lines are in `PROJECT.json`.

## 2. Modules

| Module | Models | Checked by | Proofs |
|---|---|---|---|
| `GenkitCache` | the instance cache | `MCGenkitCache`: `cache`, `cache_orphan`, `cache_cap` | `GenkitCacheProofs` |
| `Shutdown` | the process around the cache: limiter, cache, generation, signal, deferred closes | `shutdown` | `ShutdownProofs` |
| `FixedWindowBudget` | what a limiter promises (abstract) | through the two that implement it | `FixedWindowBudgetProofs` |
| `MemoryLimiter` | the in-memory limiter | `MCMemoryLimiter`: `limiter`, `limiter_late` | `MemoryLimiterProofs` |
| `RedisLimiter` | the Redis limiter, the server and the network between | `MCRedisLimiter`: `redis` | `RedisLimiterProofs` |
| `Generation` | one admitted request, from the generator to the last byte | `generation`, `generation_timeout` | `GenerationProofs` |
| `GatewayConfig` | what startup makes of the lists in the environment | through `RequestPipeline` | in `RequestPipelineProofs` |
| `RequestPipeline` | concurrent requests from the socket to the generator | `MCRequestPipeline`: `pipeline` | `RequestPipelineProofs` |
| `Conversation` | validation, Genkit options, responses, the client's follow-up | `MCConversation`: `conversation`, `conversation_text` | `ConversationProofs` |

How they compose: `Shutdown` EXTENDS `GenkitCache` and takes its actions whole;
`RequestPipeline` EXTENDS `GatewayConfig`, whose tables its checks consult; both
limiters contain an INSTANCE of `FixedWindowBudget` under a refinement mapping
and are shown to implement it. `RequestPipeline` uses of the limiter only its
contract, a repeated request included, and of `Generation` only its outcomes;
`Generation` uses of the cache only that a call of `get` is refused at once,
returns, fails, or is abandoned.

Each module also holds, next to the operator concerned, the *mutants* of that
operator: what a plausible bug would make of it. They are used by no action;
putting one in the place of its operator must break the property named in
`PROJECT.json`.

### GenkitCache

A member of `Requests` is one call of `get` and names the entry that call
inserts if it misses. `entries` is the map; `readyAt`, `outcome`, `lastUsed` are
the fields of `cacheEntry` (`readyAt >= 0` is a closed `ready` channel, `outcome`
is `app`/`err`, and `cancel` is non-nil exactly when it is `"app"`); `inst` is
the instance `initApp` made and whether its context was cancelled; `builds` is
the WaitGroup as a set of calls; `closer` is how far `Close` has come.

A critical section under `mu` is one action, with one reading of the clock:
`GetClosed`, `GetHit`, `GetMiss` (lookup, removal of an expired entry, insertion,
`builds.Add`, eviction), `Publish`, `Fail`, `Sweep`, `MarkClosed`, `Drain`. What
runs outside the lock is a step of its own: `InitOk` (the return of `initApp`),
`Announce` (`close(e.ready)`), `Return` (the deferred `builds.Done`),
`AwaitReady`, `AwaitCancelled`, `StopJanitor`, `JanitorExit`.

Assumptions: SHA-256 does not collide. A failure of `pluginFor` and one of
`initApp` are both `Fail`. `get`'s unsupported-model return is left out, because
`Validate` has run `providerOf` on the same name. `Close` is called once, as its
comment demands. A due sweep runs at most `JanitorLag` late (the scheduler's
part in `IdleCredentialReleased`, which promises nothing without it).

`overtaken` and `peak` are history variables. The first records in-flight
entries removed by a lookup past the TTL, the exception that `SingleFlight`,
`LiveInstanceOwned` and `CloseReleasesAll` have to make, and that the run
`cache_orphan` and the theorem `NoOrphanWithoutTTL` are about.

### Shutdown

A member of `Requests` goes through the limiter (`Admit`), one call of the
cache's `get` (`Lookup`, `LookupStep`: the actions of `GenkitCache`), the
generation with the instance it got (`Generate`, `Answer`). `server` is how far
`main` has come: `Signal`; `Drained` or `GraceOver`, the two ways
`srv.Shutdown` returns; `CloseCache`, which is `MarkClosed` of the cache;
`CloseLimiter`, deferred before it and so run after it; `Exit`. After a grace
period that was too short, handlers run on beside the deferred calls and may
even begin anew, on a connection that was accepted before.

Simplifications: a request makes one call of `get` (an attempt that is retried is
another request), the cache is enabled, and a limiter that was closed fails open
(the in-memory one keeps counting: its `Close` does nothing).

### FixedWindowBudget, MemoryLimiter, RedisLimiter

`FixedWindowBudget` is the promise: a request is charged to a bucket (a key in a
window) and allowed exactly if something of its budget is left; spending is
forgotten only after the window, or when the store loses its data.

`MemoryLimiter`: `ReadClock` is lines 33-36, before the lock; `Decide` is lines
38-54, under it, pruning included. Time may pass between the two. A bucket's
count is 0 when it is not in the map. In the refinement mapping a bucket has
spent its count, or `Limit` if the count is higher, since denied calls are
counted too.

`RedisLimiter`: `Send` computes the full key from the *proxy's* clock, `Execute` is
the script on the *server's*, `Resend` is the client sending the same arguments
again, `Receive` takes the answer to the last try, and `Fail` is any error: `Allow`
then says yes. What was sent stays in `pending` and may run any time later, or
never. `LoseData` is a restart without the data or a failover. A counter set to
expire in the past is deleted on the spot (`AfterCount`), so that a proxy whose
clock is behind meets an empty counter. In the refinement every *run of the
script* is a request of the abstract budget: what is lost is the answer, not the
charge.

In both, the window and the limit are positive: callers skip `Allow` for a limit
of zero. The `EVALSHA`/`NOSCRIPT` round trip counts as a request that did not run.

### Generation

One request, unary or streaming. `StartAttempt` makes the deadline and asks for
an instance (waiting in the cache, or building); `MeetClosedCache` is the same
with a cache that is closed, which `get` looks at before anything else, so that no
wait or build under way ends that way. `Acquired`, `HandDelta`, `DeltaWritten`,
`DeltaLost`, `Completed`, `AttemptFails`, `Panic` are the rest of the attempt;
`GiveUp`, `BackOff`, `RetryPanics`, `Retry`, `AbandonWait` the loop of `retry.go`;
`RespondSuccess` and `RespondError` the handlers; `Recovered` what `Recover`
makes of a panic. Between `HandDelta` and `DeltaWritten` the handler is in a write
and flush; it is in one too when it ends a stream (`Writing`). `ServeStream` clears
the write deadline, so while a connected client does not read, time passes
(`WriteStalls`), `stalled` counts it up to `MaxStall`, and nothing of the proxy's
ends it. `wire` is what the handler wrote, with the attempt each chunk
came from. Errors are the kinds `classify` tells apart, with the proxy's own
(deadline, cancellation, a failed write, a closed cache, a failed
initialisation). `Ceiling` is `retryDelay` in signed words of `WordBits` bits: the
product wraps before it is capped, and `rand.N` panics on a bound that is not
positive.

Assumptions: provider calls honour their context, so a deadline ends a wait or a
generation; nothing ends a build early, since `genkit.Init` gets the cache's own
context, so it takes up to `InitTime`. A unary response goes into the server's
buffer, under `WRITE_TIMEOUT`, and waits for nobody. `MaxAttempts = 1` is also
`NewRetryingGenerator` returning its argument.

### GatewayConfig and RequestPipeline

`GatewayConfig` holds pure operators: a list from the environment is a sequence of
entries, an entry the sequence of its fields. `Starts` says whether `loadConfig`
and `buildCredentialResolver` let the process start; `ModelLimits`,
`StaticSecrets`, `Allows`, `LimitOf` and `SecretOf` are what the parsed tables
answer at request time. The secret values are non-empty.

In `RequestPipeline`, `config` is one such environment, well formed or not, and a
process that must not start takes no request. `Arrive` is CORS; `CheckGlobal` is
RateLimit, which wraps Logger and Metrics, so its denials go straight to
`"done"`; `Vet` is every check that reads nothing another request writes (bearer,
Authenticate, decoding, Validate, allowlist); `CheckModel` and `CheckStream` are
the handler's layers; `Resolve` sets the model slot and finds the provider key;
`Succeed`, `Fail` and `Panic` are the outcomes of `Generation`; `Observe` is
`CountRequest` (Metrics) and `LogRequest` (Logger) after the handler returned. The
limiter is the contract of `ratelimit.go`, as a backend that is asked over a
network keeps it: a call is counted in the window it is decided in (`Ask`), or the
backend fails, and then nobody knows whether it was; or the reply is lost and the
client repeats the request (`LoseReply`, kept in `repeats`), so that the same call is
charged twice. `NextWindow` is the end of a window, or the loss of the counters.
What this leaves out is a window that has ended and is counted again, which the
limiters' modules have. The tokens hold no colon, so that keys of different layers
differ.

### Conversation

`Request`, `Message`, `Part`, `Tool` and `ToolUse` are the structs of `request.go`
with the fields that matter; an optional field is a set of at most one value. A
client sends a request; `Examine` is `Validate` and the Genkit options made of
what passes. `Validate` returns the first problem (`FirstOf`) of what its parts
find in the order of the code: `OptionProblems`, `ToolProblems`,
`MessageProblems` and, in a message, `PartProblems`. `Generate` is the
model's answer and the response made of it, by either endpoint; `Continue` is the
client of `docs/api.md:148-165`, which appends the model's turn and its tools'
results and asks again. Texts are told apart by what the code asks of them
(empty, blank, JSON or not), JSON values by what decoding does to them: absent and
`null` become nil, and a number float64 cannot hold comes out rounded. Limits of
tuning values are whole units.

## 3. Runs

| Run | Bounds | Distinct states | Shows |
|---|---|---|---|
| `cache` | 3 calls, 3 keys, cap 1, TTL 1, clock to 3, no lag | 3.2 million | sharing, isolation, failures not kept, the real bound of the map, why entries leave, Close, residency of idle credentials |
| `shutdown` | 2 requests, 2 keys, cap 1, TTL 1, clock to 2 | 426 thousand | who is refused, whose instance is cancelled, that `get` returns and the process ends |
| `limiter` | 4 calls, 2 keys, limit 1, window 2, clock to 5, 1 bucket | 120 thousand | budgets, denials, pruning; implements `FixedWindowBudget` |
| `redis` | 2 calls, 1 key, skew 1, 1 retry, window 2, clock to 4, 1 data loss | 389 thousand | one budget for all proxies, true waits; implements `FixedWindowBudget` |
| `generation` | 4 attempts, timeout 2, build up to 3, 2 deltas, words of 4 bits, 1 stalled unit | 111 thousand | the response, the retries, the time they take |
| `pipeline` | 2 requests out of 11 kinds, 7 environments, limits 1 and 2, 2 windows, 1 backend failure or lost reply | 565 thousand | layered budgets, the configuration is what is served, credentials, metrics |
| `conversation` | every combination within each group of fields, answers of up to 2 calls, 1 follow-up | 91 thousand | what is refused, what is heard, what comes back |

Why these bounds: three calls are one builder, one that overtakes it and one that
waits; or two whose builds overlap, so that the map holds two built entries with
one slot, and a third, of a third key, that must choose between them by when they
were used. A clock of three TTLs covers use, expiry by lookup, a sweep that just
misses an entry, the next one, and a second life of the key; how late a sweep may
run (`JanitorLag`) is 0 here and arbitrary in the proof. In `shutdown` two requests
are one that is served and one that evicts it, waits for it, or comes too late. Two
requests never leave an eviction a choice; that it takes the least recently used
instance there too is the theorem `TornOnlyUnderPressure`.
Three windows let a call be decided two windows after it read the clock; with one
bucket every second key prunes. In `redis` two calls with a retry each are four
script runs, in two windows, on either side of a window's end by the skew. Four
attempts with a base of 2, a cap of 3 and 4 bits are: a delay below the cap, one
that is capped, one that overflows, and the last attempt, which must not wait.
Two requests contend for the last unit of every layer; the second window and the
one backend failure are what lets both get past the global layer, the lost reply what
has a call denied by its own first run. In
`conversation` the checks of `Validate` are grouped by the fields they read
together, so combinations across groups add no new case but the order of the
first problem, which no client depends on.

The violation runs each check one sentence of the repository against the model:

| Run | The sentence | What the code does |
|---|---|---|
| `cache_orphan` | "in-flight entries are never removed here", "a build is never orphaned" (`cache.go:160-173`) | a lookup past the TTL removes an in-flight entry; its instance is never cancelled |
| `cache_cap` | "caps the number of live entries at maxSize" (`cache.go:55-57`) | one victim per insert: the map stays over the cap after concurrent builds |
| `limiter_late` | `retryAfter`, "want > 0" (`ratelimit_test.go:63-65`) | a late call is denied with a wait of zero or less |
| `generation_timeout` | GENERATE_TIMEOUT "bounds the stream" (`docs/api.md:396`) | each attempt has the whole timeout |
| `conversation_text` | "`Output` is then empty" beside tool calls (`request.go:150-152`) | the text is passed on beside the calls |

In `generation_timeout` builds, backoffs and writes take no time, so that what the
trace shows is the second deadline and nothing else.

Fairness is assumed where a goroutine that can run does run, and nowhere else.
`Shutdown`: each call's own steps in the cache, among them the return of
`initApp`; the janitor and `Close` once begun; `main`, once the signal came, and
the end of its grace period. Not fair: requests arriving, clients giving up,
providers answering, the signal, the clock. `Generation`: the proxy's own steps,
the clock, and the end of a build (`FairSpec`); the provider owes nothing. For
`EventuallyDone` the client must read or leave besides (`ReadingSpec`: a write returns),
which the code does not enforce: without it the property is false, since a stream's
write has no deadline (section 6).

Deadlock is checked in every run; the only states without another step are those
of the `Terminated`, `Exited`, `Done` and `Over` actions.

## 4. Proofs

`GenkitCacheProofs` proves `Spec => []CacheInv` for every set of calls, keys, TTL,
cap and clock bound, from `CacheAssumption` alone (the calls are a finite set,
the numbers are natural). None of the properties is inductive. `CacheInv` adds
to them

* `EntriesInv`: an entry lies under its own call's key, is not a failure, and if
  it has no outcome its call is still in flight;
* `OutcomeInv`: `outcome` follows the builder's position, `ready` is closed only
  after it is set, and `builds` is exactly the calls that are building;
* `InstanceInv`: an instance exists from `initApp`'s return on, and is live until
  it was handed to the entry;
* `SourceInv`: a call waits for an entry of its own key (this is what isolation
  rests on);
* `FlightInv`: a build in flight is under its key unless overtaken (single
  flight is two uses of this);
* `ClosedInv`, `NoTTLInv`.

There is one lemma per action; `GetMiss` is the long one, because it removes an
expired entry, inserts and evicts in one step. `Sweep` and `Drain` share
`RemovalPreserves`. From the invariant follow type correctness,
`CredentialIsolation`, `SingleFlight`, `LiveInstanceOwned`, `CloseReleasesAll`,
`FailureNotCached`, and, for TTL = 0, `NoBuildOrphaned`: the orphaned build is an
effect of time-based eviction alone.

The bounds of the cache need more, and `BoundInv` adds it. `MapWithinPeak` is
about the one step in which the map can grow. Whatever is in it unannounced is a
build that is still in `builds`, and those number at most `peak` (`ReadyInv`); so
a map of more than `peak` entries holds one that is ready, a victim exists, and
`GetMiss` removes it. `IdleCredentialReleased` rests on `JanitorInv`: the next
tick is at most a TTL away, is met at most `JanitorLag` late, and comes before the
time of any built entry is over. `EntriesLeaveForCause` is an action property: a
failed build takes its own entry, a sweep what is expired, and a lookup what is
expired under its key or the victim, of which `MissRemoves` shows that no built entry
left in the map was used before it.

**The process.** `ProcessImplementsCache` is the composition: every step of
`Shutdown` is a step of the cache or leaves it alone, so `ShutdownSpec => Spec`, and
all that is proved of the cache holds inside the process. `ProcessInv` ties the
two together: the cache is closed only by `main` after `srv.Shutdown` returned,
which means that no handler is left unless the grace period ran out
(`ServerInv`); a handler is inside the cache, or generates with what it was given,
only in its phase, and one that the closed limiter let through finds a closed
cache (`PhaseInv`). From it follow `OnlyLateRequestsRefused` and
`UncountedNeverServed`, and, with one lemma on who may cancel an instance, the
action property `TornOnlyByPressure`: a cancellation is tied to the step that made it,
an eviction to the insert that had no room and chose the least recently used.

**The pipeline.** `RequestPipelineProofs` proves `Spec => []PipelineInv` for every
finite set of requests, every set of inputs and environments that
`PipelineAssumption` admits, and any number of windows and backend failures.
`BudgetPerLayer` says that requests *served* stay within a limit, and is not
inductive: a request is charged long before it is served, and in between others
are. `BudgetInv` counts instead, for a key and a window, the requests whose
charge was answered and which were not denied (`Passed`): a new one joins them only
when the number of *counted* charges, its own included, is at most the limit, and
every one of them is a charge. That the served are among them needs to know which
layers have charged a request at each point of its way, which is what `StepInv`
says, and that a key belongs to one token and one layer (`ChargeInv`); the same
facts carry `DenialIsDue`, `ServedAsConfigured` and `OwnCredentialOnly`. The last
two also need lemmas about `GatewayConfig`: the entry `LastOf` chooses is one of
the list (a minimal-counterexample argument over positions), a limit is a number,
a secret that `SecretOf` finds is the only sound entry of its name. `DenialIsDue` counts
what the backend counted: calls, and runs of the script that were repeated because a
reply was lost (`RepeatInv`), since with those a call can be denied by its own first
run. `MetricsInv` makes the counters equal to the number of requests logged under
their label, and `RecordInv` says what the label is without looking at the slot: the
provider of a generation that got past every check and limit, and nothing for
others. `OutsideInv` names the three who are answered and in no counter: preflights,
requests the global limit denied, and panics.

`PipelineAssumption` says, beyond the types of what `loadConfig` produces: no
model is called `""` (`Validate` refuses it); a list of the environment is a
sequence of entries; a limit is written as an integer; the hash of an empty token
is no tenant, no stored secret is the empty token, and `NoKey`, what `Resolve`
returns for vertexai, is told apart from `NoToken`, what a request holds before
`Resolve` has run.

**The limiters.** `FixedWindowBudgetProofs` proves that whatever implements the
abstract budget grants at most one budget per open window and life of the store,
and denies nobody before the budget was granted (`BudgetInv` relates `granted` to
`spent` and to the number of losses). `MemoryLimiterProofs` and
`RedisLimiterProofs` prove, for every number of calls, keys, retries and losses,
every skew and every window, that their specifications imply the abstract one
under its mapping (`LimiterImplementsBudget`, `RedisImplementsBudget`): the initial
states map to initial states, and every step to a step or a stutter. Both rest
on an inductive invariant. In memory it is `CountInv`: as long as a window has not
ended its bucket cannot have been pruned and counts at least what was admitted,
which needs that a reading of the clock is never ahead of it (`CallInv`). In
Redis it is `CounterInv` (a counter that is set has not outlived its window, and
accounts for what was granted since the last loss), `TryInv` (a try that may
still run has no reply, so a run is one step of the abstract budget) and
`DenialInv` (a denial under way was earned, and its wait reaches the end of its
window, and goes beyond it only if the script ran later than that). From them follow
type correctness, `OpenWindowBudget`, `NoSpuriousDenial`, and `SharedBudget` and
`RetryAfterSound`. The assumptions are `LimiterAssumption` and `RedisAssumption`:
positive budget and window, natural bounds.

**Generation.** `GenerationProofs` proves `Spec => []GenerationInv` for every number
of attempts and deltas, timeout, backoff and word width, from
`GenerationAssumption`. The properties speak of the finished response and are not
inductive; `WireInv` says exactly what is on the wire while the request runs:
nothing as long as no attempt has produced a delta (`started = chunkSent`, which is
why a retry always finds an empty wire), and else the headers and the deltas of
the *present* attempt, all of them but one whose write is under way or failed. The lemma
`TerminalEvent` turns it into the properties at the handler's last write,
`JSONBody` where nothing was written. From it follow type correctness,
`OneAttemptOnTheWire`, `ResponseWellFormed`, `DoneMeansComplete` and
`AnsweredUnlessPanicked`.

`ElapsedBounded` bounds the time of a request apart from what its client makes it
wait in writes (`stalled`), which has no bound. It has an invariant of its own,
`ElapsedInv`: at each stage, how far the clock and the deadline can be beyond
`Budget(base)[attempt]`, the time by which the attempt began but for the stalls. `DelayWithinPause` says that a product that wrapped is never
above the true one, so no overflow lengthens a backoff; `RetryElapsed` that the end
of a backoff is the next attempt's budget. The budget is a recursive function; that
it exists and satisfies its equations is proved by a minimal counterexample
(`SumsExist`, `BudgetAdds`), with the well-foundedness of `<` from the library.
`PowersArePositive` says that the powers of two in question are natural numbers:
true of all constants, evaluated by TLC, and unknown to the prover's backends.

**The conversation.** `ConversationProofs` proves `Spec => []ConversationInv` for any
first requests, whatever the model answers, any number of calls in an answer and
any number of turns; the run looks at one follow-up. The core is
`ValidateAcceptsWellFormed`: `Validate`, which stops at the first problem it meets,
accepts exactly what `WellFormed` describes, for every request. `WellFormed` is the
request body of `docs/api.md:42-66` less what no check looks at (section 6). `FirstOfNone` (a
sequence has a first problem if it has any), one lemma for each loop of the code
and `NamesDistinct` (as many names as tools means that none is repeated) make it
up. `RefusedIffMalformed` follows. `FollowUpFits` says that a client which replays
an answer has made a well-formed request that ends in the model's calls and
their results (`Replays`), whatever came before; being an invariant
(`FollowUpInv`), it gives `FollowUpAccepted` for every turn, and with `CallRoundTrip`
(what was marshalled for the client is, unmarshalled, what the model chose) it
gives `ToolCallsComeBack`. `AcceptedIsHeard` is `PartHeard`, `ConfigKept`, `PromptKept` and
`ToolsKept`: on parts that have one kind, and with a schema only beside the JSON
format, which `Validate` made sure of, the conversion is exact.
`TextDeliveredOnce` needs only that a response was made of the answer at hand.
`ConversationAssumption` types the constants: first requests have the shape of
`GenerateRequest`, an optional number is given at most once, and what a model or a
tool says are texts. `LiteralsAreStrings` states that some string literals are
strings, which TLC evaluates and no backend of the prover knows.

Only model-checked: liveness (`EventuallyDone`, `GetReturns`, `ShutdownCompletes`),
which is out of the prover's reach, as is ENABLED. Every other property of a
passing run is a theorem.

## 5. Not modelled

* The process: a second signal, `ListenAndServe` failing, the choice and the
  settings of the Redis client, the Vertex AI setup, reading single variables of
  the environment into fields.
* HTTP: RequestID, tracing, latency histograms, header contents, the probes' and
  metrics' bodies, wording of errors (`safeMessage`), JSON syntax.
* `WRITE_TIMEOUT` on responses that are not streams, and the server's other
  connection timeouts.
* `GENERATE_TIMEOUT=0` and a `RATE_LIMIT_WINDOW` of zero or less. The latter is
  accepted at startup, and `Truncate` then leaves the time as it is: every
  reading of the clock is a window of its own and nothing is limited.
* What cancelling an instance does to a generation that uses it: the library's
  business. `TornOnlyByPressure` says when it can happen.

## 6. Observations

Beside the violation runs, the code parts from what the repository says of it in
places that the properties allow for, each in its comment:

* "so credentials do not linger past the TTL even for keys that are never looked up
  again" (`cache.go:208-210`, likewise `README.md:201`): the janitor sweeps once per
  TTL and takes what has been idle for longer than one, so an entry that a sweep just
  misses stays for nearly another. `IdleCredentialReleased` is the bound the code
  keeps: two TTLs after the last use, or one after a build that took longer, and the
  lag of the sweep.
* "per-key request budgets within a fixed window" (`ratelimit.go:8`): the proxy
  computes the window, the Redis server's clock ends it (`redis.go:21`). While the
  server is ahead by more than is left of the window, the counter expires as soon as
  it is set and the proxy's callers are not limited. `SharedBudget` and `RetryAfterSound`
  speak of windows that are open by the server's clock.
* "A stream can outlast the configured WriteTimeout; rely on the per-request
  generation timeout instead" (`stream.go:96-97`): no timeout ends a write. A client
  that stays connected and stops reading holds the handler in `Fprintf` or `Flush`
  beyond every deadline. `ElapsedBounded` leaves that time out, and `EventuallyDone`
  assumes that the client reads or leaves.
* "a random value in [0, base*2^attempt) capped at 10s" (`retry.go:116-117`): with
  many attempts the product wraps before it is capped, to a smaller bound or to one
  that is not positive, on which `rand.N` panics; the request ends in a 500 where it
  should have been retried. The `generation` run reaches it (`RetryPanics`);
  `AnsweredUnlessPanicked` and `ElapsedBounded` hold all the same.
* "Total HTTP requests handled" (`docs/observability.md:72`) and "or empty for
  non-generation routes" (`docs/observability.md:82-84`, `metrics.go:97-99`): what the
  global limit denies and what panics is not counted at all, and a generation
  request that the allowlist, the model's or the stream's limit stopped is counted
  under an empty provider, because the slot is filled after them. `MetricsMatchAnswers`
  says exactly who is uncounted and who has a provider.
* "`url` is an `https://` URL or a `data:` URL" (`docs/api.md:61`): `Validate` asks only
  that it is not blank.
* A toolRequest is "replayed in a "model" turn", a toolResponse "sent in a "tool" turn"
  (`docs/api.md:62-63`, `request.go:38-39`): `Validate` checks roles and parts apart from
  each other and accepts either in any turn. `RefusedIffMalformed` is about what the
  checks look at, and leaves out both.

Further, without contradicting a sentence:

* `isRetryable` retries everything unclassified, a provider's 400 included; its
  comment speaks of transient conditions (`retry.go:105-106`).
* Requests the global limit denies, preflights and panics have no access-log line
  either (`docs/observability.md:28`: one "per completed request").
* A stream is charged on the global and the model layer before the stream layer
  denies it; nobody promises otherwise.
* A late call, or one from a proxy whose clock is behind, is counted in a window
  that has ended; after that window's bucket is gone it starts from an empty one.
  The promise of both limiters is about open windows only.
* `configFor` fills a struct without pointers: once one tuning option is given,
  another one given as zero and one not given at all look alike to Genkit
  (`generator.go:317-344`). `AcceptedIsHeard` can only demand zero for both.
* `toolChoice` without tools is dropped (the exception in `AcceptedIsHeard`); a blank
  `userMessage` beside messages is forwarded; JSON numbers pass through float64.
* Of two limits for one model in `RATE_LIMIT_MODELS` the later holds; of two
  values for a reference in `GATEWAY_SECRETS` the process does not start.

## 7. Plan

Done: the modules above. What is left, in this order:

1. An abstract keyed future for the cache (a call gets the result of some build
   of its own key that overlapped it, and what leaves is cancelled), with
   `GenkitCache` shown to implement it.
2. `Generation` against `Shutdown`: a request whose attempts meet a cache that
   closes between them.
