----------------------------- MODULE Generation -----------------------------
(***************************************************************************)
(* One admitted request of POST /v1/generate or /v1/generate/stream, from  *)
(* the handler's call of the generator to the last byte of the response:   *)
(* RetryingGenerator (retry.go) around GenkitGenerator (generator.go),     *)
(* the error classification (errors.go), what the handlers write (proxy.go,*)
(* stream.go) and Recover (middleware.go), against a provider that may     *)
(* answer, fail, hang or panic and a client that may leave, or stop         *)
(* reading, at any moment.                                                 *)
(***************************************************************************)
EXTENDS Integers, Sequences

CONSTANTS
  MaxAttempts,      \* RETRY_MAX_ATTEMPTS
  GenerateTimeout,  \* GENERATE_TIMEOUT in clock units
  BaseBackoffs,     \* values of RETRY_BASE_BACKOFF in clock units
  BackoffCap,       \* the 10s of retryDelay
  WordBits,         \* width of a time.Duration, 64 in the code
  InitTime,         \* longest genkit.Init takes; no context bounds it
  MaxChunks,        \* bound on the text deltas of one attempt
  MaxStall          \* bound on the time a client holds the handler in writes

\* GENERATE_TIMEOUT = 0 (no timeout of the proxy's own) is not modelled.
\* MaxAttempts = 1 is also NewRetryingGenerator returning inner unchanged.
ASSUME GenerationAssumption ==
  /\ MaxAttempts \in Nat \ {0} /\ GenerateTimeout \in Nat \ {0}
  /\ WordBits \in Nat \ {0} /\ MaxChunks \in Nat
  /\ BackoffCap \in 1..(2^(WordBits - 1) - 1)
  /\ BaseBackoffs \subseteq 0..(2^(WordBits - 1) - 1)
  /\ InitTime \in Nat /\ MaxStall \in Nat

\* True of every WordBits and MaxAttempts: what the prover's backends do not
\* know about powers.
ASSUME PowersArePositive ==
  2^WordBits \in Nat \ {0} /\ \A a \in 0..MaxAttempts : 2^a \in Nat

VARIABLES
  stream,     \* which endpoint the request came in on, fixed
  base,       \* RETRY_BASE_BACKOFF, fixed
  cached,     \* GENKIT_CACHE_ENABLED, fixed
  pc,         \* where the request stands
  attempt,    \* the retry loop's variable
  chunkSent,  \* the attempt has handed a delta to onChunk
  produced,   \* deltas the provider produced in this attempt
  error,      \* what the last attempt returned, "none" while it runs
  started,    \* ServeStream has sent the 200 and the SSE headers
  wire,       \* what the handler has written, in order
  connected,  \* the client is still there
  clock,      \* since the generator was called
  due,        \* deadline of the attempt, or end of the backoff
  stalled     \* history: time spent in writes the client did not take

vars == <<stream, base, cached, pc, attempt, chunkSent, produced, error, started, wire,
          connected, clock, due, stalled>>

-----------------------------------------------------------------------------
(* classify, statusFor and isRetryable                                     *)

\* What a provider call or the instance cache can fail with.  ValidationError
\* and ErrUnsupportedProvider cannot: Validate has rejected such requests.
CacheErrors == {"cacheClosed", "initFailed"}
ProviderErrors == {"unauthenticated", "permissionDenied", "rateLimit", "gatewayTimeout",
                   "notFound", "badRequest", "serverError"}
Errors == CacheErrors \cup ProviderErrors \cup {"deadline", "canceled", "write", "panic"}

\* Untyped errors and every status without a case of its own are upstream.
Category ==
  [e \in Errors |->
     CASE e \in {"unauthenticated", "permissionDenied", "rateLimit", "notFound"} -> e
       [] e \in {"gatewayTimeout", "deadline", "canceled"} -> "timeout"
       [] OTHER -> "upstream"]

StatusOf ==
  [unauthenticated |-> 401, permissionDenied |-> 403, rateLimit |-> 429,
   timeout |-> 504, notFound |-> 404, upstream |-> 502]

IsRetryable(e) == Category[e] \in {"rateLimit", "upstream"}

Larger(a, b) == IF a >= b THEN a ELSE b
Smaller(a, b) == IF a <= b THEN a ELSE b

\* Signed arithmetic of WordBits bits.
Wrapped(n) ==
  LET word == n % 2^WordBits IN IF word < 2^(WordBits - 1) THEN word ELSE word - 2^WordBits

\* retryDelay: base * (1 << attempt), at most the cap.
Ceiling(a) == Smaller(Wrapped(base * 2^a), BackoffCap)

\* rand.N panics unless its bound is positive.
Overflows(a) == base > 0 /\ Ceiling(a) <= 0
Delays(a) == IF base = 0 THEN {0} ELSE 0..(Ceiling(a) - 1)

-----------------------------------------------------------------------------
(* GenkitGenerator: one attempt                                            *)

\* Mutant of Deadline: each attempt gets the time of the whole loop.
DeadlineOfLoop == clock + MaxAttempts * GenerateTimeout

Deadline == clock + GenerateTimeout

\* Generate / GenerateStream: a fresh timeout on the request's context, then
\* an instance: waited for in the cache, or built by this very call.
StartAttempt ==
  /\ pc = "attempt"
  /\ error # "cacheClosed"   \* a cache once closed stays closed
  /\ pc' \in IF cached THEN {"awaiting", "building"} ELSE {"building"}
  /\ chunkSent' = FALSE
  /\ produced' = 0
  /\ error' = "none"
  /\ due' = Deadline
  /\ UNCHANGED <<stream, base, cached, attempt, started, wire, connected, clock, stalled>>

\* The same, with a cache that is closed: get refuses before anything else.
MeetClosedCache ==
  /\ pc = "attempt"
  /\ cached
  /\ chunkSent' = FALSE
  /\ produced' = 0
  /\ error' = "cacheClosed"
  /\ due' = Deadline
  /\ pc' = "failed"
  /\ UNCHANGED <<stream, base, cached, attempt, started, wire, connected, clock, stalled>>

\* The instance is there.
Acquired ==
  /\ pc \in {"awaiting", "building"}
  /\ pc' = "generating"
  /\ UNCHANGED <<stream, base, cached, attempt, chunkSent, produced, error, started, wire,
                 connected, clock, due, stalled>>

Start == IF started THEN wire ELSE Append(wire, <<"sse">>)

\* A non-empty text delta goes through the retry wrapper to onChunk, which
\* writes and flushes it.
HandDelta ==
  /\ pc = "generating"
  /\ stream
  /\ produced < MaxChunks
  /\ produced' = produced + 1
  /\ chunkSent' = TRUE
  /\ started' = TRUE
  /\ wire' = Start
  /\ pc' = "writing"
  /\ UNCHANGED <<stream, base, cached, attempt, error, connected, clock, due, stalled>>

\* The write and the flush return.  Nothing makes them: the connection has no
\* write deadline and the context does not reach them.
DeltaWritten ==
  /\ pc = "writing"
  /\ wire' = Append(wire, <<"chunk", attempt>>)
  /\ pc' = "generating"
  /\ UNCHANGED <<stream, base, cached, attempt, chunkSent, produced, error, started,
                 connected, clock, due, stalled>>

\* Mutant of AfterLostDelta: onChunk's error is dropped, the stream goes on.
AfterLostDeltaOn == "generating"

AfterLostDelta == "failed"

\* The same, with the client gone: the write or the flush fails.
DeltaLost ==
  /\ pc = "writing"
  /\ ~connected
  /\ error' = "write"
  /\ pc' = AfterLostDelta
  /\ UNCHANGED <<stream, base, cached, attempt, chunkSent, produced, started, wire,
                 connected, clock, due, stalled>>

Completed ==
  /\ pc = "generating"
  /\ pc' = "succeeded"
  /\ UNCHANGED <<stream, base, cached, attempt, chunkSent, produced, error, started, wire,
                 connected, clock, due, stalled>>

\* Mutant of TimesOut: the provider call is not given the deadline.
TimesOutWaiting == pc = "awaiting" /\ clock >= due

TimesOut == pc \in {"awaiting", "generating"} /\ clock >= due

\* The attempt returns an error.  The context ends a wait or a provider call,
\* not a build: genkit.Init runs with the cache's own context, or ignores it;
\* nor a write.
AttemptFails(e) ==
  /\ \/ pc \in {"awaiting", "building"} /\ cached /\ e = "initFailed"
     \/ pc = "generating" /\ e \in ProviderErrors
     \/ TimesOut /\ e = "deadline"
     \/ pc \in {"awaiting", "generating"} /\ e = "canceled" /\ ~connected
  /\ error' = e
  /\ pc' = "failed"
  /\ UNCHANGED <<stream, base, cached, attempt, chunkSent, produced, started, wire,
                 connected, clock, due, stalled>>

-----------------------------------------------------------------------------
(* RetryingGenerator                                                       *)

\* Mutants of MayRetry: one attempt too many; an attempt that reached the
\* client is retried.
MayRetryOnceMore == ~chunkSent /\ IsRetryable(error) /\ attempt < MaxAttempts
MayRetryAnything == IsRetryable(error) /\ attempt < MaxAttempts - 1

MayRetry == ~chunkSent /\ IsRetryable(error) /\ attempt < MaxAttempts - 1

GiveUp ==
  /\ pc = "failed"
  /\ ~MayRetry
  /\ pc' = "errored"
  /\ UNCHANGED <<stream, base, cached, attempt, chunkSent, produced, error, started, wire,
                 connected, clock, due, stalled>>

BackOff ==
  /\ pc = "failed"
  /\ MayRetry
  /\ ~Overflows(attempt)
  /\ \E d \in Delays(attempt) : due' = clock + d
  /\ pc' = "backoff"
  /\ UNCHANGED <<stream, base, cached, attempt, chunkSent, produced, error, started, wire,
                 connected, clock, stalled>>

Retry ==
  /\ pc = "backoff"
  /\ clock >= due
  /\ attempt' = attempt + 1
  /\ pc' = "attempt"
  /\ UNCHANGED <<stream, base, cached, chunkSent, produced, error, started, wire,
                 connected, clock, due, stalled>>

\* ctx.Done() won the select.
AbandonWait ==
  /\ pc = "backoff"
  /\ ~connected
  /\ error' = "canceled"
  /\ pc' = "errored"
  /\ UNCHANGED <<stream, base, cached, attempt, chunkSent, produced, started, wire,
                 connected, clock, due, stalled>>

-----------------------------------------------------------------------------
(* The handlers' answer                                                    *)

\* The handler is in a write and flush to the client's connection; what a
\* unary response or an error before the first byte puts into the server's
\* buffer does not wait for the client.
Writing ==
  \/ pc = "writing"
  \/ pc = "succeeded" /\ stream
  \/ pc = "errored" /\ started

RespondSuccess ==
  /\ pc = "succeeded"
  /\ wire' = IF stream THEN Append(Start, <<"done">>) ELSE <<<<"json", 200>>>>
  /\ started' = stream
  /\ pc' = "done"
  /\ UNCHANGED <<stream, base, cached, attempt, chunkSent, produced, error,
                 connected, clock, due, stalled>>

\* Mutants of ErrorAnswer: a JSON error whatever was sent before; nothing for
\* a stream that has started.
ErrorAnswerJSON == <<<<"json", StatusOf[Category[error]]>>>>
ErrorAnswerSilent ==
  IF started THEN <<>> ELSE <<<<"json", StatusOf[Category[error]]>>>>

ErrorAnswer ==
  IF started THEN <<<<"error", Category[error]>>>>
             ELSE <<<<"json", StatusOf[Category[error]]>>>>

RespondError ==
  /\ pc = "errored"
  /\ wire' = wire \o ErrorAnswer
  /\ pc' = "done"
  /\ UNCHANGED <<stream, base, cached, attempt, chunkSent, produced, error, started,
                 connected, clock, due, stalled>>

\* What Recover can still answer once a panic has unwound to it: nothing if
\* anything was written.
Recovered ==
  /\ wire' = IF started THEN wire ELSE <<<<"json", 500>>>>
  /\ error' = "panic"
  /\ pc' = "done"
  /\ UNCHANGED <<stream, base, cached, attempt, chunkSent, produced, started,
                 connected, clock, due, stalled>>

\* A panic below the handler.  In a build the cache turns it into an error.
Panic ==
  /\ \/ pc = "generating"
     \/ pc = "building" /\ ~cached
  /\ Recovered

\* A panic in retryDelay, after more attempts than the word has room for.
RetryPanics == pc = "failed" /\ MayRetry /\ Overflows(attempt) /\ Recovered

-----------------------------------------------------------------------------
(* The environment                                                         *)

\* net/http cancels the request's context when the client goes.
Disconnect ==
  /\ pc # "done"
  /\ connected
  /\ connected' = FALSE
  /\ UNCHANGED <<stream, base, cached, pc, attempt, chunkSent, produced, error, started, wire,
                 clock, due, stalled>>

\* Time passes while the request waits for someone else: a context or timer
\* wakes it at due, a build takes at most InitTime.
TimePasses ==
  /\ \/ pc \in {"awaiting", "generating", "backoff"} /\ clock < due
     \/ pc = "building" /\ clock < due - GenerateTimeout + InitTime
  /\ clock' = clock + 1
  /\ UNCHANGED <<stream, base, cached, pc, attempt, chunkSent, produced, error, started, wire,
                 connected, due, stalled>>

\* Time passes while the client takes nothing: nothing wakes the handler.
WriteStalls ==
  /\ Writing
  /\ connected
  /\ stalled < MaxStall
  /\ stalled' = stalled + 1
  /\ clock' = clock + 1
  /\ UNCHANGED <<stream, base, cached, pc, attempt, chunkSent, produced, error, started, wire,
                 connected, due>>

Tick == TimePasses \/ WriteStalls

Done == pc = "done" /\ UNCHANGED vars

Init ==
  /\ stream \in BOOLEAN
  /\ base \in BaseBackoffs
  /\ cached \in BOOLEAN
  /\ pc = "attempt"
  /\ attempt = 0
  /\ chunkSent = FALSE
  /\ produced = 0
  /\ error = "none"
  /\ started = FALSE
  /\ wire = <<>>
  /\ connected = TRUE
  /\ clock = 0
  /\ due = 0
  /\ stalled = 0

\* What the proxy's own goroutine does, and the contexts that wake it.
Proxy ==
  \/ StartAttempt \/ MeetClosedCache \/ GiveUp \/ BackOff \/ RetryPanics \/ Retry \/ AbandonWait
  \/ RespondSuccess \/ RespondError \/ DeltaLost
  \/ AttemptFails("deadline") \/ AttemptFails("canceled")

Upstream ==
  \/ Acquired \/ HandDelta \/ Completed \/ Panic
  \/ \E e \in {"initFailed"} \cup ProviderErrors : AttemptFails(e)

Next == Proxy \/ Upstream \/ DeltaWritten \/ Disconnect \/ Tick \/ Done

Spec == Init /\ [][Next]_vars

\* The goroutine runs, unless a client that is there holds it in a write; time
\* passes and genkit.Init returns; the provider and the client owe nothing.
FairSpec ==
  /\ Spec
  /\ WF_vars(Proxy /\ ~(Writing /\ connected))
  /\ WF_vars(Tick)
  /\ WF_vars(pc = "building" /\ Acquired)

\* The client reads, or leaves.
ReadingSpec == FairSpec /\ WF_vars(Writing /\ (DeltaWritten \/ RespondSuccess \/ RespondError))

-----------------------------------------------------------------------------
(* Properties                                                              *)

States == {"attempt", "awaiting", "building", "generating", "writing", "failed",
           "backoff", "succeeded", "errored", "done"}

Events == {<<"sse">>, <<"done">>} \cup ({"chunk"} \X (0..MaxAttempts - 1))
          \cup ({"error"} \X {Category[e] : e \in Errors})
          \cup ({"json"} \X {200, 401, 403, 404, 429, 500, 502, 504})

\* Every variable has its type.
TypeOK ==
  /\ stream \in BOOLEAN /\ chunkSent \in BOOLEAN /\ started \in BOOLEAN
  /\ connected \in BOOLEAN /\ base \in BaseBackoffs /\ cached \in BOOLEAN
  /\ pc \in States
  /\ attempt \in 0..(MaxAttempts - 1)
  /\ produced \in 0..MaxChunks
  /\ error \in Errors \cup {"none"}
  /\ wire \in Seq(Events)
  /\ clock \in Nat /\ due \in Nat /\ stalled \in 0..MaxStall

ChunksWritten == {i \in DOMAIN wire : wire[i][1] = "chunk"}

\* The text a client reads is the text of one attempt: nothing an abandoned
\* attempt produced is followed by the output of a retry (retry.go:68-79).
OneAttemptOnTheWire ==
  \A i \in ChunksWritten : wire[i][2] = attempt

\* The response is one JSON body, or SSE headers followed by chunks and at
\* most one terminal event, whatever fails when (stream.go:100-155,
\* middleware.go:52).
ResponseWellFormed ==
  \A i \in DOMAIN wire :
    /\ wire[i][1] = "json" => Len(wire) = 1
    /\ wire[i][1] = "sse" <=> i = 1 /\ wire[i][1] # "json"
    /\ wire[i][1] \in {"done", "error"} => i = Len(wire) /\ pc = "done"

\* A "done" event, or a JSON 200, ends a response that lacks nothing: every
\* delta the provider produced was written (generator.go:161-162,
\* stream.go:107-115).
DoneMeansComplete ==
  /\ <<"done">> \in {wire[i] : i \in DOMAIN wire} =>
       \A n \in 1..produced : wire[n + 1] = <<"chunk", attempt>>
  /\ <<"json", 200>> \in {wire[i] : i \in DOMAIN wire} => error = "none"

\* The request ends with an answer: the handler never leaves without a
\* terminal event or a JSON body, except by a panic after the first chunk,
\* which ends the stream with neither.
AnsweredUnlessPanicked ==
  pc = "done" =>
    \/ \E i \in DOMAIN wire : wire[i][1] \in {"json", "done", "error"}
    \/ error = "panic" /\ started

\* The longest attempt, or build that outlasts it; the longest pause after
\* attempt a; what the attempts before each one can have taken together.
AttemptTime == Larger(GenerateTimeout, InitTime)
Pause(b, a) == Larger(Smaller(b * 2^a, BackoffCap) - 1, 0)
Budget(b) ==
  LET spent[a \in 0..MaxAttempts] ==
        IF a = 0 THEN 0 ELSE spent[a - 1] + AttemptTime + Pause(b, a - 1)
  IN spent

\* How long a request can take, apart from the time its client makes it wait in
\* writes: each attempt its own timeout, or a build that took longer, and each
\* backoff "in [0, base*2^attempt) capped at 10s", which an overflowing product
\* must not exceed either (generator.go:80-84, 105-109, retry.go:31-55, 116-127).
ElapsedBounded ==
  clock <= Budget(base)[attempt] + AttemptTime + stalled
           + IF pc \in {"backoff", "errored", "done"} THEN Pause(base, attempt) ELSE 0

\* Every request is answered though the provider may hang for ever: the
\* attempt's deadline ends it, if the client reads what it is sent or leaves.
EventuallyDone == <>(pc = "done")

-----------------------------------------------------------------------------
(* What the documents say and the code does not do                         *)

\* "The per-request generation timeout (GENERATE_TIMEOUT) bounds the stream"
\* (docs/api.md:396): each attempt is given the whole of it again.
StreamBoundedByTimeout == stream => clock <= GenerateTimeout

=============================================================================
