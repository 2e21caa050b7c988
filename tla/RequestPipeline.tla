--------------------------- MODULE RequestPipeline ---------------------------
(***************************************************************************)
(* The way of concurrent requests through the middleware chain of          *)
(* cmd/app/main.go (CORS, Recover, RequestID, RateLimit, Logger, Metrics)  *)
(* and the checks of the two generation handlers, down to the generator.   *)
(* What requests share is the limiter, with its three layers of budgets,   *)
(* and the metrics.                                                        *)
(*                                                                         *)
(* The limiter counts a call in the window it is decided in, or its backend*)
(* fails and nobody knows whether the call was counted, or a reply is lost *)
(* and the Redis client counts the call once more.  Calls decided after    *)
(* the end of their window are left to MemoryLimiter and RedisLimiter.     *)
(* GatewayConfig says what the tables the checks consult were made from.   *)
(* What the generator does is any outcome of module Generation.            *)
(***************************************************************************)
EXTENDS GatewayConfig

CONSTANTS
  Requests,
  Inputs,        \* the requests that may arrive, see Input
  Configs,       \* the environments the process may be started in
  NoToken,       \* no bearer token
  NoSecret,      \* the tenant has no reference for the provider
  Unavailable,   \* the reference is not in the secret source
  NoKey,         \* the empty key, for vertexai
  VertexAI,      \* the provider that authenticates on its own
  MaxWindow,     \* bound on the windows
  MaxErrors      \* bound on the limiter's failed calls and lost replies

Input == [route : {"preflight", "other", "generate", "stream"},
          token : {i.token : i \in Inputs},
          model : Models,
          valid : BOOLEAN]

ASSUME PipelineAssumption ==
  /\ IsFiniteSet(Requests)
  /\ Inputs \subseteq Input
  /\ MaxWindow \in Nat /\ MaxErrors \in Nat
  /\ "" \notin Models /\ NoKey # NoToken
  /\ \A c \in Configs :
       /\ c.gatewayAuth \in BOOLEAN
       /\ c.globalLimit \in Nat /\ c.streamLimit \in Nat
       /\ c.providerLimits \in [Providers -> Nat]
       /\ HashKey(NoToken) \notin DOMAIN c.tenants
       /\ IsList(c.modelLimits) /\ IsList(c.secrets)
       /\ \A e \in Entries(c.modelLimits) : Sound(e) => e[2] \in Int
       /\ \A e \in Entries(c.secrets) : Sound(e) => e[2] # NoToken

VARIABLES
  config,       \* the environment, fixed
  req,          \* the request, fixed
  pc,           \* where it stands
  window,       \* the limiter's current window
  charges,      \* what each call of Allow for the request came to
  repeats,      \* runs that counted a call and whose reply was lost
  status,       \* first status written, 0 before
  slot,         \* modelSlot: the model, and whether usage was reported
  apiKey,       \* what Resolve returned, NoToken before
  logged,       \* requests Logger wrote a line for
  counted,      \* http_requests: count per status and provider label
  tokens        \* llm_tokens: generations counted per provider label

vars == <<config, req, pc, window, charges, repeats, status, slot, apiKey,
          logged, counted, tokens>>

-----------------------------------------------------------------------------
(* The layers of the rate limit                                            *)

Global == <<"global">>
Stream == <<"stream">>

Tags == {Global, Stream} \cup {ModelTag(config, m) : m \in Models}

\* Mutant of Key: the token is left out.
KeyOfLayer(t, tag) == <<tag>>

\* rateLimitKey hashes token, colon and tag: distinct for tokens without one.
Key(t, tag) == <<t, tag>>

\* What the limiter has counted under a key in the current window: each call
\* once, and the runs of the script that were repeated.
Count(k) ==
  Cardinality({r \in Requests :
    \E c \in charges[r] : c.key = k /\ c.window = window /\ c.counted})
  + Cardinality({l \in repeats : l.key = k /\ l.window = window})

\* "fail open": a call the backend did not answer is let through.
Denies(replied, count, tag) == replied /\ count > LimitOf(config, tag)

\* Mutant of AfterDenial: the 429 is written and the request goes on.
AfterDenialOn(next, denied) == next

AfterDenial(next, denied) == denied

Advance(r, step) == pc' = [pc EXCEPT ![r] = step]

\* statusWriter: the first status is the one that counts.
Answer(r, code) == status' = [status EXCEPT ![r] = IF @ = 0 THEN code ELSE @]

\* What has gone wrong with the backend so far.
Errors ==
  Cardinality({x \in Requests \X Tags : \E c \in charges[x[1]] : c.tag = x[2] /\ ~c.replied})
  + Cardinality(repeats)

\* One answer of Allow.  A backend that fails may have counted the call all the
\* same.
Ask(r, tag, next, denied) ==
  LET k == Key(req[r].token, tag) IN
  \E replied, isCounted \in BOOLEAN :
    /\ IF replied THEN isCounted ELSE Errors < MaxErrors
    /\ charges' = [charges EXCEPT ![r] = @ \cup
         {[tag |-> tag, key |-> k, window |-> window, replied |-> replied, counted |-> isCounted]}]
    /\ \/ /\ Denies(replied, Count(k) + 1, tag)
          /\ Answer(r, 429)
          /\ Advance(r, AfterDenial(next, denied))
       \/ /\ ~Denies(replied, Count(k) + 1, tag)
          /\ Advance(r, next)
          /\ UNCHANGED status
    /\ UNCHANGED repeats

\* The script ran and its reply was lost: the client sends it again, and the
\* call is still waiting.
LoseReply(r, tag) ==
  /\ Errors < MaxErrors
  /\ repeats' = repeats \cup
       {[request |-> r, tag |-> tag, key |-> Key(req[r].token, tag), window |-> window,
         run |-> Cardinality(repeats)]}
  /\ UNCHANGED <<pc, charges, status>>

Allow(r, tag, next, denied) == LoseReply(r, tag) \/ Ask(r, tag, next, denied)

Skip(r, next) == Advance(r, next) /\ UNCHANGED <<charges, repeats, status>>

-----------------------------------------------------------------------------
(* The middleware chain                                                    *)

\* CORS, the outermost, answers a preflight itself.  A process with a
\* malformed environment is gone before it listens.
Arrive(r) ==
  /\ pc[r] = "arriving"
  /\ Starts(config)
  /\ IF req[r].route = "preflight"
       THEN Answer(r, 204) /\ Advance(r, "done")
       ELSE Advance(r, "global") /\ UNCHANGED status
  /\ UNCHANGED <<config, req, window, charges, repeats, slot, apiKey, logged, counted, tokens>>

\* RateLimit, outside Logger and Metrics.
CheckGlobal(r) ==
  /\ pc[r] = "global"
  /\ IF config.globalLimit > 0 /\ req[r].token # NoToken
       THEN Allow(r, Global, "vetting", "done")
       ELSE Skip(r, "vetting")
  /\ UNCHANGED <<config, req, window, slot, apiKey, logged, counted, tokens>>

\* The provider of the model the handler recorded, if it got that far.
ProviderLabel(r) == IF slot[r].model \in Models THEN ProviderOf[slot[r].model] ELSE ""

\* Mutant of CountedStatus: the default of statusWriter, whatever was written.
CountedStatusDefault(r) == 200
CountedStatus(r) == status[r]

\* Metrics.Middleware
CountRequest(r) ==
  LET label == <<CountedStatus(r), ProviderLabel(r)>> IN
  /\ counted' = [l \in DOMAIN counted \cup {label} |->
       (IF l \in DOMAIN counted THEN counted[l] ELSE 0) + (IF l = label THEN 1 ELSE 0)]
  /\ tokens' = IF slot[r].usage
                 THEN [tokens EXCEPT ![ProviderLabel(r)] = @ + 1] ELSE tokens

\* Logger
LogRequest(r) == logged' = logged \cup {r}

\* What both do once the handler has returned.
Observe(r) ==
  /\ pc[r] = "observe"
  /\ CountRequest(r)
  /\ LogRequest(r)
  /\ Advance(r, "done")
  /\ UNCHANGED <<config, req, window, charges, repeats, status, slot, apiKey>>

-----------------------------------------------------------------------------
(* The handlers                                                            *)

\* CredentialResolver.Authenticate: the pass-through accepts any token.
Authentic(t) == t # NoToken /\ (config.gatewayAuth => KnownTenant(config, t))

\* What the request is refused with before any budget of the handler is
\* charged: bearerToken and Authenticate, Decode and Validate, allowModel.
Refusal(i) ==
  CASE ~Authentic(i.token) -> 401
    [] Authentic(i.token) /\ ~i.valid -> 400
    [] Authentic(i.token) /\ i.valid /\ ~Allows(config, i.model) -> 403
    [] OTHER -> 0

\* These checks read nothing another request writes.  Other routes are the
\* mux's: probes, metrics, or no such path or method.
Vet(r) ==
  /\ pc[r] = "vetting"
  /\ \/ /\ req[r].route = "other"
        /\ \E code \in {200, 404, 405} : Answer(r, code)
        /\ Advance(r, "observe")
     \/ /\ req[r].route # "other"
        /\ Refusal(req[r]) # 0
        /\ Answer(r, Refusal(req[r]))
        /\ Advance(r, "observe")
     \/ /\ req[r].route # "other"
        /\ Refusal(req[r]) = 0
        /\ Advance(r, "model")
        /\ UNCHANGED status
  /\ UNCHANGED <<config, req, window, charges, repeats, slot, apiKey, logged, counted, tokens>>

\* checkModelLimit
CheckModel(r) ==
  LET tag  == ModelTag(config, req[r].model)
      next == IF req[r].route = "stream" THEN "stream" ELSE "resolving"
  IN
  /\ pc[r] = "model"
  /\ IF LimitOf(config, tag) > 0 THEN Allow(r, tag, next, "observe") ELSE Skip(r, next)
  /\ UNCHANGED <<config, req, window, slot, apiKey, logged, counted, tokens>>

CheckStream(r) ==
  /\ pc[r] = "stream"
  /\ IF config.streamLimit > 0
       THEN Allow(r, Stream, "resolving", "observe") ELSE Skip(r, "resolving")
  /\ UNCHANGED <<config, req, window, slot, apiKey, logged, counted, tokens>>

Secret(t, p) == SecretOf(config, t, p, NoSecret, Unavailable)

\* Mutant of ProviderKey: the gateway token goes upstream for want of a secret.
ProviderKeyOrToken(t, p) ==
  CASE ~config.gatewayAuth -> t
    [] config.gatewayAuth /\ p = VertexAI -> NoKey
    [] config.gatewayAuth /\ p # VertexAI /\ Secret(t, p) = NoSecret -> t
    [] OTHER -> Secret(t, p)

\* CredentialResolver.Resolve
ProviderKey(t, p) ==
  CASE ~config.gatewayAuth -> t
    [] config.gatewayAuth /\ p = VertexAI -> NoKey
    [] OTHER -> Secret(t, p)

Resolve(r) ==
  LET key == ProviderKey(req[r].token, ProviderOf[req[r].model]) IN
  /\ pc[r] = "resolving"
  /\ slot' = [slot EXCEPT ![r].model = req[r].model]
  /\ \/ /\ key = NoSecret /\ Answer(r, 403) /\ Advance(r, "observe") /\ UNCHANGED apiKey
     \/ /\ key = Unavailable /\ Answer(r, 500) /\ Advance(r, "observe") /\ UNCHANGED apiKey
     \/ /\ key \notin {NoSecret, Unavailable}
        /\ apiKey' = [apiKey EXCEPT ![r] = key]
        /\ Advance(r, "generating")
        /\ UNCHANGED status
  /\ UNCHANGED <<config, req, window, charges, repeats, logged, counted, tokens>>

\* A complete generation; the provider may or may not report its usage.
Succeed(r) ==
  /\ pc[r] = "generating"
  /\ Answer(r, 200)
  /\ \E reported \in BOOLEAN : slot' = [slot EXCEPT ![r].usage = reported]
  /\ Advance(r, "observe")
  /\ UNCHANGED <<config, req, window, charges, repeats, apiKey, logged, counted, tokens>>

\* Mutant of FailureCodes: the error path returns without an answer.
FailureCodesSilent(r) == {0}

\* A failed one: a status of statusFor, or an error event in a 200 stream.
\* 429 and 502 stand for all of them: the provider's 429 is no denial.
FailureCodes(r) == {429, 502} \cup IF req[r].route = "stream" THEN {200} ELSE {}

Fail(r) ==
  /\ pc[r] = "generating"
  /\ \E code \in FailureCodes(r) : Answer(r, code)
  /\ Advance(r, "observe")
  /\ UNCHANGED <<config, req, window, charges, repeats, slot, apiKey, logged, counted, tokens>>

\* A panic unwinds through Metrics and Logger to Recover.
Panic(r) ==
  /\ pc[r] = "generating"
  /\ \E code \in {500} \cup IF req[r].route = "stream" THEN {200} ELSE {} : Answer(r, code)
  /\ Advance(r, "done")
  /\ UNCHANGED <<config, req, window, charges, repeats, slot, apiKey, logged, counted, tokens>>

-----------------------------------------------------------------------------
\* Counting starts over: a window ends, or Redis loses its data.
NextWindow ==
  /\ Starts(config)
  /\ window < MaxWindow
  /\ window' = window + 1
  /\ UNCHANGED <<config, req, pc, charges, repeats, status, slot, apiKey, logged, counted, tokens>>

Terminated ==
  /\ Starts(config) => \A r \in Requests : pc[r] = "done"
  /\ UNCHANGED vars

Init ==
  /\ config \in Configs
  /\ req \in [Requests -> Inputs]
  /\ pc = [r \in Requests |-> "arriving"]
  /\ window = 0
  /\ charges = [r \in Requests |-> {}]
  /\ repeats = {}
  /\ status = [r \in Requests |-> 0]
  /\ slot = [r \in Requests |-> [model |-> "", usage |-> FALSE]]
  /\ apiKey = [r \in Requests |-> NoToken]
  /\ logged = {}
  /\ counted = [l \in {} |-> 0]
  /\ tokens = [p \in Providers |-> 0]

Next ==
  \/ \E r \in Requests :
       \/ Arrive(r) \/ CheckGlobal(r) \/ Vet(r) \/ CheckModel(r) \/ CheckStream(r)
       \/ Resolve(r) \/ Succeed(r) \/ Fail(r) \/ Panic(r) \/ Observe(r)
  \/ NextWindow
  \/ Terminated

Spec == Init /\ [][Next]_vars

-----------------------------------------------------------------------------
(* Properties                                                              *)

Steps == {"arriving", "global", "vetting", "model", "stream", "resolving",
          "generating", "observe", "done"}
Codes == {200, 204, 400, 401, 403, 404, 405, 429, 500, 502}
Tokens == {i.token : i \in Inputs}

\* Every variable has its type, and whoever is done was answered.
TypeOK ==
  /\ config \in Configs
  /\ req \in [Requests -> Inputs]
  /\ pc \in [Requests -> Steps]
  /\ window \in 0..MaxWindow
  /\ status \in [Requests -> Codes \cup {0}]
  /\ slot \in [Requests -> [model : Models \cup {""}, usage : BOOLEAN]]
  /\ logged \subseteq Requests
  /\ tokens \in [Providers -> 0..Cardinality(Requests)]
  /\ \A r \in Requests : pc[r] \in {"observe", "done"} => status[r] # 0

\* The request was handed to the generator.
Served(r) == apiKey[r] # NoToken

\* The calls of a token that a layer has counted in a window, and the runs
\* repeated for them.
CallsOf(t, tag, w) ==
  {r \in Requests :
     req[r].token = t /\ \E c \in charges[r] : c.tag = tag /\ c.window = w /\ c.counted}
RepeatsOf(t, tag, w) ==
  {l \in repeats : req[l.request].token = t /\ l.tag = tag /\ l.window = w}

\* No token gets more generations out of a window than the smallest budget on
\* their way, whichever way the requests interleave between the layers
\* (middleware.go:153-188, proxy.go:225-256, stream.go:56-74).  The exceptions:
\* calls the backend failed to answer are let through, a window in which Redis
\* lost its data counts as two, and a call decided after its window's end can
\* reopen a count that was pruned (MemoryLimiter).
BudgetPerLayer ==
  \A t \in Tokens, w \in 0..MaxWindow :
    \A tag \in UNION {{c.tag : c \in charges[r]} : r \in Requests} :
      Cardinality({r \in CallsOf(t, tag, w) : Served(r) /\
                     \E c \in charges[r] : c.tag = tag /\ c.window = w /\ c.replied})
        <= LimitOf(config, tag)

\* The proxy denies a request only when what was counted for the same token on
\* one layer in one window is more than that budget: no other tenant and no
\* other layer can cause it, and a backend that does not answer none at all.
\* Runs repeated after a lost reply do count, so a call can be denied by its
\* own first run (proxy.go:258-274, redis.go:50).
DenialIsDue ==
  \A r \in Requests : status[r] = 429 /\ ~Served(r) =>
    \E c \in charges[r] :
      /\ c.replied
      /\ Cardinality(CallsOf(req[r].token, c.tag, c.window))
           + Cardinality(RepeatsOf(req[r].token, c.tag, c.window)) > LimitOf(config, c.tag)

\* What reaches the generator is permitted by the environment and went through
\* every layer that has a limit, the one of RATE_LIMIT_MODELS before that of
\* the provider (policy.go:36-50, config.go:227-243).
ServedAsConfigured ==
  \A r \in Requests : Served(r) =>
    LET i == req[r]
        p == ProviderOf[i.model]
        listed == {l \in DOMAIN config.modelLimits :
                     config.modelLimits[l] # <<>> /\ config.modelLimits[l][1] = i.model}
    IN
    /\ (\E e \in Entries(config.allowlist) : TRUE) =>
         \E e \in Entries(config.allowlist) : e[1] \in {i.model, p}
    /\ {c.tag : c \in charges[r]} =
         (IF config.globalLimit > 0 THEN {Global} ELSE {}) \cup
         (IF i.route = "stream" /\ config.streamLimit > 0 THEN {Stream} ELSE {}) \cup
         (IF listed # {} THEN {<<"model", i.model>>}
          ELSE IF config.providerLimits[p] > 0 THEN {<<"provider", p>>} ELSE {})

\* And with a credential of the caller's own: behind gateway authentication
\* the one secret the caller's tenant refers to for the provider asked for,
\* never the gateway token, and none for vertexai (credentials.go:46-73,
\* resolver.go:85-103).
OwnCredentialOnly ==
  \A r \in Requests : Served(r) =>
    LET i == req[r]
        p == ProviderOf[i.model]
        t == config.tenants[HashKey(i.token)]
    IN
    /\ ~config.gatewayAuth => apiKey[r] = i.token
    /\ config.gatewayAuth /\ p = VertexAI =>
         apiKey[r] = NoKey /\ HashKey(i.token) \in DOMAIN config.tenants
    /\ config.gatewayAuth /\ p # VertexAI =>
         /\ p \in DOMAIN t.providers
         /\ {e \in Entries(config.secrets) : e[1] = t.providers[p]}
              = {<<t.providers[p], apiKey[r]>>}

\* The handler got as far as the generator's credential: the request was not
\* refused, and no limit denied it.
Recorded(r) ==
  /\ req[r].route \in {"generate", "stream"} /\ Refusal(req[r]) = 0
  /\ ~(status[r] = 429 /\ ~Served(r))

\* Who is answered outside Logger and Metrics: a preflight, by CORS; a request
\* the global limit denies, by RateLimit; a generation that panics, by Recover or
\* with the 200 its stream began with.
AnsweredOutside(r) ==
  \/ req[r].route = "preflight"
  \/ status[r] = 429 /\ ~Served(r) /\ \A c \in charges[r] : c.tag = Global
  \/ Served(r) /\ status[r] \in {200, 500}

\* The counters agree with the access log, and both with the answers: a logged
\* request is counted once, under the status it was answered with and, if it was
\* a generation that neither a check nor a limit stopped, the provider of its
\* model; tokens are counted only for answers of 200; and nobody else is answered
\* unlogged (main.go:124-131, metrics.go:100-141).  Less than what is said of the
\* metrics: "Total HTTP requests handled" (observability.md:72), and the
\* provider of every generation request (observability.md:82-84).
MetricsMatchAnswers ==
  /\ \A l \in DOMAIN counted : counted[l] = Cardinality(
       {r \in logged : status[r] = l[1] /\
          l[2] = IF Recorded(r) THEN ProviderOf[req[r].model] ELSE ""})
  /\ \A r \in logged : \E l \in DOMAIN counted : l[1] = status[r]
  /\ \A p \in Providers : tokens[p] <= Cardinality(
       {r \in logged : Served(r) /\ status[r] = 200 /\ ProviderOf[req[r].model] = p})
  /\ \A r \in Requests : pc[r] = "done" => r \in logged \/ AnsweredOutside(r)

=============================================================================
