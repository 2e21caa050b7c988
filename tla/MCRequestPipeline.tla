------------------------- MODULE MCRequestPipeline -------------------------
(* A finite instance of RequestPipeline for TLC. *)
EXTENDS RequestPipeline, TLC

CONSTANTS alice, bob, stranger, gemini, gpt, vertex, banned,
          googleai, openai, vertexai, aliceKey, bobKey, aliceRef, bobRef, goneRef

MCProviderOf ==
  gemini :> googleai @@ gpt :> openai @@ vertex :> vertexai @@ banned :> vertexai

\* alice has no OpenAI key; bob's refers to a secret that is not there.
Tenants ==
  HashKey(alice) :> [tenant |-> "a", providers |-> googleai :> aliceRef] @@
  HashKey(bob)   :> [tenant |-> "b", providers |-> googleai :> bobRef @@ openai :> goneRef]

\* A limit for one model, given twice, one for one provider, none for the others.
Gateway ==
  [gatewayAuth |-> TRUE,
   globalLimit |-> 1, streamLimit |-> 1,
   providerLimits |-> googleai :> 2 @@ openai :> 1 @@ vertexai :> 0,
   modelLimits |-> << <<gemini, 2>>, <<>>, <<gemini, 1>> >>,
   allowlist |-> << <<googleai>>, <<>>, <<gpt>>, <<vertex>> >>,
   tenants |-> Tenants,
   secrets |-> << <<aliceRef, aliceKey>>, <<bobRef, bobKey>> >>]

\* Raw pass-through, with secrets nobody looks at.
PassThrough ==
  [Gateway EXCEPT !.gatewayAuth = FALSE, !.globalLimit = 0, !.modelLimits = <<>>,
                  !.providerLimits[googleai] = 1, !.allowlist = << <<>> >>,
                  !.secrets = << <<aliceRef>> >>]

\* What keeps the process from starting.
Malformed ==
  {[Gateway EXCEPT !.secrets = @ \o << <<aliceRef, bobKey>> >>],
   [Gateway EXCEPT !.secrets = << <<aliceRef>> >>],
   [Gateway EXCEPT !.tenants[HashKey(bob)].tenant = ""],
   [PassThrough EXCEPT !.modelLimits = << <<gemini, 0>> >>],
   [PassThrough EXCEPT !.modelLimits = << <<gemini>> >>]}

MCConfigs == {Gateway, PassThrough} \cup Malformed

Sent(route, token, model) ==
  [route |-> route, token |-> token, model |-> model, valid |-> TRUE]

\* Two tokens on both routes and all kinds of limits and secrets, and what is
\* turned away.
MCInputs ==
  {Sent("generate", alice, gemini), Sent("stream", alice, gemini),
   Sent("generate", alice, gpt), Sent("stream", bob, gpt),
   Sent("stream", bob, gemini), Sent("generate", bob, vertex),
   Sent("generate", stranger, gemini), Sent("generate", bob, banned),
   Sent("other", NoToken, gemini), Sent("preflight", NoToken, gemini),
   [Sent("generate", alice, gpt) EXCEPT !.valid = FALSE]}

\* Requests are interchangeable.
RequestSymmetry == Permutations(Requests)
=============================================================================
