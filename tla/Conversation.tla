---------------------------- MODULE Conversation ----------------------------
(***************************************************************************)
(* What is said between a client, the proxy and a provider over the turns  *)
(* of a tool-calling conversation: the checks of GenerateRequest.Validate  *)
(* (request.go), the Genkit options an accepted request becomes and the    *)
(* response a provider's answer becomes (generator.go), and the follow-up  *)
(* request in which the client replays the model's tool calls.  The proxy  *)
(* keeps nothing between two turns.                                        *)
(*                                                                         *)
(* Texts are told apart by what the code asks of them: "" and "blank" are  *)
(* empty to strings.TrimSpace, "json" is valid JSON.  An optional field is *)
(* a set of at most one value.  A decoded JSON value is "nil", "object" or *)
(* "rounded", an object whose numbers float64 could not hold.              *)
(***************************************************************************)
EXTENDS Integers, FiniteSets, Sequences, Functions

CONSTANTS
  Inputs,     \* first requests of a conversation, see Request
  Texts,      \* texts a model may answer with
  Refs,       \* references a provider may give a tool call
  CallInputs, \* decoded arguments a model may choose for a tool call
  Results,    \* JSON results a client's tool may have
  MaxCalls,   \* bound on the tool calls in one answer
  MaxTurns    \* bound on the answers of a conversation

Tuning == {"temperature", "maxOutputTokens", "topP", "topK"}

ModelName == [provider : STRING, slash : BOOLEAN, model : STRING]
Tool == [name : STRING, inputSchema : SUBSET STRING]
Media == [contentType : STRING, url : STRING]
ToolUse == [name : STRING, ref : STRING, json : STRING]
Part == [text : STRING, media : SUBSET Media, toolRequest : SUBSET ToolUse,
         toolResponse : SUBSET ToolUse]
Message == [role : STRING, content : STRING, parts : Seq(Part)]
Request ==
  [modelName : ModelName, userMessage : STRING, systemPrompt : STRING,
   temperature : SUBSET Int, maxOutputTokens : SUBSET Int, topP : SUBSET Int,
   topK : SUBSET Int, stopSequences : SUBSET STRING, responseFormat : STRING,
   outputSchema : SUBSET STRING, messages : Seq(Message), tools : Seq(Tool),
   toolChoice : STRING]

AtMostOne(S) == \A x, y \in S : x = y

ASSUME ConversationAssumption ==
  /\ MaxCalls \in Nat /\ MaxTurns \in Nat
  /\ Inputs \subseteq Request
  /\ \A r \in Inputs, f \in Tuning : AtMostOne(r[f])
  /\ Texts \subseteq STRING /\ Refs \subseteq STRING /\ Results \subseteq STRING
  /\ CallInputs \subseteq {"nil", "object", "rounded"}

\* True in TLA+, and said because no backend of the prover knows it.
ASSUME LiteralsAreStrings ==
  {"", "user", "model", "tool", "json", "roundedNumber"} \subseteq STRING

VARIABLES
  stream,    \* the endpoint the client uses, fixed
  pc,
  req,       \* the request of this turn
  verdict,   \* the field of the first problem, <<>> for nil
  prompt,    \* what the Genkit options say, {} before
  answer,    \* the model's answer of this turn, {} before
  response,  \* what the client was sent, {} before
  turn       \* follow-ups so far

vars == <<stream, pc, req, verdict, prompt, answer, response, turn>>

-----------------------------------------------------------------------------
(* GenerateRequest.Validate                                                *)

Blank(text) == text \in {"", "blank"}

\* A model name is cut at its first slash; providers are "known" or "unknown".
Supported(name) == name.slash /\ name.provider = "known" /\ ~Blank(name.model)

\* A problem is the field it names, <<>> for none.
Problem(field, ok) == IF ok THEN <<>> ELSE field

\* Of several problems the first is returned.
FirstOf(problems) ==
  LET found == {i \in DOMAIN problems : problems[i] # <<>>} IN
  IF found = {} THEN <<>>
  ELSE problems[CHOOSE i \in found : \A j \in found : i <= j]

\* Numbers are whole units of what the bounds are given in.
OptionProblems(r) ==
  << Problem(<<"modelName">>, r.modelName.slash \/ ~Blank(r.modelName.provider)),
     Problem(<<"modelName", "provider">>, Supported(r.modelName)),
     Problem(<<"userMessage">>, ~Blank(r.userMessage) \/ r.messages # <<>>),
     Problem(<<"temperature">>, \A t \in r.temperature : t \in 0..2),
     Problem(<<"maxOutputTokens">>, \A n \in r.maxOutputTokens : n >= 1),
     Problem(<<"topP">>, \A p \in r.topP : p \in 0..1),
     Problem(<<"topK">>, \A k \in r.topK : k >= 1),
     Problem(<<"responseFormat">>, r.responseFormat \in {"", "json"}),
     Problem(<<"outputSchema">>, r.outputSchema = {} \/ r.responseFormat = "json"),
     Problem(<<"toolChoice">>, r.toolChoice \in {"", "auto", "required", "none"}) >>

ToolProblems(r, i) ==
  << Problem(<<"tools", i, "name">>, ~Blank(r.tools[i].name)),
     Problem(<<"tools", i, "unique">>,
             \A h \in 1..(i - 1) : r.tools[h].name # r.tools[i].name) >>

Kinds == {"text", "media", "toolRequest", "toolResponse"}
Has(part, kind) == IF kind = "text" THEN ~Blank(part.text) ELSE part[kind] # {}

\* Mutant of OneKind: any number of kinds will do.
SomeKind(part) == \E kind \in Kinds : Has(part, kind)
OneKind(part) == Cardinality({kind \in Kinds : Has(part, kind)}) = 1

\* Part.validate
PartProblems(part, i, j) ==
  << Problem(<<"messages", i, "parts", j>>, OneKind(part)),
     Problem(<<"messages", i, "parts", j, "contentType">>,
             \A m \in part.media : ~Blank(m.contentType)),
     Problem(<<"messages", i, "parts", j, "url">>, \A m \in part.media : ~Blank(m.url)),
     Problem(<<"messages", i, "parts", j, "toolRequest">>,
             \A c \in part.toolRequest : ~Blank(c.name)),
     Problem(<<"messages", i, "parts", j, "toolResponse">>,
             \A c \in part.toolResponse : ~Blank(c.name)) >>

\* Mutant of ContentOrParts: both at once will do.
ContentAndParts(m) == ~Blank(m.content) \/ m.parts # <<>>
ContentOrParts(m) == Blank(m.content) <=> m.parts # <<>>

\* Mutant of Roles: the role of tool results is forgotten.
RolesOfSpeakers == {"user", "model"}
Roles == {"user", "model", "tool"}

MessageProblems(m, i) ==
  << Problem(<<"messages", i, "role">>, m.role \in Roles),
     Problem(<<"messages", i>>, ContentOrParts(m)),
     FirstOf([j \in DOMAIN m.parts |-> FirstOf(PartProblems(m.parts[j], i, j))]) >>

\* The first problem, in the order the code looks for them.
Validate(r) ==
  FirstOf(<< FirstOf(OptionProblems(r)),
             FirstOf([i \in DOMAIN r.tools |-> FirstOf(ToolProblems(r, i))]),
             FirstOf([i \in DOMAIN r.messages |-> FirstOf(MessageProblems(r.messages[i], i))]) >>)

-----------------------------------------------------------------------------
(* generateOptions and toolOptions                                         *)

Values(optional, default) == IF optional = {} THEN default ELSE CHOOSE v \in optional : TRUE

\* rawToAny of an absent value, null, an object, and one with a number that
\* float64 cannot hold.
RawToAny(json) ==
  CASE json \in {"", "null"} -> "nil" [] json = "json" -> "object"
    [] json \in {"bigNumber", "roundedNumber"} -> "rounded"

ToolPart(tool) == [tool EXCEPT !.json = RawToAny(tool.json)]

\* partFrom
PartFrom(part) ==
  CASE part.media # {} ->
         [kind |-> "media", body |-> Values(part.media, {})]
    [] part.media = {} /\ part.toolRequest # {} ->
         [kind |-> "toolRequest", body |-> ToolPart(Values(part.toolRequest, {}))]
    [] part.media = {} /\ part.toolRequest = {} /\ part.toolResponse # {} ->
         [kind |-> "toolResponse", body |-> ToolPart(Values(part.toolResponse, {}))]
    [] OTHER -> [kind |-> "text", body |-> part.text]

\* messagesFrom
MessagesFrom(r) ==
  [i \in DOMAIN r.messages |->
     LET m == r.messages[i] IN
     [role |-> m.role,
      parts |-> IF m.parts # <<>> THEN [j \in DOMAIN m.parts |-> PartFrom(m.parts[j])]
                ELSE <<[kind |-> "text", body |-> m.content]>>]]

\* Mutant of Tuned: an option is only looked at if temperature is given.
TunedByTemperature(r) == r.temperature # {}
Tuned(r) == (\E f \in Tuning : r[f] # {}) \/ r.stopSequences # {}

\* configFor: what is not given is the zero of its type.
ConfigFor(r) ==
  IF Tuned(r)
    THEN {[f \in Tuning |-> Values(r[f], 0)]} \X {r.stopSequences}
    ELSE {}

Options(r) ==
  [model |-> r.modelName,
   prompt |-> {r.userMessage} \ {""},
   system |-> {r.systemPrompt} \ {""},
   messages |-> MessagesFrom(r),
   config |-> ConfigFor(r),
   format |-> {r.responseFormat} \cap {"json"},
   schema |-> IF r.responseFormat = "json" THEN r.outputSchema ELSE {},
   tools |-> [i \in DOMAIN r.tools |->
                [name |-> r.tools[i].name,
                 schema |-> Values(r.tools[i].inputSchema, "object")]],
   toolChoice |-> IF r.tools = <<>> THEN {} ELSE {r.toolChoice} \ {""}]

-----------------------------------------------------------------------------
(* The response                                                            *)

\* Mutant of OutputAndData: text that was asked for as JSON is taken for it.
OutputAndDataUnchecked(r, text) ==
  IF r.responseFormat = "json" THEN <<"", {text}>> ELSE <<text, {}>>

\* outputAndData; json.Valid holds of "json" only.
OutputAndData(r, text) ==
  IF r.responseFormat = "json" /\ text = "json" THEN <<"", {text}>> ELSE <<text, {}>>

Marshal(value) ==
  CASE value = "nil" -> "" [] value = "object" -> "json" [] value = "rounded" -> "roundedNumber"

\* Mutant of CallsFrom: the reference of a call is dropped.
CallsFromUnreferenced(calls) ==
  [i \in DOMAIN calls |-> [name |-> calls[i].name, ref |-> "", json |-> Marshal(calls[i].json)]]

\* toolCallsFrom
CallsFrom(calls) == [i \in DOMAIN calls |-> [calls[i] EXCEPT !.json = Marshal(@)]]

\* Generate; the stream has sent the text in chunks and its "done" event
\* repeats neither output nor data.
Respond(r, a) ==
  LET text == OutputAndData(r, a.text) IN
  [streamed |-> IF stream THEN a.text ELSE "",
   output |-> IF stream THEN "" ELSE text[1],
   data |-> IF stream THEN {} ELSE text[2],
   toolCalls |-> CallsFrom(a.calls)]

-----------------------------------------------------------------------------
(* The client's next turn (docs/api.md:148-165)                            *)

PartOf(text, asked, told) ==
  [text |-> text, media |-> {}, toolRequest |-> asked, toolResponse |-> told]
ToolUseOf(call, json) == [name |-> call.name, ref |-> call.ref, json |-> json]
TextPart(text) == PartOf(text, {}, {})
CallPart(call) == PartOf("", {call}, {})
ResultPart(call, json) == PartOf("", {}, {ToolUseOf(call, json)})

TextOf(res) ==
  IF stream THEN res.streamed ELSE Values(res.data, res.output)

\* A turn without a text says nothing in that place.
NonBlank(text) == IF Blank(text) THEN <<>> ELSE <<text>>

\* The question, the model's turn as it came and the tools' results are added
\* to the history; tools and options are sent again.
FollowUp(r, res, results) ==
  LET question == NonBlank(r.userMessage)
      said     == NonBlank(TextOf(res))
      calls    == res.toolCalls
  IN
  [r EXCEPT
     !.userMessage = "",
     !.messages = @
       \o [i \in DOMAIN question |-> [role |-> "user", content |-> question[i], parts |-> <<>>]]
       \o << [role |-> "model", content |-> "",
              parts |-> [i \in DOMAIN said |-> TextPart(said[i])]
                        \o [i \in DOMAIN calls |-> CallPart(calls[i])]],
             [role |-> "tool", content |-> "",
              parts |-> [i \in DOMAIN calls |-> ResultPart(calls[i], results[i])]] >>]

-----------------------------------------------------------------------------
\* ServeHTTP / ServeStream, after decoding.
Examine ==
  /\ pc = "sent"
  /\ verdict' = Validate(req)
  /\ pc' = IF verdict' = <<>> THEN "accepted" ELSE "rejected"
  /\ prompt' = IF verdict' = <<>> THEN {Options(req)} ELSE {}
  /\ UNCHANGED <<stream, req, answer, response, turn>>

\* A call names a tool that was declared; its arguments were decoded.
Callable == {t.name : t \in Range(req.tools)}
Calls == [name : Callable, ref : Refs, json : CallInputs]
Answers ==
  [text : Texts, calls : UNION {[1..n -> Calls] : n \in 0..MaxCalls}]

\* The provider's model answers; it calls tools only if it was given some.
Generate ==
  /\ pc = "accepted"
  /\ turn < MaxTurns
  /\ \E a \in Answers :
       /\ answer' = {a}
       /\ response' = {Respond(req, a)}
  /\ pc' = "answered"
  /\ UNCHANGED <<stream, req, verdict, prompt, turn>>

\* The client runs the tools and sends their results back.
Continue ==
  /\ pc = "answered"
  /\ \E res \in response :
       /\ res.toolCalls # <<>>
       /\ \E results \in [DOMAIN res.toolCalls -> Results] :
            req' = FollowUp(req, res, results)
  /\ pc' = "sent"
  /\ turn' = turn + 1
  /\ UNCHANGED <<stream, verdict, prompt, answer, response>>

Over ==
  /\ \/ pc = "rejected"
     \/ pc = "accepted" /\ turn = MaxTurns
     \/ pc = "answered" /\ \A res \in response : res.toolCalls = <<>>
  /\ UNCHANGED vars

Init ==
  /\ stream \in BOOLEAN
  /\ pc = "sent"
  /\ req \in Inputs
  /\ verdict = <<>>
  /\ prompt = {}
  /\ answer = {}
  /\ response = {}
  /\ turn = 0

Next == Examine \/ Generate \/ Continue \/ Over

Spec == Init /\ [][Next]_vars

-----------------------------------------------------------------------------
(* Properties                                                              *)

\* What request.go:169-230 calls well formed, field by field and in no order: the
\* request body of docs/api.md:42-66 as far as anything looks at it.  Nothing does
\* at the form of a schema or of a media type, at whether a media URL is an https
\* or a data URL (api.md:61), or at whether a tool's part stands in the turn it
\* belongs to (api.md:62-63).
WellFormed(r) ==
  /\ Supported(r.modelName)
  /\ Blank(r.userMessage) => r.messages # <<>>
  /\ r.temperature \subseteq 0..2 /\ r.topP \subseteq 0..1
  /\ \A n \in r.maxOutputTokens \cup r.topK : n > 0
  /\ r.responseFormat = "json" \/ (r.responseFormat = "" /\ r.outputSchema = {})
  /\ r.toolChoice \in {"", "auto", "required", "none"}
  /\ \A t \in Range(r.tools) : ~Blank(t.name)
  /\ Cardinality({t.name : t \in Range(r.tools)}) = Len(r.tools)
  /\ \A m \in Range(r.messages) :
       /\ m.role \in {"user", "model", "tool"}
       /\ \/ ~Blank(m.content) /\ m.parts = <<>>
          \/ Blank(m.content) /\ m.parts # <<>>
       /\ \A p \in Range(m.parts) :
            \E kind \in Kinds :
              /\ Has(p, kind) /\ \A other \in Kinds \ {kind} : ~Has(p, other)
              /\ \A x \in p.media : ~Blank(x.contentType) /\ ~Blank(x.url)
              /\ \A x \in p.toolRequest \cup p.toolResponse : ~Blank(x.name)

\* In whatever combination the faults come, and in whichever message or part, a
\* request is refused if there is one and only then: no check is passed over
\* because an earlier one was made or a loop was left (request.go:171-268).
RefusedIffMalformed ==
  pc # "sent" => (verdict = <<>> <=> WellFormed(req))

\* What a part says in one of the kinds.
Content(part, kind) ==
  CASE kind = "text" -> part.text
    [] kind = "media" -> Values(part.media, {})
    [] OTHER -> ToolPart(Values(part[kind], {}))

\* What a request says: where, in which kind, and what.
Said(r) ==
  UNION {
    IF r.messages[i].parts = <<>>
      THEN {<<i, r.messages[i].role, 1, "text", r.messages[i].content>>}
      ELSE UNION {
        {<<i, r.messages[i].role, j, kind, Content(r.messages[i].parts[j], kind)>> :
           kind \in {k \in Kinds : Has(r.messages[i].parts[j], k)}} :
        j \in DOMAIN r.messages[i].parts} :
    i \in DOMAIN r.messages}

\* And what the provider hears.
Heard(p) ==
  UNION {{<<i, p.messages[i].role, j, p.messages[i].parts[j].kind, p.messages[i].parts[j].body>> :
            j \in DOMAIN p.messages[i].parts} :
         i \in DOMAIN p.messages}

\* The tools that were declared, in order, each with the schema it was given.
ToolsHeard(p) ==
  /\ [i \in DOMAIN p.tools |-> p.tools[i].name] = [i \in DOMAIN req.tools |-> req.tools[i].name]
  /\ \A i \in DOMAIN req.tools :
       req.tools[i].inputSchema # {} => p.tools[i].schema \in req.tools[i].inputSchema
  /\ req.tools # <<>> => p.toolChoice = {req.toolChoice} \ {""}

\* The numbers that were given, and the zero that stands for none.
TuningHeard(p) ==
  /\ \A f \in Tuning, v \in UNION {req[g] : g \in Tuning} :
       v \in req[f] => \E c \in p.config : c[1][f] = v
  /\ \A f \in Tuning : req[f] = {} => \A c \in p.config : c[1][f] = 0
  /\ req.stopSequences # {} => \E c \in p.config : c[2] = req.stopSequences

\* Of an accepted request no part of the conversation and no option is lost or
\* made up on the way to the provider: what partFrom, messagesFrom and
\* generateOptions would pass over, a second kind in a part, parts beside
\* content, a schema without the JSON format or another format, Validate has
\* refused.  Two things apart: JSON numbers beyond float64 are rounded, and a
\* tool choice without tools is dropped (generator.go:167-225, 256-344).
AcceptedIsHeard ==
  pc \in {"accepted", "answered"} => \A p \in prompt :
    /\ Heard(p) = Said(req)
    /\ p.model = req.modelName
    /\ p.prompt = {req.userMessage} \ {""} /\ p.system = {req.systemPrompt} \ {""}
    /\ p.format = {req.responseFormat} \ {""} /\ p.schema = req.outputSchema
    /\ TuningHeard(p) /\ ToolsHeard(p)

\* The text of an answer reaches the client at most once and, if no tool is
\* called, does reach it: as chunks, as output, or, only if JSON was asked for
\* and it is JSON, as data (generator.go:246-254).
TextDeliveredOnce ==
  pc = "answered" => \A res \in response, a \in answer :
    /\ a.calls = <<>> => TextOf(res) = a.text
    /\ res.data # {} => res.output = "" /\ req.responseFormat = "json" /\ a.text = "json"
    /\ Cardinality({t \in {<<"streamed", res.streamed>>, <<"output", res.output>>}
                          \cup ({"data"} \X res.data) : t[2] # ""}) <= 1

\* request.go:150-152: tool calls are "Present only when tools were provided and
\* the model chose to call one; Output is then empty", and docs/api.md:372-373:
\* "a tool-call turn produces no text `chunk`s".  The text of a model that says
\* something and calls a tool is passed on like any other.
CallsComeAlone ==
  pc = "answered" => \A res \in response :
    res.toolCalls # <<>> => res.output = "" /\ res.streamed = ""

\* A client that replays what it was answered is never turned away, whatever
\* mix of text and tool calls that was (docs/api.md:148-152, request.go).
FollowUpAccepted ==
  turn > 0 => pc # "rejected"

\* And the model finds its own tool calls in the history it is sent, in order,
\* each with the result that names its reference: the proxy, which keeps no
\* state, has neither lost nor renamed one (generator.go:226-245, 286-309).
ToolCallsComeBack ==
  turn > 0 /\ pc = "accepted" => \A p \in prompt, a \in answer :
    LET model == p.messages[Len(p.messages) - 1]
        tools == p.messages[Len(p.messages)]
        asked == {j \in DOMAIN model.parts : model.parts[j].kind = "toolRequest"}
        first == Len(model.parts) - Len(a.calls)
    IN
    /\ asked = (first + 1)..Len(model.parts)
    /\ \A i \in DOMAIN a.calls : model.parts[first + i].body = a.calls[i]
    /\ [i \in DOMAIN tools.parts |-> <<tools.parts[i].body.name, tools.parts[i].body.ref>>]
         = [i \in DOMAIN a.calls |-> <<a.calls[i].name, a.calls[i].ref>>]

=============================================================================
