--------------------------- MODULE MCConversation ---------------------------
(* A finite instance of Conversation for TLC. *)
EXTENDS Conversation

Name(provider, slash, model) == [provider |-> provider, slash |-> slash, model |-> model]

Base ==
  [modelName |-> Name("known", TRUE, "text"), userMessage |-> "text", systemPrompt |-> "",
   temperature |-> {}, maxOutputTokens |-> {}, topP |-> {}, topK |-> {},
   stopSequences |-> {}, responseFormat |-> "", outputSchema |-> {},
   messages |-> <<>>, tools |-> <<>>, toolChoice |-> ""]

Spaces == {"", "blank", "text"}
Opt(S) == {{}} \cup {{x} : x \in S}

Turn(role, content, parts) == [role |-> role, content |-> content, parts |-> parts]
Declared(name, schema) == [name |-> name, inputSchema |-> schema]

\* One group of fields at a time, in every combination of its values.
Names ==
  {[Base EXCEPT !.modelName = Name(p, s, m), !.userMessage = u, !.systemPrompt = y,
                !.messages = h] :
     p \in {"", "blank", "known", "unknown"}, s \in BOOLEAN, m \in Spaces,
     u \in Spaces, y \in {"", "text"}, h \in {<<>>, <<Turn("user", "text", <<>>)>>}}
  \ {r \in {[Base EXCEPT !.modelName = Name(p, FALSE, m)] :
              p \in {"", "blank", "known", "unknown"}, m \in Spaces} :
       r.modelName.model # ""}

Tunings ==
  {[Base EXCEPT !.temperature = t, !.maxOutputTokens = n, !.topP = p, !.topK = k,
                !.stopSequences = s] :
     t \in Opt({-1, 0, 2, 3}), n \in Opt({0, 1}), p \in Opt({-1, 0, 1, 2}),
     k \in Opt({0, 1}), s \in Opt({"text"})}

Formats ==
  {[Base EXCEPT !.responseFormat = f, !.outputSchema = s, !.tools = t, !.toolChoice = c] :
     f \in {"", "json", "xml"}, s \in Opt({"schema"}),
     t \in {<<>>, <<Declared("t1", {})>>, <<Declared("t1", {"schema"}), Declared("t2", {})>>},
     c \in {"", "auto", "required", "none", "other"}}

Tools ==
  {[Base EXCEPT !.tools = <<Declared(a, {}), Declared(b, {})>>] :
     a \in {"", "blank", "t1"}, b \in {"", "blank", "t1", "t2"}}

Parts ==
  [text : Spaces,
   media : Opt([contentType : {"", "text"}, url : {"blank", "https"}]),
   toolRequest : Opt([name : {"blank", "t1"}, ref : {"ref1"}, json : {"null", "bigNumber"}]),
   toolResponse : Opt([name : {"", "t1"}, ref : {""}, json : {"", "json"}])]

Histories ==
  {[Base EXCEPT !.messages = <<Turn(r, c, p)>>] :
     r \in {"user", "model", "tool", "system"}, c \in Spaces,
     p \in {<<>>} \cup {<<q>> : q \in Parts}}
  \cup
  {[Base EXCEPT !.messages = <<Turn("user", "text", <<>>), Turn("model", c, p)>>] :
     c \in {"blank", "text"}, p \in {<<>>} \cup {<<TextPart(t), q>> : t \in Spaces, q \in Parts}}

MCInputs == Names \cup Tunings \cup Formats \cup Tools \cup Histories
=============================================================================
