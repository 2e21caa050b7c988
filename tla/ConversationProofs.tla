------------------------- MODULE ConversationProofs -------------------------
(* Proofs about Conversation, for any first requests, any answers of a model *)
(* and any number of turns.                                                  *)
EXTENDS Conversation, TLAPS, FiniteSetTheorems, SequenceTheorems, WellFoundedInduction

-----------------------------------------------------------------------------
(* Validate refuses what is malformed                                      *)

\* There is a first problem if there is any, so that none is overlooked.
LEMMA FirstOfNone ==
  ASSUME NEW n \in Nat, NEW problems, DOMAIN problems = 1..n
  PROVE  FirstOf(problems) = <<>> <=> \A i \in 1..n : problems[i] = <<>>
<1> DEFINE found == {i \in DOMAIN problems : problems[i] # <<>>}
<1>1. CASE found = {}
  BY <1>1 DEF FirstOf
<1>2. CASE found # {}
  <2>1. found \subseteq Nat
    OBVIOUS
  <2>2. PICK x \in found : \A y \in found : ~(<<y, x>> \in OpToRel(<, Nat))
    BY <1>2, <2>1, NatLessThanWellFounded, WFMin
  <2>3. \A y \in found : x <= y
    <3>1. \A y \in found : ~(y < x)
      BY <2>1, <2>2 DEF OpToRel
    <3> HIDE DEF found
    <3> QED
      BY <2>1, <3>1
  <2>4. FirstOf(problems) # <<>>
    <3> DEFINE first == CHOOSE i \in found : \A j \in found : i <= j
    <3>1. first \in found
      BY <2>3
    <3>2. FirstOf(problems) = problems[first]
      BY <1>2 DEF FirstOf
    <3> QED
      BY <3>1, <3>2
  <2> QED
    BY <1>2, <2>4
<1> QED
  BY <1>1, <1>2

\* The checks of the options, one by one.
LEMMA OptionsFit ==
  ASSUME NEW r \in Request
  PROVE  FirstOf(OptionProblems(r)) = <<>> <=>
           /\ Supported(r.modelName)
           /\ Blank(r.userMessage) => r.messages # <<>>
           /\ r.temperature \subseteq 0..2 /\ r.topP \subseteq 0..1
           /\ \A n \in r.maxOutputTokens \cup r.topK : n > 0
           /\ r.responseFormat = "json" \/ (r.responseFormat = "" /\ r.outputSchema = {})
           /\ r.toolChoice \in {"", "auto", "required", "none"}
<1> DEFINE p == OptionProblems(r)
<1>1. DOMAIN p = 1..10
  BY DEF OptionProblems
<1>2. FirstOf(p) = <<>> <=> \A i \in 1..10 : p[i] = <<>>
  BY <1>1, FirstOfNone
<1>3. /\ p[1] = <<>> <=> r.modelName.slash \/ ~Blank(r.modelName.provider)
      /\ p[2] = <<>> <=> Supported(r.modelName)
      /\ p[3] = <<>> <=> ~Blank(r.userMessage) \/ r.messages # <<>>
      /\ p[4] = <<>> <=> \A t \in r.temperature : t \in 0..2
      /\ p[5] = <<>> <=> \A n \in r.maxOutputTokens : n >= 1
      /\ p[6] = <<>> <=> \A x \in r.topP : x \in 0..1
      /\ p[7] = <<>> <=> \A k \in r.topK : k >= 1
      /\ p[8] = <<>> <=> r.responseFormat \in {"", "json"}
      /\ p[9] = <<>> <=> r.outputSchema = {} \/ r.responseFormat = "json"
      /\ p[10] = <<>> <=> r.toolChoice \in {"", "auto", "required", "none"}
  BY DEF OptionProblems, Problem
<1>4. /\ p[3] = <<>> <=> (Blank(r.userMessage) => r.messages # <<>>)
      /\ p[4] = <<>> /\ p[6] = <<>> <=> r.temperature \subseteq 0..2 /\ r.topP \subseteq 0..1
      /\ p[5] = <<>> /\ p[7] = <<>> <=> \A n \in r.maxOutputTokens \cup r.topK : n > 0
      /\ p[8] = <<>> /\ p[9] = <<>> <=>
           r.responseFormat = "json" \/ (r.responseFormat = "" /\ r.outputSchema = {})
  <2>1. r.maxOutputTokens \subseteq Int /\ r.topK \subseteq Int
    BY DEF Request
  <2>2. \A n \in r.maxOutputTokens \cup r.topK : n > 0 <=> n >= 1
    BY <2>1
  <2> HIDE DEF p
  <2> QED
    BY <1>3, <2>2
<1>5. (\A i \in 1..10 : p[i] = <<>>) <=>
        /\ p[1] = <<>> /\ p[2] = <<>> /\ p[3] = <<>> /\ p[4] = <<>> /\ p[5] = <<>>
        /\ p[6] = <<>> /\ p[7] = <<>> /\ p[8] = <<>> /\ p[9] = <<>> /\ p[10] = <<>>
  <2> HIDE DEF p
  <2> QED
    OBVIOUS
<1>6. Supported(r.modelName) => r.modelName.slash \/ ~Blank(r.modelName.provider)
  BY DEF Supported
<1>7. p[2] = <<>> => p[1] = <<>>
  BY <1>3, <1>6
<1> HIDE DEF p
<1>8. FirstOf(p) = <<>> <=>
        /\ p[2] = <<>> /\ p[3] = <<>> /\ p[4] = <<>> /\ p[6] = <<>>
        /\ p[5] = <<>> /\ p[7] = <<>> /\ p[8] = <<>> /\ p[9] = <<>> /\ p[10] = <<>>
  BY <1>2, <1>5, <1>7
<1>9. /\ p[2] = <<>> <=> Supported(r.modelName)
      /\ p[10] = <<>> <=> r.toolChoice \in {"", "auto", "required", "none"}
  BY <1>3
<1> QED
  BY <1>4, <1>8, <1>9, Zenon DEF p

\* As many names as tools means that no two tools share one.
LEMMA NamesDistinct ==
  ASSUME NEW s \in Seq(Tool)
  PROVE  Cardinality({t.name : t \in Range(s)}) = Len(s) <=>
           \A i \in DOMAIN s : \A h \in 1..(i - 1) : s[h].name # s[i].name
<1> DEFINE n == Len(s)
           T == {t.name : t \in Range(s)}
           f == [i \in 1..n |-> s[i].name]
<1>1. n \in Nat /\ DOMAIN s = 1..n
  OBVIOUS
<1>2. f \in Surjection(1..n, T)
  BY <1>1 DEF Surjection, Range
<1>3. IsFiniteSet(1..n) /\ Cardinality(1..n) = n
  BY <1>1, FS_Interval
<1>4. Cardinality(T) = n <=> f \in Injection(1..n, T)
  <2> HIDE DEF f, T, n
  <2> QED
    BY <1>2, <1>3, FS_Surjection
<1>5. f \in [1..n -> T] /\ \A i \in 1..n : f[i] = s[i].name
  BY <1>2 DEF Surjection
<1>6. f \in Injection(1..n, T) <=> \A i \in 1..n : \A h \in 1..(i - 1) : f[h] # f[i]
  <2> HIDE DEF f, T, n
  <2>1. DOMAIN f = 1..n
    BY <1>5
  <2>2. ASSUME \A i \in 1..n : \A h \in 1..(i - 1) : f[h] # f[i],
               NEW a \in 1..n, NEW b \in 1..n, f[a] = f[b]
        PROVE  a = b
    <3>1. a < b => a \in 1..(b - 1)
      BY <1>1
    <3>2. b < a => b \in 1..(a - 1)
      BY <1>1
    <3> QED
      BY <1>1, <2>2, <3>1, <3>2
  <2>3. ASSUME IsInjective(f), NEW i \in 1..n, NEW h \in 1..(i - 1)
        PROVE  f[h] # f[i]
    <3>1. h \in 1..n /\ h # i
      BY <1>1
    <3> QED
      BY <2>1, <2>3, <3>1 DEF IsInjective
  <2> QED
    BY <1>5, <2>1, <2>2, <2>3 DEF Injection, IsInjective
<1> QED
  <2>0. \A i \in 1..n : \A h \in 1..(i - 1) : h \in 1..n
    BY <1>1
  <2>1. Cardinality(T) = n <=> \A i \in 1..n : \A h \in 1..(i - 1) : f[h] # f[i]
    BY <1>4, <1>6, Zenon
  <2>2. \A i \in 1..n : f[i] = s[i].name
    BY <1>5
  <2> HIDE DEF f, T
  <2>3. Cardinality(T) = n <=>
          \A i \in 1..n : \A h \in 1..(i - 1) : s[h].name # s[i].name
    BY <2>0, <2>1, <2>2
  <2> QED
    BY <1>1, <2>3 DEF T

\* The loop over the tools.
LEMMA ToolsFit ==
  ASSUME NEW r \in Request
  PROVE  FirstOf([i \in DOMAIN r.tools |-> FirstOf(ToolProblems(r, i))]) = <<>> <=>
           /\ \A t \in Range(r.tools) : ~Blank(t.name)
           /\ Cardinality({t.name : t \in Range(r.tools)}) = Len(r.tools)
<1> DEFINE p == [i \in DOMAIN r.tools |-> FirstOf(ToolProblems(r, i))]
           Distinct(i) == \A h \in 1..(i - 1) : r.tools[h].name # r.tools[i].name
<1>1. r.tools \in Seq(Tool)
  BY DEF Request
<1>2. Len(r.tools) \in Nat /\ DOMAIN r.tools = 1..Len(r.tools)
  BY <1>1
<1>3. ASSUME NEW i \in DOMAIN r.tools
      PROVE  FirstOf(ToolProblems(r, i)) = <<>> <=> ~Blank(r.tools[i].name) /\ Distinct(i)
  <2> DEFINE q == ToolProblems(r, i)
  <2>1. DOMAIN q = 1..2
    BY DEF ToolProblems
  <2>2. FirstOf(q) = <<>> <=> \A k \in 1..2 : q[k] = <<>>
    BY <2>1, FirstOfNone
  <2>3. (q[1] = <<>> <=> ~Blank(r.tools[i].name)) /\ (q[2] = <<>> <=> Distinct(i))
    BY DEF ToolProblems, Problem
  <2> HIDE DEF q, Distinct
  <2>4. (\A k \in 1..2 : q[k] = <<>>) <=> q[1] = <<>> /\ q[2] = <<>>
    OBVIOUS
  <2> QED
    BY <2>2, <2>3, <2>4 DEF q
<1>4. FirstOf(p) = <<>> <=>
        \A i \in DOMAIN r.tools : FirstOf(ToolProblems(r, i)) = <<>>
  <2>1. DOMAIN p = 1..Len(r.tools) /\ \A i \in DOMAIN r.tools : p[i] = FirstOf(ToolProblems(r, i))
    BY <1>2
  <2> HIDE DEF p
  <2> QED
    BY <2>1, <1>2, FirstOfNone
<1>5. (\A t \in Range(r.tools) : ~Blank(t.name)) <=>
        \A i \in DOMAIN r.tools : ~Blank(r.tools[i].name)
  BY DEF Range
<1>6. (\A i \in DOMAIN r.tools : Distinct(i)) <=>
        Cardinality({t.name : t \in Range(r.tools)}) = Len(r.tools)
  BY <1>1, NamesDistinct
<1> HIDE DEF Distinct, p
<1> QED
  BY <1>3, <1>4, <1>5, <1>6 DEF p


\* A well-formed part: one kind, with what it needs.
PartFits(p) ==
  \E kind \in Kinds :
    /\ Has(p, kind) /\ \A other \in Kinds \ {kind} : ~Has(p, other)
    /\ \A x \in p.media : ~Blank(x.contentType) /\ ~Blank(x.url)
    /\ \A x \in p.toolRequest \cup p.toolResponse : ~Blank(x.name)

\* Part.validate passes exactly such parts.
LEMMA PartFit ==
  ASSUME NEW part, NEW i, NEW j
  PROVE  FirstOf(PartProblems(part, i, j)) = <<>> <=> PartFits(part)
<1> DEFINE p == PartProblems(part, i, j)
           S == {kind \in Kinds : Has(part, kind)}
<1>1. FirstOf(p) = <<>> <=> \A k \in 1..5 : p[k] = <<>>
  <2>1. DOMAIN p = 1..5
    BY DEF PartProblems
  <2> QED
    BY <2>1, FirstOfNone
<1>2. /\ p[1] = <<>> <=> OneKind(part)
      /\ p[2] = <<>> <=> \A m \in part.media : ~Blank(m.contentType)
      /\ p[3] = <<>> <=> \A m \in part.media : ~Blank(m.url)
      /\ p[4] = <<>> <=> \A c \in part.toolRequest : ~Blank(c.name)
      /\ p[5] = <<>> <=> \A c \in part.toolResponse : ~Blank(c.name)
  BY DEF PartProblems, Problem
<1>3. (\A k \in 1..5 : p[k] = <<>>) <=>
        p[1] = <<>> /\ p[2] = <<>> /\ p[3] = <<>> /\ p[4] = <<>> /\ p[5] = <<>>
  <2> HIDE DEF p
  <2> QED
    OBVIOUS
<1>4. OneKind(part) <=>
        \E kind \in Kinds : Has(part, kind) /\ \A other \in Kinds \ {kind} : ~Has(part, other)
  <2>1. IsFiniteSet(Kinds)
    <3>1. \A x : IsFiniteSet({x})
      BY FS_Singleton
    <3>2. IsFiniteSet({"text"} \cup {"media"})
      BY <3>1, FS_Union
    <3>3. IsFiniteSet({"toolRequest"} \cup {"toolResponse"})
      BY <3>1, FS_Union
    <3>4. IsFiniteSet(({"text"} \cup {"media"}) \cup ({"toolRequest"} \cup {"toolResponse"}))
      BY <3>2, <3>3, FS_Union
    <3>5. Kinds = ({"text"} \cup {"media"}) \cup ({"toolRequest"} \cup {"toolResponse"})
      BY DEF Kinds
    <3> QED
      BY <3>4, <3>5
  <2>2. IsFiniteSet(S)
    BY <2>1, FS_Subset
  <2>3. OneKind(part) <=> \E kind : S = {kind}
    BY <2>2, FS_Singleton DEF OneKind
  <2>4. (\E kind : S = {kind}) <=>
          \E kind \in Kinds : Has(part, kind) /\ \A other \in Kinds \ {kind} : ~Has(part, other)
    OBVIOUS
  <2> QED
    BY <2>3, <2>4
<1> HIDE DEF p
<1>5. FirstOf(p) = <<>> <=>
        /\ OneKind(part)
        /\ \A m \in part.media : ~Blank(m.contentType) /\ ~Blank(m.url)
        /\ \A x \in part.toolRequest \cup part.toolResponse : ~Blank(x.name)
  BY <1>1, <1>2, <1>3
<1> QED
  BY <1>4, <1>5 DEF PartFits, p

\* A well-formed message: a known speaker who says one thing.
MessageFits(m) ==
  /\ m.role \in {"user", "model", "tool"}
  /\ \/ ~Blank(m.content) /\ m.parts = <<>>
     \/ Blank(m.content) /\ m.parts # <<>>
  /\ \A p \in Range(m.parts) : PartFits(p)

\* The loop over the messages passes exactly such messages.
LEMMA MessageFit ==
  ASSUME NEW m \in Message, NEW i
  PROVE  FirstOf(MessageProblems(m, i)) = <<>> <=> MessageFits(m)
<1> DEFINE p == MessageProblems(m, i)
           q == [j \in DOMAIN m.parts |-> FirstOf(PartProblems(m.parts[j], i, j))]
<1>1. FirstOf(p) = <<>> <=> \A k \in 1..3 : p[k] = <<>>
  <2>1. DOMAIN p = 1..3
    BY DEF MessageProblems
  <2> QED
    BY <2>1, FirstOfNone
<1>2. /\ p[1] = <<>> <=> m.role \in {"user", "model", "tool"}
      /\ p[2] = <<>> <=> ContentOrParts(m)
      /\ p[3] = FirstOf(q)
  BY DEF MessageProblems, Problem, Roles
<1>3. (\A k \in 1..3 : p[k] = <<>>) <=> p[1] = <<>> /\ p[2] = <<>> /\ p[3] = <<>>
  <2> HIDE DEF p
  <2> QED
    OBVIOUS
<1>4. m.parts \in Seq(Part) /\ Len(m.parts) \in Nat /\ DOMAIN m.parts = 1..Len(m.parts)
  BY DEF Message
<1>5. FirstOf(q) = <<>> <=> \A j \in DOMAIN m.parts : FirstOf(PartProblems(m.parts[j], i, j)) = <<>>
  <2>1. DOMAIN q = 1..Len(m.parts)
          /\ \A j \in DOMAIN m.parts : q[j] = FirstOf(PartProblems(m.parts[j], i, j))
    BY <1>4
  <2> HIDE DEF q
  <2> QED
    BY <2>1, <1>4, FirstOfNone
<1>6. FirstOf(q) = <<>> <=> \A x \in Range(m.parts) : PartFits(x)
  <2> HIDE DEF q
  <2> QED
    BY <1>5, PartFit DEF Range
<1>7. ContentOrParts(m) <=> \/ ~Blank(m.content) /\ m.parts = <<>>
                            \/ Blank(m.content) /\ m.parts # <<>>
  BY Zenon DEF ContentOrParts
<1> HIDE DEF p, q
<1> QED
  BY <1>1, <1>2, <1>3, <1>6, <1>7 DEF MessageFits, p

\* Validate accepts what is well formed and nothing else.
LEMMA ValidateAcceptsWellFormed ==
  ASSUME NEW r \in Request
  PROVE  Validate(r) = <<>> <=> WellFormed(r)
<1> DEFINE tools == [i \in DOMAIN r.tools |-> FirstOf(ToolProblems(r, i))]
           messages == [i \in DOMAIN r.messages |->
                          FirstOf(MessageProblems(r.messages[i], i))]
           p == << FirstOf(OptionProblems(r)), FirstOf(tools), FirstOf(messages) >>
<1>1. FirstOf(p) = <<>> <=>
        /\ FirstOf(OptionProblems(r)) = <<>> /\ FirstOf(tools) = <<>> /\ FirstOf(messages) = <<>>
  <2>1. /\ DOMAIN p = 1..3 /\ p[1] = FirstOf(OptionProblems(r))
        /\ p[2] = FirstOf(tools) /\ p[3] = FirstOf(messages)
    OBVIOUS
  <2> HIDE DEF p
  <2>2. FirstOf(p) = <<>> <=> \A k \in 1..3 : p[k] = <<>>
    BY <2>1, FirstOfNone
  <2>3. (\A k \in 1..3 : p[k] = <<>>) <=> p[1] = <<>> /\ p[2] = <<>> /\ p[3] = <<>>
    OBVIOUS
  <2> HIDE DEF tools, messages
  <2> QED
    BY <2>1, <2>2, <2>3
<1>2. /\ r.messages \in Seq(Message) /\ Len(r.messages) \in Nat
      /\ DOMAIN r.messages = 1..Len(r.messages)
  BY DEF Request
<1>3. FirstOf(messages) = <<>> <=> \A m \in Range(r.messages) : MessageFits(m)
  <2>1. /\ DOMAIN messages = 1..Len(r.messages)
        /\ \A i \in DOMAIN r.messages : messages[i] = FirstOf(MessageProblems(r.messages[i], i))
    BY <1>2
  <2> HIDE DEF messages
  <2>2. FirstOf(messages) = <<>> <=>
          \A i \in DOMAIN r.messages : FirstOf(MessageProblems(r.messages[i], i)) = <<>>
    BY <2>1, <1>2, FirstOfNone
  <2>3. \A i \in DOMAIN r.messages :
          FirstOf(MessageProblems(r.messages[i], i)) = <<>> <=> MessageFits(r.messages[i])
    BY <1>2, MessageFit
  <2> QED
    BY <2>2, <2>3 DEF Range
<1>4. Validate(r) = FirstOf(p)
  BY DEF Validate
<1>5. (\A m \in Range(r.messages) : MessageFits(m)) <=>
        \A m \in Range(r.messages) :
          /\ m.role \in {"user", "model", "tool"}
          /\ \/ ~Blank(m.content) /\ m.parts = <<>>
             \/ Blank(m.content) /\ m.parts # <<>>
          /\ \A x \in Range(m.parts) :
               \E kind \in Kinds :
                 /\ Has(x, kind) /\ \A other \in Kinds \ {kind} : ~Has(x, other)
                 /\ \A y \in x.media : ~Blank(y.contentType) /\ ~Blank(y.url)
                 /\ \A y \in x.toolRequest \cup x.toolResponse : ~Blank(y.name)
  BY DEF MessageFits, PartFits
<1> HIDE DEF p, messages
<1>6. FirstOf(tools) = <<>> <=>
        /\ \A t \in Range(r.tools) : ~Blank(t.name)
        /\ Cardinality({t.name : t \in Range(r.tools)}) = Len(r.tools)
  BY ToolsFit
<1> HIDE DEF tools
<1> QED
  BY <1>1, <1>3, <1>4, <1>5, <1>6, OptionsFit, Zenon DEF WellFormed

-----------------------------------------------------------------------------
(* The inductive invariant                                                 *)

RequestInv ==
  /\ stream \in BOOLEAN /\ turn \in Nat
  /\ pc \in {"sent", "accepted", "rejected", "answered"}
  /\ req \in Request
  /\ \A f \in Tuning : AtMostOne(req[f])

\* What was decided about the request of this turn, and what came of it.
VerdictInv ==
  /\ pc # "sent" => verdict = Validate(req)
  /\ pc = "rejected" => verdict # <<>>
  /\ pc \in {"accepted", "answered"} => verdict = <<>> /\ prompt = {Options(req)}

AnswerInv ==
  pc = "answered" => \E a \in Answers : answer = {a} /\ response = {Respond(req, a)}

\* One part of the replayed history: the model's call, and its result.
AsksFor(part, call) ==
  part.media = {} /\ part.toolRequest = {[call EXCEPT !.json = Marshal(@)]}
AnswersTo(part, call) ==
  /\ part.media = {} /\ part.toolRequest = {}
  /\ \E x \in ToolUse : part.toolResponse = {x} /\ x.name = call.name /\ x.ref = call.ref

\* The last two messages are the turn of a model that made these calls, after
\* what it said, and their results.
Replays(r, calls) ==
  /\ Len(r.messages) >= 2 /\ calls # <<>>
  /\ LET model == r.messages[Len(r.messages) - 1].parts
         tools == r.messages[Len(r.messages)].parts
         first == Len(model) - Len(calls)
     IN
     /\ first >= 0 /\ Len(tools) = Len(calls)
     /\ \A j \in 1..first : model[j].media = {} /\ model[j].toolRequest = {}
                            /\ model[j].toolResponse = {}
     /\ \A i \in DOMAIN calls : AsksFor(model[first + i], calls[i])
     /\ \A i \in DOMAIN calls : AnswersTo(tools[i], calls[i])

\* A follow-up is well-formed by its making, and until the model answers again
\* it ends in what the last answer asked for.
FollowUpInv ==
  /\ turn > 0 => WellFormed(req)
  /\ turn > 0 /\ pc \in {"sent", "accepted"} =>
       \E a \in Answers : answer = {a} /\ Replays(req, a.calls)

ConversationInv == RequestInv /\ VerdictInv /\ AnswerInv /\ FollowUpInv

-----------------------------------------------------------------------------
(* What the client adds to a follow-up                                     *)

Question(r) ==
  LET question == NonBlank(r.userMessage) IN
  [i \in DOMAIN question |-> [role |-> "user", content |-> question[i], parts |-> <<>>]]
Spoken(res) ==
  LET said == NonBlank(TextOf(res)) IN [i \in DOMAIN said |-> TextPart(said[i])]
Asked(res) == [i \in DOMAIN res.toolCalls |-> CallPart(res.toolCalls[i])]
Told(res, results) == [i \in DOMAIN res.toolCalls |-> ResultPart(res.toolCalls[i], results[i])]
ModelTurn(res) == [role |-> "model", content |-> "", parts |-> Spoken(res) \o Asked(res)]
ToolTurn(res, results) == [role |-> "tool", content |-> "", parts |-> Told(res, results)]

LEMMA FollowUpAdds ==
  ASSUME NEW r, NEW res, NEW results
  PROVE  FollowUp(r, res, results) =
           [r EXCEPT !.userMessage = "",
                     !.messages = @ \o Question(r) \o <<ModelTurn(res), ToolTurn(res, results)>>]
BY DEF FollowUp, Question, ModelTurn, ToolTurn, Spoken, Asked, Told

\* What is said about every element of two sequences holds in their
\* concatenation, and elements keep their places.
LEMMA Joined ==
  ASSUME NEW S, NEW s \in Seq(S), NEW t \in Seq(S)
  PROVE  /\ s \o t \in Seq(S) /\ Len(s \o t) = Len(s) + Len(t)
         /\ \A i \in DOMAIN s : (s \o t)[i] = s[i]
         /\ \A i \in DOMAIN t : (s \o t)[Len(s) + i] = t[i]
         /\ Range(s \o t) \subseteq Range(s) \cup Range(t)
<1>1. /\ s \o t \in Seq(S) /\ Len(s \o t) = Len(s) + Len(t)
      /\ \A i \in 1..(Len(s) + Len(t)) :
           (s \o t)[i] = IF i <= Len(s) THEN s[i] ELSE t[i - Len(s)]
  BY ConcatProperties
<1>2. /\ Len(s) \in Nat /\ DOMAIN s = 1..Len(s)
      /\ Len(t) \in Nat /\ DOMAIN t = 1..Len(t)
      /\ DOMAIN (s \o t) = 1..(Len(s) + Len(t))
  BY <1>1
<1> DEFINE u == s \o t
<1> HIDE DEF u
<1>3. ASSUME NEW i \in DOMAIN s PROVE u[i] = s[i]
  BY <1>1, <1>2 DEF u
<1>4. ASSUME NEW i \in DOMAIN t PROVE u[Len(s) + i] = t[i]
  <2>1. Len(s) + i \in 1..(Len(s) + Len(t)) /\ ~(Len(s) + i <= Len(s)) /\ (Len(s) + i) - Len(s) = i
    BY <1>2
  <2> QED
    BY <1>1, <2>1 DEF u
<1>5. ASSUME NEW i \in DOMAIN u PROVE u[i] \in Range(s) \cup Range(t)
  <2>1. i \in 1..(Len(s) + Len(t))
    BY <1>2 DEF u
  <2>2. CASE i <= Len(s)
    BY <1>1, <1>2, <2>1, <2>2 DEF u, Range
  <2>3. CASE ~(i <= Len(s))
    <3>1. i - Len(s) \in DOMAIN t /\ u[i] = t[i - Len(s)]
      BY <1>1, <1>2, <2>1, <2>3 DEF u
    <3> QED
      BY <3>1 DEF Range
  <2> QED
    BY <2>2, <2>3
<1>6. Range(u) \subseteq Range(s) \cup Range(t)
  BY <1>5 DEF Range
<1> QED
  BY <1>1, <1>3, <1>4, <1>6 DEF u

\* A text is a sequence of one, or of none if there is nothing to say.
LEMMA SaidOnce ==
  ASSUME NEW text \in STRING
  PROVE  \/ NonBlank(text) = <<>> /\ DOMAIN NonBlank(text) = 1..0
         \/ NonBlank(text) = <<text>> /\ DOMAIN NonBlank(text) = 1..1 /\ ~Blank(text)
<1>1. NonBlank(text) = <<>> \/ (NonBlank(text) = <<text>> /\ ~Blank(text))
  BY DEF NonBlank
<1>2. DOMAIN <<>> = 1..0 /\ DOMAIN <<text>> = 1..1
  OBVIOUS
<1> QED
  BY <1>1, <1>2

\* The kinds of the parts a client makes.
LEMMA TextPartFits ==
  ASSUME NEW text \in STRING
  PROVE  /\ TextPart(text) \in Part
         /\ ~Blank(text) => PartFits(TextPart(text))
<1> DEFINE p == TextPart(text)
<1>1. /\ p \in Part /\ p.text = text
      /\ p["media"] = {} /\ p["toolRequest"] = {} /\ p["toolResponse"] = {}
      /\ p.media = {} /\ p.toolRequest = {} /\ p.toolResponse = {}
  BY DEF TextPart, PartOf, Part
<1> HIDE DEF p
<1>2. ASSUME ~Blank(text) PROVE PartFits(p)
  <2>1. "text" \in Kinds /\ Has(p, "text")
    BY <1>1, <1>2 DEF Kinds, Has
  <2>2. \A other \in Kinds \ {"text"} : ~Has(p, other)
    BY <1>1 DEF Kinds, Has
  <2> QED
    BY <1>1, <2>1, <2>2 DEF PartFits
<1> QED
  BY <1>1, <1>2 DEF p

LEMMA CallPartFits ==
  ASSUME NEW call \in ToolUse, ~Blank(call.name)
  PROVE  /\ CallPart(call) \in Part /\ PartFits(CallPart(call))
         /\ CallPart(call).media = {} /\ CallPart(call).toolRequest = {call}
<1> DEFINE p == CallPart(call)
<1>0. p = [text |-> "", media |-> {}, toolRequest |-> {call}, toolResponse |-> {}]
  BY DEF CallPart, PartOf
<1> HIDE DEF p
<1>1. /\ p \in Part /\ p.text = ""
      /\ p["media"] = {} /\ p["toolRequest"] = {call} /\ p["toolResponse"] = {}
      /\ p.media = {} /\ p.toolRequest = {call} /\ p.toolResponse = {}
  BY <1>0, LiteralsAreStrings DEF Part
<1>2. "toolRequest" \in Kinds /\ Has(p, "toolRequest")
  BY <1>1 DEF Kinds, Has
<1>3. \A other \in Kinds \ {"toolRequest"} : ~Has(p, other)
  BY <1>1 DEF Kinds, Has, Blank
<1>4. PartFits(p)
  BY <1>1, <1>2, <1>3 DEF PartFits
<1> QED
  BY <1>1, <1>4 DEF p

LEMMA ResultPartFits ==
  ASSUME NEW call \in ToolUse, ~Blank(call.name), NEW json \in STRING
  PROVE  /\ ResultPart(call, json) \in Part /\ PartFits(ResultPart(call, json))
         /\ AnswersTo(ResultPart(call, json), call)
<1> DEFINE p == ResultPart(call, json)
           x == ToolUseOf(call, json)
<1>0. x \in ToolUse /\ x.name = call.name /\ x.ref = call.ref
  BY DEF ToolUse, ToolUseOf
<1>1. p = [text |-> "", media |-> {}, toolRequest |-> {}, toolResponse |-> {x}]
  BY DEF ResultPart, PartOf
<1> HIDE DEF p, x
<1>2. /\ p \in Part /\ p.text = ""
      /\ p["media"] = {} /\ p["toolRequest"] = {} /\ p["toolResponse"] = {x}
      /\ p.media = {} /\ p.toolRequest = {} /\ p.toolResponse = {x}
  BY <1>0, <1>1, LiteralsAreStrings DEF Part
<1>3. "toolResponse" \in Kinds /\ Has(p, "toolResponse")
  BY <1>2 DEF Kinds, Has
<1>4. \A other \in Kinds \ {"toolResponse"} : ~Has(p, other)
  BY <1>2 DEF Kinds, Has, Blank
<1>5. PartFits(p)
  BY <1>0, <1>2, <1>3, <1>4 DEF PartFits
<1>6. AnswersTo(p, call)
  BY <1>0, <1>2 DEF AnswersTo
<1> QED
  BY <1>2, <1>5, <1>6 DEF p

-----------------------------------------------------------------------------
(* The follow-up                                                           *)

\* What a model may answer, with what a call needs to be replayed.
LEMMA AnswerType ==
  ASSUME req \in Request, NEW a \in Answers
  PROVE  /\ a.text \in STRING
         /\ Len(a.calls) \in Nat /\ DOMAIN a.calls = 1..Len(a.calls)
         /\ \A i \in DOMAIN a.calls :
              /\ a.calls[i] \in Calls
              /\ a.calls[i].name \in Callable /\ a.calls[i].name \in STRING
              /\ a.calls[i].ref \in STRING
              /\ a.calls[i].json \in {"nil", "object", "rounded"}
<1>1. a.text \in STRING
  BY ConversationAssumption DEF Answers
<1>2. a.calls \in UNION {[1..n -> Calls] : n \in 0..MaxCalls}
  BY DEF Answers
<1>3. PICK n \in Nat : a.calls \in [1..n -> Calls]
  BY <1>2, ConversationAssumption
<1>4. Len(a.calls) = n /\ DOMAIN a.calls = 1..n /\ \A i \in 1..n : a.calls[i] \in Calls
  BY <1>3
<1>5. Callable \subseteq STRING
  <2>1. req.tools \in Seq(Tool)
    BY DEF Request
  <2>2. \A t \in Range(req.tools) : t \in Tool
    BY <2>1 DEF Range
  <2> QED
    BY <2>2 DEF Callable, Tool
<1>6. ASSUME NEW c \in Calls
      PROVE  /\ c.name \in Callable /\ c.name \in STRING /\ c.ref \in STRING
             /\ c.json \in {"nil", "object", "rounded"}
  BY <1>5, ConversationAssumption DEF Calls
<1> QED
  BY <1>1, <1>4, <1>6

\* The calls as the client is sent them.
LEMMA CallsFromType ==
  ASSUME req \in Request, NEW a \in Answers
  PROVE  /\ DOMAIN CallsFrom(a.calls) = DOMAIN a.calls
         /\ \A i \in DOMAIN a.calls :
              /\ CallsFrom(a.calls)[i] \in ToolUse
              /\ CallsFrom(a.calls)[i].name = a.calls[i].name
              /\ CallsFrom(a.calls)[i].ref = a.calls[i].ref
              /\ CallsFrom(a.calls)[i] = [a.calls[i] EXCEPT !.json = Marshal(@)]
<1>1. \A i \in DOMAIN a.calls :
        /\ a.calls[i] \in Calls /\ a.calls[i].name \in STRING /\ a.calls[i].ref \in STRING
        /\ a.calls[i].json \in {"nil", "object", "rounded"}
  BY AnswerType
<1>2. ASSUME NEW i \in DOMAIN a.calls
      PROVE  /\ CallsFrom(a.calls)[i] \in ToolUse
             /\ CallsFrom(a.calls)[i].name = a.calls[i].name
             /\ CallsFrom(a.calls)[i].ref = a.calls[i].ref
             /\ CallsFrom(a.calls)[i] = [a.calls[i] EXCEPT !.json = Marshal(@)]
  <2> DEFINE c == a.calls[i]
  <2>1. CallsFrom(a.calls)[i] = [c EXCEPT !.json = Marshal(@)]
    BY DEF CallsFrom
  <2>2. c \in Calls /\ c.name \in STRING /\ c.ref \in STRING
          /\ c.json \in {"nil", "object", "rounded"}
    BY <1>1
  <2> HIDE DEF c
  <2>3. PICK j : j = Marshal(c.json)
    OBVIOUS
  <2>4. j \in {"", "json", "roundedNumber"}
    BY <2>2, <2>3 DEF Marshal
  <2>5. j \in STRING
    BY <2>4, LiteralsAreStrings
  <2>6. [c EXCEPT !.json = j] = [name |-> c.name, ref |-> c.ref, json |-> j]
    BY <2>2 DEF Calls
  <2>7. [name |-> c.name, ref |-> c.ref, json |-> j] \in ToolUse
    BY <2>2, <2>5 DEF ToolUse
  <2> QED
    BY <2>1, <2>3, <2>6, <2>7 DEF c
<1>3. DOMAIN CallsFrom(a.calls) = DOMAIN a.calls
  BY DEF CallsFrom
<1> QED
  BY <1>2, <1>3

\* Whichever field it came in, the text is the model's.
LEMMA TextComesBack ==
  ASSUME stream \in BOOLEAN, NEW r, NEW a
  PROVE  TextOf(Respond(r, a)) = a.text
<1> DEFINE res == Respond(r, a)
           json == r.responseFormat = "json" /\ a.text = "json"
<1>1. CASE stream
  BY <1>1 DEF TextOf, Respond
<1>2. CASE ~stream /\ json
  <2>1. OutputAndData(r, a.text) = <<"", {a.text}>>
    BY <1>2 DEF OutputAndData
  <2>2. res.data = {a.text}
    <3>1. res.data = OutputAndData(r, a.text)[2]
      BY <1>2 DEF Respond
    <3>2. \A d : <<"", d>>[2] = d
      OBVIOUS
    <3> QED
      BY <2>1, <3>1, <3>2, Zenon
  <2>3. TextOf(res) = Values({a.text}, res.output)
    BY <1>2, <2>2 DEF TextOf
  <2> QED
    BY <2>3 DEF Values
<1>3. CASE ~stream /\ ~json
  <2>1. OutputAndData(r, a.text) = <<a.text, {}>>
    BY <1>3 DEF OutputAndData
  <2>2. res.data = {} /\ res.output = a.text
    BY <1>3, <2>1 DEF Respond
  <2>3. TextOf(res) = Values({}, a.text)
    BY <1>3, <2>2 DEF TextOf
  <2> QED
    BY <2>3 DEF Values
<1> QED
  BY <1>1, <1>2, <1>3

\* The calls of an accepted conversation name tools that have a name.
LEMMA CallsAreNamed ==
  ASSUME WellFormed(req), NEW c \in Calls
  PROVE  ~Blank(c.name)
BY DEF WellFormed, Calls, Callable

\* The question asked last moves into the history.
LEMMA QuestionFits ==
  ASSUME NEW r \in Request
  PROVE  /\ Question(r) \in Seq(Message)
         /\ \A m \in Range(Question(r)) : MessageFits(m)
<1> DEFINE s == NonBlank(r.userMessage)
           m == [role |-> "user", content |-> r.userMessage, parts |-> <<>>]
<1>1. r.userMessage \in STRING
  BY DEF Request
<1>2. \/ s = <<>> /\ DOMAIN s = 1..0
      \/ s = <<r.userMessage>> /\ DOMAIN s = 1..1 /\ ~Blank(r.userMessage)
  BY <1>1, SaidOnce
<1>3. Question(r) = [i \in DOMAIN s |-> [role |-> "user", content |-> s[i], parts |-> <<>>]]
  BY DEF Question
<1>4. m \in Message
  <2>1. <<>> \in Seq(Part)
    BY EmptySeq
  <2> QED
    BY <1>1, <2>1, LiteralsAreStrings DEF Message
<1>5. ~Blank(r.userMessage) => MessageFits(m)
  <2>1. \A p \in Range(<<>>) : PartFits(p)
    BY DEF Range
  <2> QED
    BY <2>1 DEF MessageFits
<1> HIDE DEF s, m
<1>6. CASE s = <<>> /\ DOMAIN s = 1..0
  <2>1. Question(r) = <<>>
    BY <1>3, <1>6
  <2> QED
    BY <2>1 DEF Range
<1>7. CASE s = <<r.userMessage>> /\ DOMAIN s = 1..1 /\ ~Blank(r.userMessage)
  <2>1. \A i \in 1..1 : s[i] = r.userMessage
    BY <1>7
  <2>2. Question(r) = [i \in 1..1 |-> m]
    BY <1>3, <1>7, <2>1 DEF m
  <2> QED
    BY <1>4, <1>5, <1>7, <2>2 DEF Range
<1> QED
  BY <1>2, <1>6, <1>7

\* What the client sends back, in terms of the answer it was sent.
LEMMA TurnsFit ==
  ASSUME stream \in BOOLEAN, req \in Request, WellFormed(req),
         NEW a \in Answers, a.calls # <<>>,
         NEW results \in [DOMAIN a.calls -> Results]
  PROVE  LET res == Respond(req, a) IN
         /\ ModelTurn(res) \in Message /\ MessageFits(ModelTurn(res))
         /\ ToolTurn(res, results) \in Message /\ MessageFits(ToolTurn(res, results))
         /\ Replays([messages |-> <<ModelTurn(res), ToolTurn(res, results)>>], a.calls)
<1> DEFINE res == Respond(req, a)
           n == Len(a.calls)
           said == NonBlank(a.text)
           spoken == Spoken(res)
           asked == Asked(res)
           told == Told(res, results)
<1>1. /\ a.text \in STRING
      /\ n \in Nat \ {0} /\ DOMAIN a.calls = 1..n
      /\ \A i \in 1..n : /\ a.calls[i] \in Calls
                         /\ a.calls[i].json \in {"nil", "object", "rounded"}
  <2>1. n # 0
    BY AnswerType
  <2> QED
    BY <2>1, AnswerType
<1>2. res.toolCalls = CallsFrom(a.calls)
  BY DEF Respond
<1>3. /\ DOMAIN res.toolCalls = 1..n
      /\ \A i \in 1..n :
           /\ res.toolCalls[i] \in ToolUse
           /\ res.toolCalls[i].name = a.calls[i].name
           /\ res.toolCalls[i].ref = a.calls[i].ref
           /\ res.toolCalls[i] = [a.calls[i] EXCEPT !.json = Marshal(@)]
           /\ ~Blank(res.toolCalls[i].name)
  <2> HIDE DEF res
  <2>1. /\ DOMAIN CallsFrom(a.calls) = 1..n
        /\ \A i \in 1..n :
             /\ CallsFrom(a.calls)[i] \in ToolUse
             /\ CallsFrom(a.calls)[i].name = a.calls[i].name
             /\ CallsFrom(a.calls)[i].ref = a.calls[i].ref
             /\ CallsFrom(a.calls)[i] = [a.calls[i] EXCEPT !.json = Marshal(@)]
    BY <1>1, CallsFromType
  <2>2. \A i \in 1..n : ~Blank(a.calls[i].name)
    BY <1>1, CallsAreNamed
  <2> QED
    BY <1>2, <2>1, <2>2, Zenon
<1>4. /\ spoken \in Seq(Part) /\ \A p \in Range(spoken) : PartFits(p)
      /\ \A i \in DOMAIN spoken :
           spoken[i].media = {} /\ spoken[i].toolRequest = {} /\ spoken[i].toolResponse = {}
  <2>1. spoken = [i \in DOMAIN said |-> TextPart(said[i])]
    BY TextComesBack DEF Spoken
  <2>2. \/ said = <<>> /\ DOMAIN said = 1..0
        \/ said = <<a.text>> /\ DOMAIN said = 1..1 /\ ~Blank(a.text)
    BY <1>1, SaidOnce
  <2>3. TextPart(a.text) \in Part /\ (~Blank(a.text) => PartFits(TextPart(a.text)))
    BY <1>1, TextPartFits
  <2>4. /\ TextPart(a.text).media = {} /\ TextPart(a.text).toolRequest = {}
        /\ TextPart(a.text).toolResponse = {}
    BY DEF TextPart, PartOf
  <2> HIDE DEF said, spoken
  <2>5. CASE said = <<>> /\ DOMAIN said = 1..0
    <3>1. spoken = <<>>
      BY <2>1, <2>5
    <3> QED
      BY <3>1 DEF Range
  <2>6. CASE said = <<a.text>> /\ DOMAIN said = 1..1 /\ ~Blank(a.text)
    <3>1. \A i \in 1..1 : said[i] = a.text
      BY <2>6
    <3>2. spoken = [i \in 1..1 |-> TextPart(a.text)]
      BY <2>1, <2>6, <3>1
    <3> QED
      BY <2>3, <2>4, <2>6, <3>2 DEF Range
  <2> QED
    BY <2>2, <2>5, <2>6
<1>5. /\ asked \in Seq(Part) /\ Len(asked) = n /\ DOMAIN asked = 1..n
      /\ \A p \in Range(asked) : PartFits(p)
      /\ \A i \in 1..n : AsksFor(asked[i], a.calls[i])
  <2> HIDE DEF res
  <2>1. asked = [i \in 1..n |-> CallPart(res.toolCalls[i])]
    BY <1>3 DEF Asked
  <2>2. \A i \in 1..n :
          LET p == CallPart(res.toolCalls[i]) IN
          p \in Part /\ PartFits(p) /\ p.media = {} /\ p.toolRequest = {res.toolCalls[i]}
    BY <1>3, CallPartFits
  <2>3. \A i \in 1..n : AsksFor(CallPart(res.toolCalls[i]), a.calls[i])
    BY <1>3, <2>2 DEF AsksFor
  <2> HIDE DEF asked, n
  <2> QED
    BY <1>1, <2>1, <2>2, <2>3 DEF Range
<1>6. /\ told \in Seq(Part) /\ Len(told) = n /\ DOMAIN told = 1..n
      /\ \A p \in Range(told) : PartFits(p)
      /\ \A i \in 1..n : AnswersTo(told[i], a.calls[i])
  <2> HIDE DEF res
  <2>1. told = [i \in 1..n |-> ResultPart(res.toolCalls[i], results[i])]
    BY <1>3 DEF Told
  <2>2. \A i \in 1..n : results[i] \in STRING
    BY <1>1, ConversationAssumption
  <2>3. \A i \in 1..n :
          LET p == ResultPart(res.toolCalls[i], results[i]) IN
          p \in Part /\ PartFits(p) /\ AnswersTo(p, res.toolCalls[i])
    BY <1>3, <2>2, ResultPartFits
  <2>4. \A i \in 1..n : AnswersTo(ResultPart(res.toolCalls[i], results[i]), a.calls[i])
    <3>1. \A p, x, c : /\ AnswersTo(p, x) /\ x.name = c.name /\ x.ref = c.ref
                       => AnswersTo(p, c)
      BY Zenon DEF AnswersTo
    <3> QED
      BY <1>3, <2>3, <3>1
  <2> HIDE DEF told, n
  <2> QED
    BY <1>1, <2>1, <2>3, <2>4 DEF Range
<1> HIDE DEF res, spoken, asked, told, n
<1> DEFINE parts == spoken \o asked
           first == Len(spoken)
<1>7. /\ parts \in Seq(Part) /\ Len(parts) = first + n /\ first \in Nat
      /\ DOMAIN spoken = 1..first
      /\ \A i \in 1..first : parts[i] = spoken[i]
      /\ \A i \in 1..n : parts[first + i] = asked[i]
      /\ Range(parts) \subseteq Range(spoken) \cup Range(asked)
  <2>1. spoken \in Seq(Part) /\ asked \in Seq(Part)
    BY <1>4, <1>5
  <2>2. /\ parts \in Seq(Part) /\ Len(parts) = Len(spoken) + Len(asked)
        /\ \A i \in DOMAIN spoken : parts[i] = spoken[i]
        /\ \A i \in DOMAIN asked : parts[Len(spoken) + i] = asked[i]
        /\ Range(parts) \subseteq Range(spoken) \cup Range(asked)
    BY <2>1, Joined
  <2>3. first \in Nat /\ DOMAIN spoken = 1..first
    BY <2>1
  <2> HIDE DEF parts
  <2> QED
    BY <1>5, <2>2, <2>3
<1> HIDE DEF parts, first
<1>8. parts # <<>> /\ told # <<>>
  BY <1>1, <1>6, <1>7
<1> DEFINE model == [role |-> "model", content |-> "", parts |-> parts]
           tool == [role |-> "tool", content |-> "", parts |-> told]
<1>9. ModelTurn(res) = model /\ ToolTurn(res, results) = tool
  BY DEF ModelTurn, ToolTurn, parts, spoken, asked, told
<1>10. model \in Message /\ tool \in Message
  BY <1>6, <1>7, LiteralsAreStrings DEF Message
<1>11. MessageFits(model) /\ MessageFits(tool)
  BY <1>4, <1>5, <1>6, <1>7, <1>8 DEF MessageFits, Blank
<1>12. Replays([messages |-> <<model, tool>>], a.calls)
  <2> DEFINE r == [messages |-> <<model, tool>>]
  <2>1. /\ Len(r.messages) = 2
        /\ r.messages[Len(r.messages) - 1].parts = parts
        /\ r.messages[Len(r.messages)].parts = told
    <3>1. r.messages = <<model, tool>>
      BY Zenon
    <3>2. model.parts = parts /\ tool.parts = told
      BY Zenon
    <3> HIDE DEF r, model, tool
    <3>3. Len(r.messages) = 2 /\ r.messages[1] = model /\ r.messages[2] = tool
      BY <3>1
    <3>4. Len(r.messages) - 1 = 1
      BY <3>3
    <3> QED
      BY <3>2, <3>3, <3>4, Zenon
  <2> HIDE DEF r
  <2>2. Len(parts) - Len(a.calls) = first
    BY <1>1, <1>7 DEF n
  <2>3. \A j \in 1..first : parts[j].media = {} /\ parts[j].toolRequest = {}
                            /\ parts[j].toolResponse = {}
    BY <1>4, <1>7
  <2>4. \A i \in DOMAIN a.calls : AsksFor(parts[first + i], a.calls[i])
    BY <1>1, <1>5, <1>7
  <2>5. \A i \in DOMAIN a.calls : AnswersTo(told[i], a.calls[i])
    BY <1>1, <1>6
  <2>6. Len(told) = Len(a.calls) /\ first >= 0 /\ Len(r.messages) >= 2 /\ a.calls # <<>>
    BY <1>6, <1>7, <2>1 DEF n
  <2> QED
    BY <2>1, <2>2, <2>3, <2>4, <2>5, <2>6, Zenon DEF Replays, r
<1> QED
  BY <1>9, <1>10, <1>11, <1>12 DEF res

\* A client that follows the documents makes a well-formed request, which ends
\* in the model's calls and their results and changes nothing else.
LEMMA FollowUpFits ==
  ASSUME stream \in BOOLEAN, req \in Request, WellFormed(req),
         NEW a \in Answers, a.calls # <<>>,
         NEW results \in [DOMAIN a.calls -> Results],
         NEW q, q = FollowUp(req, Respond(req, a), results)
  PROVE  /\ q \in Request /\ WellFormed(q) /\ q.tools = req.tools
         /\ \A f \in Tuning : q[f] = req[f]
         /\ Replays(q, a.calls)
<1> DEFINE res == Respond(req, a)
           model == ModelTurn(res)
           tool == ToolTurn(res, results)
           last == <<model, tool>>
           before == req.messages \o Question(req)
           all == before \o last
<1>1. /\ model \in Message /\ MessageFits(model) /\ tool \in Message /\ MessageFits(tool)
      /\ Replays([messages |-> last], a.calls)
  BY TurnsFit
<1>2. q = [req EXCEPT !.userMessage = "", !.messages = all]
  BY FollowUpAdds
<1> HIDE DEF model, tool
<1>3. /\ last \in Seq(Message) /\ Len(last) = 2 /\ DOMAIN last = 1..2
      /\ last[1] = model /\ last[2] = tool
      /\ \A m \in Range(last) : MessageFits(m)
  BY <1>1 DEF Range
<1>4. /\ req.messages \in Seq(Message)
      /\ Question(req) \in Seq(Message) /\ \A m \in Range(Question(req)) : MessageFits(m)
  <2>1. req.messages \in Seq(Message)
    BY DEF Request
  <2> QED
    BY <2>1, QuestionFits
<1>5. \A m \in Range(req.messages) : MessageFits(m)
  BY DEF WellFormed, MessageFits, PartFits
<1> HIDE DEF last
<1>6. before \in Seq(Message) /\ Range(before) \subseteq Range(req.messages) \cup Range(Question(req))
  BY <1>4, Joined
<1> HIDE DEF before
<1>7. /\ all \in Seq(Message) /\ Len(all) = Len(before) + 2 /\ Len(before) \in Nat
      /\ Range(all) \subseteq Range(before) \cup Range(last)
      /\ all[Len(before) + 1] = last[1] /\ all[Len(before) + 2] = last[2]
  <2>1. last \in Seq(Message)
    BY <1>3
  <2>2. /\ all \in Seq(Message) /\ Len(all) = Len(before) + Len(last)
        /\ \A i \in DOMAIN last : all[Len(before) + i] = last[i]
        /\ Range(all) \subseteq Range(before) \cup Range(last)
    BY <1>6, <2>1, Joined
  <2>3. 1 \in DOMAIN last /\ 2 \in DOMAIN last /\ Len(last) = 2
    BY <1>3
  <2> HIDE DEF all
  <2>4. Len(before) \in Nat
    BY <1>6
  <2> QED
    BY <2>2, <2>3, <2>4
<1> HIDE DEF all
<1>8. \A m \in Range(all) : MessageFits(m)
  BY <1>3, <1>4, <1>5, <1>6, <1>7
<1>9. q \in Request
  <2>1. PICK none \in STRING : none = ""
    BY LiteralsAreStrings
  <2>2. q = [req EXCEPT !.userMessage = none, !.messages = all]
    BY <1>2, <2>1
  <2> QED
    BY <1>7, <2>2 DEF Request
<1>10. /\ q.messages = all /\ q.userMessage = "" /\ q.tools = req.tools
       /\ q.modelName = req.modelName /\ q.temperature = req.temperature
       /\ q.maxOutputTokens = req.maxOutputTokens /\ q.topP = req.topP /\ q.topK = req.topK
       /\ q.responseFormat = req.responseFormat /\ q.outputSchema = req.outputSchema
       /\ q.toolChoice = req.toolChoice
       /\ \A f \in Tuning : q[f] = req[f]
  BY <1>2 DEF Request, Tuning
<1>11. WellFormed(q)
  <2>1. all # <<>>
    BY <1>7
  <2>2. \A m \in Range(q.messages) : MessageFits(m)
    BY <1>8, <1>10
  <2>3. \A m \in Range(q.messages) :
          /\ m.role \in {"user", "model", "tool"}
          /\ \/ ~Blank(m.content) /\ m.parts = <<>>
             \/ Blank(m.content) /\ m.parts # <<>>
          /\ \A x \in Range(m.parts) :
               \E kind \in Kinds :
                 /\ Has(x, kind) /\ \A other \in Kinds \ {kind} : ~Has(x, other)
                 /\ \A y \in x.media : ~Blank(y.contentType) /\ ~Blank(y.url)
                 /\ \A y \in x.toolRequest \cup x.toolResponse : ~Blank(y.name)
    BY <2>2, Zenon DEF MessageFits, PartFits
  <2>4. /\ Supported(q.modelName)
        /\ Blank(q.userMessage) => q.messages # <<>>
        /\ q.temperature \subseteq 0..2 /\ q.topP \subseteq 0..1
        /\ \A n \in q.maxOutputTokens \cup q.topK : n > 0
        /\ q.responseFormat = "json" \/ (q.responseFormat = "" /\ q.outputSchema = {})
        /\ q.toolChoice \in {"", "auto", "required", "none"}
        /\ \A t \in Range(q.tools) : ~Blank(t.name)
        /\ Cardinality({t.name : t \in Range(q.tools)}) = Len(q.tools)
    BY <1>10, <2>1, Zenon DEF WellFormed
  <2> QED
    BY <2>3, <2>4, Zenon DEF WellFormed
<1>12. Replays(q, a.calls)
  <2>1. /\ Len(q.messages) >= 2
        /\ q.messages[Len(q.messages) - 1] = model
        /\ q.messages[Len(q.messages)] = tool
    <3>1. Len(all) - 1 = Len(before) + 1 /\ Len(all) = Len(before) + 2 /\ Len(all) >= 2
      BY <1>7
    <3> QED
      BY <1>3, <1>7, <1>10, <3>1
  <2> DEFINE short == [messages |-> last]
  <2>2. /\ Len(short.messages) >= 2
        /\ short.messages[Len(short.messages) - 1] = model
        /\ short.messages[Len(short.messages)] = tool
    <3>1. short.messages = last
      BY Zenon
    <3>2. Len(last) - 1 = 1 /\ 2 >= 2
      BY <1>3
    <3> HIDE DEF short
    <3> QED
      BY <1>3, <3>1, <3>2
  <2>3. Replays(short, a.calls)
    BY <1>1
  <2> HIDE DEF short
  <2> QED
    BY <2>1, <2>2, <2>3, Zenon DEF Replays
<1> QED
  BY <1>9, <1>10, <1>11, <1>12

-----------------------------------------------------------------------------
(* The invariant is inductive                                              *)

LEMMA ConversationInit == Init => ConversationInv
<1> SUFFICES ASSUME Init PROVE ConversationInv
  OBVIOUS
<1>1. RequestInv
  BY ConversationAssumption DEF Init, RequestInv
<1> QED
  BY <1>1 DEF Init, ConversationInv, VerdictInv, AnswerInv, FollowUpInv

LEMMA ConversationStep == ConversationInv /\ [Next]_vars => ConversationInv'
<1> SUFFICES ASSUME ConversationInv, [Next]_vars PROVE ConversationInv'
  OBVIOUS
<1> USE DEF ConversationInv
<1>1. CASE Examine
  <2>1. /\ pc = "sent" /\ verdict' = Validate(req) /\ stream' = stream /\ req' = req
        /\ answer' = answer /\ response' = response /\ turn' = turn
    BY <1>1 DEF Examine
  <2>2. \/ verdict' = <<>> /\ pc' = "accepted" /\ prompt' = {Options(req)}
        \/ verdict' # <<>> /\ pc' = "rejected"
    BY <1>1 DEF Examine
  <2>3. RequestInv'
    BY <2>1, <2>2 DEF RequestInv
  <2>4. VerdictInv'
    BY <2>1, <2>2 DEF VerdictInv
  <2>5. AnswerInv'
    BY <2>2 DEF AnswerInv
  <2>6. FollowUpInv'
    <3>1. Answers' = Answers
      BY <2>1 DEF Answers, Calls, Callable
    <3> QED
      BY <2>1, <2>2, <3>1 DEF FollowUpInv
  <2> QED
    BY <2>3, <2>4, <2>5, <2>6
<1>2. CASE Generate
  <2>1. /\ pc = "accepted" /\ pc' = "answered" /\ stream' = stream /\ req' = req
        /\ verdict' = verdict /\ prompt' = prompt /\ turn' = turn
    BY <1>2 DEF Generate
  <2>2. PICK a \in Answers : answer' = {a} /\ response' = {Respond(req, a)}
    BY <1>2 DEF Generate
  <2>3. RequestInv'
    BY <2>1 DEF RequestInv
  <2>4. VerdictInv'
    BY <2>1 DEF VerdictInv
  <2>5. AnswerInv'
    <3>1. Answers' = Answers
      BY <2>1 DEF Answers, Calls, Callable
    <3>2. a \in Answers' /\ answer' = {a} /\ response' = {Respond(req, a)}'
      BY <2>1, <2>2, <3>1 DEF Respond
    <3> QED
      BY <3>2 DEF AnswerInv
  <2>6. FollowUpInv'
    BY <2>1 DEF FollowUpInv
  <2> QED
    BY <2>3, <2>4, <2>5, <2>6
<1>3. CASE Continue
  <2>1. /\ pc = "answered" /\ pc' = "sent" /\ stream' = stream /\ answer' = answer
        /\ turn' = turn + 1
    BY <1>3 DEF Continue
  <2>2. PICK a \in Answers : answer = {a} /\ response = {Respond(req, a)}
    BY <2>1 DEF AnswerInv
  <2>3. /\ Respond(req, a).toolCalls # <<>>
        /\ \E results \in [DOMAIN Respond(req, a).toolCalls -> Results] :
             req' = FollowUp(req, Respond(req, a), results)
    BY <1>3, <2>2 DEF Continue
  <2>4. stream \in BOOLEAN /\ req \in Request /\ turn \in Nat
    BY DEF RequestInv
  <2>5. Respond(req, a).toolCalls = CallsFrom(a.calls) /\ DOMAIN CallsFrom(a.calls) = DOMAIN a.calls
    BY DEF Respond, CallsFrom
  <2>6. PICK results \in [DOMAIN a.calls -> Results] : req' = FollowUp(req, Respond(req, a), results)
    BY <2>3, <2>5
  <2>7. a.calls # <<>>
    <3>1. CallsFrom(<<>>) = <<>>
      BY DEF CallsFrom
    <3> QED
      BY <2>3, <2>5, <3>1
  <2>8. WellFormed(req)
    BY <2>1, <2>4, ValidateAcceptsWellFormed DEF VerdictInv
  <2>9. /\ req' \in Request /\ WellFormed(req') /\ req'.tools = req.tools
        /\ \A f \in Tuning : req'[f] = req[f]
        /\ Replays(req', a.calls)
    BY <2>4, <2>6, <2>7, <2>8, FollowUpFits
  <2>10. RequestInv'
    BY <2>1, <2>4, <2>9 DEF RequestInv
  <2>11. VerdictInv' /\ AnswerInv'
    BY <2>1 DEF VerdictInv, AnswerInv
  <2>12. FollowUpInv'
    <3>1. Answers' = Answers
      BY <2>9 DEF Answers, Calls, Callable
    <3> QED
      BY <2>1, <2>2, <2>9, <3>1 DEF FollowUpInv
  <2> QED
    BY <2>10, <2>11, <2>12
<1>4. CASE UNCHANGED vars
  <2>1. Answers' = Answers
    BY <1>4 DEF vars, Answers, Calls, Callable
  <2>2. RequestInv' /\ VerdictInv'
    BY <1>4 DEF vars, RequestInv, VerdictInv
  <2>3. AnswerInv'
    <3>1. CASE pc = "answered"
      <4>1. PICK a \in Answers : answer = {a} /\ response = {Respond(req, a)}
        BY <3>1 DEF AnswerInv
      <4>2. a \in Answers' /\ answer' = {a} /\ response' = {Respond(req, a)}'
        BY <1>4, <2>1, <4>1 DEF vars, Respond
      <4> QED
        BY <4>2 DEF AnswerInv
    <3> QED
      BY <1>4, <3>1 DEF AnswerInv, vars
  <2>4. FollowUpInv'
    BY <1>4, <2>1 DEF vars, FollowUpInv
  <2> QED
    BY <2>2, <2>3, <2>4
<1>5. CASE Over
  BY <1>4, <1>5 DEF Over
<1> QED
  BY <1>1, <1>2, <1>3, <1>4, <1>5 DEF Next

\* The invariant of a conversation: what was decided belongs to the request at
\* hand, and a follow-up replays the answer it follows.
THEOREM ConversationInvariance == Spec => []ConversationInv
BY ConversationInit, ConversationStep, PTL DEF Spec

-----------------------------------------------------------------------------
(* What follows                                                            *)

\* Whatever the request, it is refused if one of its fields is malformed, and
\* only then (GenerateRequest.Validate).
THEOREM VerdictsAreRight == Spec => []RefusedIffMalformed
<1>1. ConversationInv => RefusedIffMalformed
  BY ValidateAcceptsWellFormed DEF ConversationInv, RequestInv, VerdictInv, RefusedIffMalformed
<1> QED
  BY <1>1, ConversationInvariance, PTL

\* However long the conversation, the client's replay of an answer is accepted
\* (toolCallsFrom, Part.validate).
THEOREM RepliesAreAccepted == Spec => []FollowUpAccepted
<1>1. ConversationInv => FollowUpAccepted
  BY ValidateAcceptsWellFormed
     DEF ConversationInv, RequestInv, VerdictInv, FollowUpInv, FollowUpAccepted
<1> QED
  BY <1>1, ConversationInvariance, PTL

\* No text is delivered twice or in the wrong field, and none is lost unless
\* tools are called (outputAndData, Generate).
THEOREM TextArrivesOnce == Spec => []TextDeliveredOnce
<1>1. ASSUME ConversationInv, pc = "answered", NEW a, NEW res, res = Respond(req, a)
      PROVE  /\ TextOf(res) = a.text
             /\ res.data # {} =>
                  res.output = "" /\ req.responseFormat = "json" /\ a.text = "json"
             /\ Cardinality({t \in {<<"streamed", res.streamed>>, <<"output", res.output>>}
                                   \cup ({"data"} \X res.data) : t[2] # ""}) <= 1
  <2> DEFINE json == req.responseFormat = "json" /\ a.text = "json"
             S == {t \in {<<"streamed", res.streamed>>, <<"output", res.output>>}
                         \cup ({"data"} \X res.data) : t[2] # ""}
  <2>1. stream \in BOOLEAN
    BY <1>1 DEF ConversationInv, RequestInv
  <2>2. \/ res.streamed = a.text /\ res.output = "" /\ res.data = {}
        \/ json /\ res.streamed = "" /\ res.output = "" /\ res.data = {a.text}
        \/ res.streamed = "" /\ res.output = a.text /\ res.data = {}
    <3>1. CASE stream
      BY <1>1, <3>1 DEF Respond
    <3>2. CASE ~stream /\ json
      <4>1. OutputAndData(req, a.text) = <<"", {a.text}>>
        BY <3>2 DEF OutputAndData
      <4>2. /\ res.streamed = "" /\ res.output = OutputAndData(req, a.text)[1]
            /\ res.data = OutputAndData(req, a.text)[2]
        BY <1>1, <3>2 DEF Respond
      <4>3. \A d : <<"", d>>[1] = "" /\ <<"", d>>[2] = d
        OBVIOUS
      <4> QED
        BY <3>2, <4>1, <4>2, <4>3, Zenon
    <3>3. CASE ~stream /\ ~json
      <4>1. OutputAndData(req, a.text) = <<a.text, {}>>
        BY <3>3 DEF OutputAndData
      <4>2. /\ res.streamed = "" /\ res.output = OutputAndData(req, a.text)[1]
            /\ res.data = OutputAndData(req, a.text)[2]
        BY <1>1, <3>3 DEF Respond
      <4>3. OutputAndData(req, a.text)[1] = a.text /\ OutputAndData(req, a.text)[2] = {}
        BY <4>1
      <4>4. res.streamed = "" /\ res.output = a.text /\ res.data = {}
        BY <4>2, <4>3, Zenon
      <4> QED
        BY <4>4, Zenon
    <3> QED
      BY <2>1, <3>1, <3>2, <3>3
  <2>3. \E x : S \subseteq {x}
    <3>1. ({"data"} \X {}) = {} /\ ({"data"} \X {a.text}) = {<<"data", a.text>>}
      OBVIOUS
    <3>2. <<"streamed", "">>[2] = "" /\ <<"output", "">>[2] = ""
      OBVIOUS
    <3>3. CASE res.streamed = a.text /\ res.output = "" /\ res.data = {}
      <4>1. S \subseteq {<<"streamed", a.text>>}
        BY <3>1, <3>2, <3>3, Zenon
      <4> QED
        BY <4>1, Zenon
    <3>4. CASE res.streamed = "" /\ res.output = "" /\ res.data = {a.text}
      <4>1. S \subseteq {<<"data", a.text>>}
        BY <3>1, <3>2, <3>4, Zenon
      <4> QED
        BY <4>1, Zenon
    <3>5. CASE res.streamed = "" /\ res.output = a.text /\ res.data = {}
      <4>1. S \subseteq {<<"output", a.text>>}
        BY <3>1, <3>2, <3>5, Zenon
      <4> QED
        BY <4>1, Zenon
    <3> QED
      BY <2>2, <3>3, <3>4, <3>5
  <2>4. Cardinality(S) <= 1
    <3> HIDE DEF S
    <3>1. PICK x : S \subseteq {x}
      BY <2>3
    <3>2. IsFiniteSet({x}) /\ Cardinality({x}) = 1
      BY FS_Singleton
    <3>3. Cardinality(S) <= Cardinality({x})
      BY <3>1, <3>2, FS_Subset
    <3> QED
      BY <3>2, <3>3
  <2>5. TextOf(res) = a.text
    BY <1>1, <2>1, TextComesBack
  <2> HIDE DEF S
  <2> QED
    BY <2>2, <2>4, <2>5 DEF S
<1>2. ConversationInv => TextDeliveredOnce
  <2> SUFFICES ASSUME ConversationInv, pc = "answered", NEW res \in response, NEW a \in answer
               PROVE  /\ a.calls = <<>> => TextOf(res) = a.text
                      /\ res.data # {} =>
                           res.output = "" /\ req.responseFormat = "json" /\ a.text = "json"
                      /\ Cardinality({t \in {<<"streamed", res.streamed>>,
                                             <<"output", res.output>>}
                                            \cup ({"data"} \X res.data) : t[2] # ""}) <= 1
    BY DEF TextDeliveredOnce
  <2>1. res = Respond(req, a)
    BY DEF ConversationInv, AnswerInv
  <2> QED
    BY <1>1, <2>1
<1> QED
  BY <1>2, ConversationInvariance, PTL

\* partFrom of a part that has one kind is that kind, with what it says.
LEMMA PartHeard ==
  ASSUME NEW part \in Part, PartFits(part)
  PROVE  /\ {k \in Kinds : Has(part, k)} = {PartFrom(part).kind}
         /\ PartFrom(part).body = Content(part, PartFrom(part).kind)
<1> DEFINE h == PartFrom(part)
<1>1. PICK kind \in Kinds : Has(part, kind) /\ \A other \in Kinds \ {kind} : ~Has(part, other)
  BY DEF PartFits
<1>2. {k \in Kinds : Has(part, k)} = {kind}
  BY <1>1
<1>3. /\ Has(part, "media") <=> part.media # {}
      /\ Has(part, "toolRequest") <=> part.toolRequest # {}
      /\ Has(part, "toolResponse") <=> part.toolResponse # {}
      /\ part["toolRequest"] = part.toolRequest /\ part["toolResponse"] = part.toolResponse
  BY DEF Has
<1>4. kind \in {"text", "media", "toolRequest", "toolResponse"}
  BY DEF Kinds
<1>5. h.kind = kind /\ h.body = Content(part, kind)
  <2>1. CASE kind = "media"
    <3>1. part.media # {}
      BY <1>1, <1>3, <2>1
    <3>2. h = [kind |-> "media", body |-> Values(part.media, {})]
      BY <3>1 DEF PartFrom
    <3>3. Content(part, "media") = Values(part.media, {})
      BY DEF Content
    <3> HIDE DEF h
    <3> QED
      BY <2>1, <3>2, <3>3
  <2>2. CASE kind = "toolRequest"
    <3>1. part.media = {} /\ part.toolRequest # {}
      BY <1>1, <1>3, <2>2 DEF Kinds
    <3>2. h = [kind |-> "toolRequest", body |-> ToolPart(Values(part.toolRequest, {}))]
      BY <3>1 DEF PartFrom
    <3>3. Content(part, "toolRequest") = ToolPart(Values(part.toolRequest, {}))
      BY <1>3 DEF Content
    <3> HIDE DEF h
    <3> QED
      BY <2>2, <3>2, <3>3
  <2>3. CASE kind = "toolResponse"
    <3>1. part.media = {} /\ part.toolRequest = {} /\ part.toolResponse # {}
      BY <1>1, <1>3, <2>3 DEF Kinds
    <3>2. h = [kind |-> "toolResponse", body |-> ToolPart(Values(part.toolResponse, {}))]
      BY <3>1 DEF PartFrom
    <3>3. Content(part, "toolResponse") = ToolPart(Values(part.toolResponse, {}))
      BY <1>3 DEF Content
    <3> HIDE DEF h
    <3> QED
      BY <2>3, <3>2, <3>3
  <2>4. CASE kind = "text"
    <3>1. part.media = {} /\ part.toolRequest = {} /\ part.toolResponse = {}
      BY <1>1, <1>3, <2>4 DEF Kinds
    <3>2. h = [kind |-> "text", body |-> part.text]
      BY <3>1 DEF PartFrom
    <3>3. Content(part, "text") = part.text
      BY DEF Content
    <3> HIDE DEF h
    <3> QED
      BY <2>4, <3>2, <3>3
  <2> QED
    BY <1>4, <2>1, <2>2, <2>3, <2>4
<1> HIDE DEF h
<1> QED
  BY <1>2, <1>5 DEF h

\* messagesFrom keeps the conversation.
LEMMA NothingLost ==
  ASSUME NEW r \in Request, WellFormed(r)
  PROVE  Heard(Options(r)) = Said(r)
<1> DEFINE p == Options(r)
           HeardIn(i) == {<<i, p.messages[i].role, j, p.messages[i].parts[j].kind,
                            p.messages[i].parts[j].body>> : j \in DOMAIN p.messages[i].parts}
           SaidIn(i) ==
             IF r.messages[i].parts = <<>>
               THEN {<<i, r.messages[i].role, 1, "text", r.messages[i].content>>}
               ELSE UNION {
                 {<<i, r.messages[i].role, j, kind, Content(r.messages[i].parts[j], kind)>> :
                    kind \in {k \in Kinds : Has(r.messages[i].parts[j], k)}} :
                 j \in DOMAIN r.messages[i].parts}
<1>1. p.messages = MessagesFrom(r)
  BY DEF Options
<1> HIDE DEF p
<1>2. DOMAIN p.messages = DOMAIN r.messages
  BY <1>1 DEF MessagesFrom
<1>3. ASSUME NEW i \in DOMAIN r.messages
      PROVE  HeardIn(i) = SaidIn(i)
  <2> DEFINE m == r.messages[i]
             parts == p.messages[i].parts
  <2>1. /\ p.messages[i].role = m.role
        /\ parts = IF m.parts # <<>> THEN [j \in DOMAIN m.parts |-> PartFrom(m.parts[j])]
                   ELSE <<[kind |-> "text", body |-> m.content]>>
    BY <1>1 DEF MessagesFrom
  <2>2. m \in Message /\ \A x \in Range(m.parts) : PartFits(x)
    <3>1. r.messages \in Seq(Message)
      BY DEF Request
    <3>2. m \in Range(r.messages) /\ m \in Message
      BY <3>1 DEF Range
    <3> HIDE DEF m
    <3> QED
      BY <3>2 DEF WellFormed, PartFits
  <2>3. \A j \in DOMAIN m.parts : m.parts[j] \in Part /\ PartFits(m.parts[j])
    <3>1. m.parts \in Seq(Part)
      BY <2>2 DEF Message
    <3> HIDE DEF m
    <3> QED
      BY <2>2, <3>1 DEF Range
  <2> HIDE DEF m, parts
  <2>4. CASE m.parts = <<>>
    <3>1. parts = <<[kind |-> "text", body |-> m.content]>>
      BY <2>1, <2>4
    <3>2. DOMAIN parts = {1} /\ parts[1].kind = "text" /\ parts[1].body = m.content
      BY <3>1
    <3>3. HeardIn(i) = {<<i, m.role, j, parts[j].kind, parts[j].body>> : j \in {1}}
      BY <2>1, <3>2, Zenon DEF parts
    <3>4. HeardIn(i) = {<<i, m.role, 1, "text", m.content>>}
      BY <3>2, <3>3, Zenon
    <3>5. SaidIn(i) = {<<i, m.role, 1, "text", m.content>>}
      BY <2>4, Zenon DEF m
    <3> QED
      BY <3>4, <3>5, Zenon
  <2>5. CASE m.parts # <<>>
    <3>1. DOMAIN parts = DOMAIN m.parts /\ \A j \in DOMAIN m.parts : parts[j] = PartFrom(m.parts[j])
      BY <2>1, <2>5
    <3> DEFINE One(j) == {<<i, m.role, j, kind, Content(m.parts[j], kind)>> :
                            kind \in {k \in Kinds : Has(m.parts[j], k)}}
               Heard1(j) == <<i, m.role, j, parts[j].kind, parts[j].body>>
    <3>2. \A j \in DOMAIN m.parts : One(j) = {Heard1(j)}
      <4> SUFFICES ASSUME NEW j \in DOMAIN m.parts PROVE One(j) = {Heard1(j)}
        OBVIOUS
      <4>1. /\ {k \in Kinds : Has(m.parts[j], k)} = {parts[j].kind}
            /\ parts[j].body = Content(m.parts[j], parts[j].kind)
        BY <2>3, <3>1, PartHeard
      <4>2. One(j) = {<<i, m.role, j, kind, Content(m.parts[j], kind)>> : kind \in {parts[j].kind}}
        BY <4>1, Zenon
      <4> QED
        BY <4>1, <4>2, Zenon
    <3>3. HeardIn(i) = {Heard1(j) : j \in DOMAIN m.parts}
      BY <2>1, <3>1, Zenon DEF parts
    <3>4. SaidIn(i) = UNION {One(j) : j \in DOMAIN m.parts}
      BY <2>5, Zenon DEF m
    <3> HIDE DEF One, Heard1, HeardIn, SaidIn
    <3>5. UNION {One(j) : j \in DOMAIN m.parts} = {Heard1(j) : j \in DOMAIN m.parts}
      BY <3>2
    <3> QED
      BY <3>3, <3>4, <3>5
  <2> QED
    BY <2>4, <2>5
<1>4. Heard(p) = UNION {HeardIn(i) : i \in DOMAIN p.messages}
  BY Zenon DEF Heard
<1>5. Said(r) = UNION {SaidIn(i) : i \in DOMAIN r.messages}
  BY Zenon DEF Said
<1> HIDE DEF HeardIn, SaidIn
<1>6. {HeardIn(i) : i \in DOMAIN p.messages} = {SaidIn(i) : i \in DOMAIN r.messages}
  BY <1>2, <1>3
<1> QED
  BY <1>4, <1>5, <1>6 DEF p

\* configFor keeps the options, whichever of them are given.
LEMMA ConfigKept ==
  ASSUME NEW r \in Request, \A f \in Tuning : AtMostOne(r[f])
  PROVE  /\ \A f \in Tuning, v \in UNION {r[g] : g \in Tuning} :
              v \in r[f] => \E c \in ConfigFor(r) : c[1][f] = v
         /\ r.stopSequences # {} => \E c \in ConfigFor(r) : c[2] = r.stopSequences
         /\ \A f \in Tuning : r[f] = {} => \A c \in ConfigFor(r) : c[1][f] = 0
<1> DEFINE g == [f \in Tuning |-> Values(r[f], 0)]
           c == <<g, r.stopSequences>>
<1>1. c[1] = g /\ c[2] = r.stopSequences
  OBVIOUS
<1>2. Tuned(r) => ConfigFor(r) = {c}
  <2>1. {g} \X {r.stopSequences} = {c}
    OBVIOUS
  <2> QED
    BY <2>1 DEF ConfigFor
<1>3. ~Tuned(r) => ConfigFor(r) = {}
  BY DEF ConfigFor
<1>4. ASSUME NEW f \in Tuning, NEW v \in r[f]
      PROVE  Tuned(r) /\ g[f] = v
  <2>1. \A x \in r[f] : x = v
    BY DEF AtMostOne
  <2>2. r[f] # {} /\ (CHOOSE x \in r[f] : TRUE) = v
    BY <2>1
  <2> QED
    BY <2>2 DEF Tuned, Values
<1>5. ASSUME NEW f \in Tuning, r[f] = {}
      PROVE  g[f] = 0
  BY <1>5 DEF Values
<1>6. r.stopSequences # {} => Tuned(r)
  BY DEF Tuned
<1> HIDE DEF g, c
<1>7. ASSUME NEW f \in Tuning, NEW v \in r[f]
      PROVE  \E d \in ConfigFor(r) : d[1][f] = v
  BY <1>1, <1>2, <1>4
<1>8. r.stopSequences # {} => \E d \in ConfigFor(r) : d[2] = r.stopSequences
  BY <1>1, <1>2, <1>6
<1>9. ASSUME NEW f \in Tuning, r[f] = {}, NEW d \in ConfigFor(r)
      PROVE  d[1][f] = 0
  BY <1>1, <1>2, <1>3, <1>5, <1>9
<1> QED
  BY <1>7, <1>8, <1>9

\* Not a tool is lost or renamed, and none loses its schema (toolOptions).
LEMMA ToolsKept ==
  ASSUME NEW p, p = Options(req), req \in Request
  PROVE  ToolsHeard(p)
<1>1. p.tools = [i \in DOMAIN req.tools |->
                   [name |-> req.tools[i].name,
                    schema |-> Values(req.tools[i].inputSchema, "object")]]
  BY DEF Options
<1>2. p.toolChoice = IF req.tools = <<>> THEN {} ELSE {req.toolChoice} \ {""}
  BY DEF Options
<1>3. [i \in DOMAIN p.tools |-> p.tools[i].name] = [i \in DOMAIN req.tools |-> req.tools[i].name]
  BY <1>1
<1>4. ASSUME NEW i \in DOMAIN req.tools, req.tools[i].inputSchema # {}
      PROVE  p.tools[i].schema \in req.tools[i].inputSchema
  BY <1>1, <1>4 DEF Values
<1> QED
  BY <1>2, <1>3, <1>4 DEF ToolsHeard

\* Of a well-formed request the prompt, the system prompt, the format and its
\* schema are kept (generateOptions).
LEMMA PromptKept ==
  ASSUME NEW r \in Request, WellFormed(r), NEW p, p = Options(r)
  PROVE  /\ p.model = r.modelName
         /\ p.prompt = {r.userMessage} \ {""} /\ p.system = {r.systemPrompt} \ {""}
         /\ p.format = {r.responseFormat} \ {""} /\ p.schema = r.outputSchema
<1>1. /\ p.model = r.modelName
      /\ p.prompt = {r.userMessage} \ {""} /\ p.system = {r.systemPrompt} \ {""}
      /\ p.format = {r.responseFormat} \cap {"json"}
      /\ p.schema = IF r.responseFormat = "json" THEN r.outputSchema ELSE {}
  BY DEF Options
<1>2. r.responseFormat = "json" \/ (r.responseFormat = "" /\ r.outputSchema = {})
  BY DEF WellFormed
<1>3. {r.responseFormat} \cap {"json"} = {r.responseFormat} \ {""}
  BY <1>2
<1> QED
  BY <1>1, <1>2, <1>3

\* The provider hears what the client said and asked for (generateOptions,
\* toolOptions, messagesFrom, partFrom, configFor).
THEOREM RequestsAreHeard == Spec => []AcceptedIsHeard
<1>1. ConversationInv => AcceptedIsHeard
  <2> SUFFICES ASSUME ConversationInv, pc \in {"accepted", "answered"}, NEW p \in prompt
               PROVE  /\ Heard(p) = Said(req)
                      /\ p.model = req.modelName
                      /\ p.prompt = {req.userMessage} \ {""}
                      /\ p.system = {req.systemPrompt} \ {""}
                      /\ p.format = {req.responseFormat} \ {""}
                      /\ p.schema = req.outputSchema
                      /\ TuningHeard(p) /\ ToolsHeard(p)
    BY DEF AcceptedIsHeard
  <2>1. /\ req \in Request /\ \A f \in Tuning : AtMostOne(req[f])
        /\ Validate(req) = <<>> /\ p = Options(req)
    BY DEF ConversationInv, RequestInv, VerdictInv
  <2>2. WellFormed(req)
    BY <2>1, ValidateAcceptsWellFormed
  <2>3. Heard(p) = Said(req)
    BY <2>1, <2>2, NothingLost
  <2>4. p.config = ConfigFor(req)
    BY <2>1 DEF Options
  <2>5. TuningHeard(p)
    BY <2>1, <2>4, ConfigKept DEF TuningHeard
  <2>6. ToolsHeard(p)
    BY <2>1, ToolsKept
  <2> QED
    BY <2>1, <2>2, <2>3, <2>5, <2>6, PromptKept
<1> QED
  BY <1>1, ConversationInvariance, PTL

\* What was marshalled for the client is, once unmarshalled, what the model
\* chose (toolCallsFrom, rawToAny).
LEMMA CallRoundTrip ==
  ASSUME NEW c \in Calls, c.json \in {"nil", "object", "rounded"}
  PROVE  ToolPart([c EXCEPT !.json = Marshal(@)]) = c
<1>1. PICK j : j = Marshal(c.json)
  OBVIOUS
<1>2. RawToAny(j) = c.json
  <2>1. CASE c.json = "nil"
    BY <1>1, <2>1 DEF Marshal, RawToAny
  <2>2. CASE c.json = "object"
    BY <1>1, <2>2 DEF Marshal, RawToAny
  <2>3. CASE c.json = "rounded"
    BY <1>1, <2>3 DEF Marshal, RawToAny
  <2> QED
    BY <2>1, <2>2, <2>3
<1>3. c \in [name : Callable, ref : Refs, json : CallInputs]
  BY DEF Calls
<1> DEFINE d == [c EXCEPT !.json = j]
<1>4. d = [name |-> c.name, ref |-> c.ref, json |-> j]
  BY <1>3
<1>5. d.json = j
  BY <1>4
<1> HIDE DEF d
<1>6. ToolPart(d) = [d EXCEPT !.json = c.json]
  BY <1>2, <1>5 DEF ToolPart
<1>7. [d EXCEPT !.json = c.json] = c
  BY <1>3, <1>4
<1> QED
  BY <1>1, <1>6, <1>7 DEF d

\* However long the conversation, the model finds its calls in what it is sent,
\* each with its result (toolCallsFrom, messagesFrom, partFrom).
THEOREM CallsComeBack == Spec => []ToolCallsComeBack
<1>1. ASSUME ConversationInv, turn > 0, pc = "accepted", NEW p \in prompt, NEW a \in answer
      PROVE  LET model == p.messages[Len(p.messages) - 1]
                 tools == p.messages[Len(p.messages)]
                 asked == {j \in DOMAIN model.parts : model.parts[j].kind = "toolRequest"}
                 first == Len(model.parts) - Len(a.calls)
             IN
             /\ asked = (first + 1)..Len(model.parts)
             /\ \A i \in DOMAIN a.calls : model.parts[first + i].body = a.calls[i]
             /\ [i \in DOMAIN tools.parts |->
                   <<tools.parts[i].body.name, tools.parts[i].body.ref>>]
                  = [i \in DOMAIN a.calls |-> <<a.calls[i].name, a.calls[i].ref>>]
  <2>1. req \in Request /\ p = Options(req)
    BY <1>1 DEF ConversationInv, RequestInv, VerdictInv
  <2>2. a \in Answers /\ Replays(req, a.calls)
    BY <1>1 DEF ConversationInv, FollowUpInv
  <2> DEFINE n == Len(req.messages)
             k == Len(a.calls)
             asks == req.messages[n - 1].parts
             tells == req.messages[n].parts
             first == Len(asks) - k
  <2>3. n \in Nat /\ n >= 2 /\ req.messages \in Seq(Message) /\ DOMAIN req.messages = 1..n
    BY <2>1, <2>2 DEF Request, Replays
  <2>4. /\ k \in Nat \ {0} /\ DOMAIN a.calls = 1..k
        /\ \A i \in 1..k : a.calls[i] \in Calls /\ a.calls[i].json \in {"nil", "object", "rounded"}
    <3>1. a.calls # <<>>
      BY <2>2 DEF Replays
    <3>2. /\ k \in Nat /\ DOMAIN a.calls = 1..k
          /\ \A i \in DOMAIN a.calls :
               a.calls[i] \in Calls /\ a.calls[i].json \in {"nil", "object", "rounded"}
      BY <2>1, <2>2, AnswerType
    <3>3. k = 0 => a.calls = <<>>
      <4>1. a.calls \in Seq(Calls)
        BY <3>2, <2>2, ConversationAssumption DEF Answers
      <4> QED
        BY <4>1, EmptySeq
    <3> QED
      BY <3>1, <3>2, <3>3
  <2>5. /\ asks \in Seq(Part) /\ Len(asks) \in Nat /\ DOMAIN asks = 1..Len(asks)
        /\ tells \in Seq(Part) /\ DOMAIN tells = 1..Len(tells)
    <3>1. req.messages[n - 1] \in Message /\ req.messages[n] \in Message
      BY <2>3
    <3> QED
      BY <3>1 DEF Message
  <2>6. /\ first \in Nat /\ Len(tells) = k
        /\ \A j \in 1..first :
             asks[j].media = {} /\ asks[j].toolRequest = {} /\ asks[j].toolResponse = {}
        /\ \A i \in 1..k : AsksFor(asks[first + i], a.calls[i])
        /\ \A i \in 1..k : AnswersTo(tells[i], a.calls[i])
    <3>1. /\ first >= 0 /\ Len(tells) = k
          /\ \A j \in 1..first :
               asks[j].media = {} /\ asks[j].toolRequest = {} /\ asks[j].toolResponse = {}
          /\ \A i \in DOMAIN a.calls : AsksFor(asks[first + i], a.calls[i])
          /\ \A i \in DOMAIN a.calls : AnswersTo(tells[i], a.calls[i])
      BY <2>2 DEF Replays
    <3> HIDE DEF asks, tells, n, k
    <3>2. first \in Nat
      BY <2>4, <2>5, <3>1
    <3> HIDE DEF first
    <3> QED
      BY <2>4, <3>1, <3>2, Zenon
  <2> DEFINE model == p.messages[Len(p.messages) - 1].parts
             tools == p.messages[Len(p.messages)].parts
  <2>7. /\ DOMAIN model = DOMAIN asks /\ Len(model) = Len(asks)
        /\ \A j \in DOMAIN asks : model[j] = PartFrom(asks[j])
        /\ DOMAIN tools = DOMAIN tells
        /\ \A j \in DOMAIN tells : tools[j] = PartFrom(tells[j])
    <3>1. p.messages = MessagesFrom(req)
      BY <2>1 DEF Options
    <3>2. /\ DOMAIN p.messages = 1..n
          /\ \A i \in 1..n : req.messages[i].parts # <<>> =>
               p.messages[i].parts =
                 [j \in DOMAIN req.messages[i].parts |-> PartFrom(req.messages[i].parts[j])]
      BY <2>3, <3>1 DEF MessagesFrom
    <3>3. Len(p.messages) = n
      <4>1. p.messages = [i \in 1..n |-> p.messages[i]]
        BY <2>3, <3>1, <3>2 DEF MessagesFrom
      <4> HIDE DEF n
      <4> QED
        BY <2>3, <4>1
    <3>4. asks # <<>> /\ tells # <<>>
      <4> HIDE DEF asks, tells, k
      <4> QED
        BY <2>4, <2>5, <2>6
    <3>5. n - 1 \in 1..n /\ n \in 1..n
      BY <2>3
    <3>6. /\ model = [j \in DOMAIN asks |-> PartFrom(asks[j])]
          /\ tools = [j \in DOMAIN tells |-> PartFrom(tells[j])]
      BY <3>2, <3>3, <3>4, <3>5, Zenon
    <3> HIDE DEF model, tools, asks, tells
    <3> QED
      BY <2>5, <3>6
  <2> HIDE DEF asks, tells, model, tools, k
  <2>8. \A j \in 1..first : model[j].kind # "toolRequest"
    <3> SUFFICES ASSUME NEW j \in 1..first PROVE model[j].kind # "toolRequest"
      OBVIOUS
    <3>1. asks[j].media = {} /\ asks[j].toolRequest = {} /\ asks[j].toolResponse = {}
      BY <2>6
    <3>2. PartFrom(asks[j]) = [kind |-> "text", body |-> asks[j].text]
      BY <3>1 DEF PartFrom
    <3>3. j \in DOMAIN asks
      BY <2>4, <2>5, <2>6
    <3> QED
      BY <2>7, <3>2, <3>3
  <2>9. \A i \in 1..k :
          model[first + i].kind = "toolRequest" /\ model[first + i].body = a.calls[i]
    <3> SUFFICES ASSUME NEW i \in 1..k
                 PROVE  /\ model[first + i].kind = "toolRequest"
                        /\ model[first + i].body = a.calls[i]
      OBVIOUS
    <3> DEFINE part == asks[first + i]
               x == [a.calls[i] EXCEPT !.json = Marshal(@)]
    <3>1. part.media = {} /\ part.toolRequest = {x}
      BY <2>6 DEF AsksFor
    <3>2. ToolPart(x) = a.calls[i]
      BY <2>4, CallRoundTrip
    <3>3. first + i \in DOMAIN asks
      BY <2>4, <2>5, <2>6
    <3>4. model[first + i] = PartFrom(part)
      BY <2>7, <3>3
    <3> HIDE DEF part, x
    <3>5. Values(part.toolRequest, {}) = x
      BY <3>1 DEF Values
    <3>6. PartFrom(part) = [kind |-> "toolRequest", body |-> ToolPart(Values(part.toolRequest, {}))]
      BY <3>1 DEF PartFrom
    <3> QED
      BY <3>2, <3>4, <3>5, <3>6
  <2>10. \A i \in 1..k : tools[i].body.name = a.calls[i].name /\ tools[i].body.ref = a.calls[i].ref
    <3> SUFFICES ASSUME NEW i \in 1..k
                 PROVE  /\ tools[i].body.name = a.calls[i].name
                        /\ tools[i].body.ref = a.calls[i].ref
      OBVIOUS
    <3> DEFINE part == tells[i]
    <3>1. /\ part.media = {} /\ part.toolRequest = {}
          /\ \E x \in ToolUse : part.toolResponse = {x} /\ x.name = a.calls[i].name
                                                       /\ x.ref = a.calls[i].ref
      BY <2>6 DEF AnswersTo
    <3>2. PICK x \in ToolUse : part.toolResponse = {x} /\ x.name = a.calls[i].name
                                                       /\ x.ref = a.calls[i].ref
      BY <3>1
    <3>3. tools[i] = PartFrom(part)
      BY <2>5, <2>6, <2>7
    <3> HIDE DEF part
    <3>4. Values(part.toolResponse, {}) = x
      BY <3>2 DEF Values
    <3>5. PartFrom(part) = [kind |-> "toolResponse", body |-> ToolPart(Values(part.toolResponse, {}))]
      BY <3>1, <3>2 DEF PartFrom
    <3>6. ToolPart(x).name = x.name /\ ToolPart(x).ref = x.ref
      BY DEF ToolPart, ToolUse
    <3> QED
      BY <3>2, <3>3, <3>4, <3>5, <3>6
  <2> DEFINE asked == {j \in DOMAIN model : model[j].kind = "toolRequest"}
  <2>11. Len(model) = first + k /\ first \in Nat /\ DOMAIN model = 1..(first + k)
    BY <2>4, <2>5, <2>6, <2>7
  <2>12. asked = (first + 1)..Len(model)
    <3> HIDE DEF first
    <3>1. ASSUME NEW j \in DOMAIN model
          PROVE  model[j].kind = "toolRequest" <=> j \in (first + 1)..Len(model)
      <4>1. CASE j <= first
        BY <2>8, <2>11, <4>1
      <4>2. CASE ~(j <= first)
        <5>1. j - first \in 1..k /\ first + (j - first) = j
          BY <2>4, <2>11, <4>2
        <5>2. model[first + (j - first)].kind = "toolRequest"
          BY <2>9, <5>1
        <5> QED
          BY <2>4, <2>11, <4>2, <5>1, <5>2
      <4> QED
        BY <4>1, <4>2
    <3>2. (first + 1)..Len(model) \subseteq DOMAIN model
      BY <2>4, <2>11
    <3> QED
      BY <3>1, <3>2
  <2>13. Len(model) - Len(a.calls) = first
    BY <2>4, <2>11 DEF k
  <2>14. [i \in DOMAIN tools |-> <<tools[i].body.name, tools[i].body.ref>>]
           = [i \in DOMAIN a.calls |-> <<a.calls[i].name, a.calls[i].ref>>]
    BY <2>4, <2>5, <2>6, <2>7, <2>10
  <2>15. \A i \in DOMAIN a.calls : model[first + i].body = a.calls[i]
    BY <2>4, <2>9
  <2> HIDE DEF first
  <2> QED
    BY <2>12, <2>13, <2>14, <2>15, Zenon DEF model, tools
<1>2. ConversationInv => ToolCallsComeBack
  BY <1>1 DEF ToolCallsComeBack
<1> QED
  BY <1>2, ConversationInvariance, PTL

=============================================================================
