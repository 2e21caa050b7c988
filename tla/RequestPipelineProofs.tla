----------------------- MODULE RequestPipelineProofs -----------------------
(* Proofs about RequestPipeline, for any number of requests, any inputs and *)
(* every environment of PipelineAssumption.                                 *)
EXTENDS RequestPipeline, TLAPS, FiniteSetTheorems, WellFoundedInduction

-----------------------------------------------------------------------------
(* The inductive invariant                                                 *)

\* The budgets a request is charged on, by the layer that charges them.
GlobalTags(i) == IF config.globalLimit > 0 /\ i.token # NoToken THEN {Global} ELSE {}
ModelTags(i) ==
  IF LimitOf(config, ModelTag(config, i.model)) > 0 THEN {ModelTag(config, i.model)} ELSE {}
StreamTags(i) == IF i.route = "stream" /\ config.streamLimit > 0 THEN {Stream} ELSE {}
HandlerTags(i) == GlobalTags(i) \cup ModelTags(i) \cup StreamTags(i)

TagsOf(r) == {c.tag : c \in charges[r]}

\* The limiter denied the request; 429 is the provider's once it was served.
Denied(r) == status[r] = 429 /\ ~Served(r)

\* The requests an answer of the backend let through on a key in a window.
Passed(k, w) ==
  {r \in Requests : ~Denied(r) /\ \E c \in charges[r] : c.key = k /\ c.window = w /\ c.replied}

\* Repeated runs are finitely many, each on a key of its caller's token.
RepeatInv ==
  /\ IsFiniteSet(repeats)
  /\ \A l \in repeats : l.request \in Requests /\ l.key = Key(req[l.request].token, l.tag)

\* A charge is on a key of the caller's own token, in a window that has begun,
\* and an answer means the call was counted.
ChargeInv ==
  /\ DOMAIN charges = Requests /\ DOMAIN apiKey = Requests
  /\ \A r \in Requests : \A c \in charges[r] :
       /\ c.key = Key(req[r].token, c.tag)
       /\ c.tag \in HandlerTags(req[r])
       /\ LimitOf(config, c.tag) \in Nat
       /\ c.window \in 0..window
       /\ c.replied => c.counted

\* Where a request stands says which layers have charged it, which checks it
\* has passed, and what its slot, key and status can be.
StepOf(r) ==
  /\ pc[r] # "arriving" => Starts(config)
  /\ pc[r] \in {"arriving", "global"} => TagsOf(r) = {}
  /\ pc[r] \in {"vetting", "model"} => TagsOf(r) = GlobalTags(req[r])
  /\ pc[r] = "stream" =>
       TagsOf(r) = GlobalTags(req[r]) \cup ModelTags(req[r]) /\ req[r].route = "stream"
  /\ pc[r] \in {"resolving", "generating"} \/ Served(r) => TagsOf(r) = HandlerTags(req[r])
  /\ pc[r] \in {"model", "stream", "resolving", "generating"} \/ Served(r) =>
       Refusal(req[r]) = 0
  /\ pc[r] \notin {"observe", "done"} => status[r] = 0
  /\ pc[r] = "generating" => Served(r)
  /\ Served(r) =>
       /\ pc[r] \in {"generating", "observe", "done"}
       /\ slot[r].model = req[r].model
       /\ apiKey[r] = ProviderKey(req[r].token, ProviderOf[req[r].model])
       /\ apiKey[r] \notin {NoSecret, Unavailable}
  /\ slot[r].model \in {"", req[r].model}
  /\ slot[r].usage => Served(r) /\ status[r] = 200


StepInv == \A r \in Requests : StepOf(r)

\* No key passes more requests in a window than its limit.
BudgetInv ==
  \A r \in Requests : \A c \in charges[r] :
    Cardinality(Passed(c.key, c.window)) <= LimitOf(config, c.tag)

LoggedAs(l) == {r \in logged : status[r] = l[1] /\ ProviderLabel(r) = l[2]}
LoggedServed(p) ==
  {r \in logged : Served(r) /\ status[r] = 200 /\ ProviderOf[req[r].model] = p}

\* What was logged is over, and its label has a counter.
MetricsInv ==
  /\ \A r \in logged : pc[r] = "done" /\ <<status[r], ProviderLabel(r)>> \in DOMAIN counted
  /\ \A l \in DOMAIN counted : l = <<l[1], l[2]>> /\ counted[l] = Cardinality(LoggedAs(l))
  /\ \A p \in Providers : tokens[p] \in Nat /\ tokens[p] <= Cardinality(LoggedServed(p))

PipelineInv ==
  /\ TypeOK
  /\ ChargeInv
  /\ RepeatInv
  /\ StepInv
  /\ BudgetInv
  /\ DenialIsDue
  /\ MetricsInv

-----------------------------------------------------------------------------
(* The tables of the configuration                                         *)

\* The later of two entries of a name exists, so that LastOf is one of them.
LEMMA LastOfIsAnEntry ==
  ASSUME NEW list, IsList(list), NEW name \in Names(list)
  PROVE  /\ LastOf(list, name) \in DOMAIN list
         /\ list[LastOf(list, name)] # <<>>
         /\ list[LastOf(list, name)][1] = name
<1> DEFINE n == Len(list)
           I == {i \in 1..n : list[i] # <<>> /\ list[i][1] = name}
           T == {n - i : i \in I}
<1>1. n \in Nat /\ DOMAIN list = 1..n
  BY DEF IsList
<1>2. T # {} /\ T \subseteq Nat
  BY <1>1 DEF Names, Entries
<1>3. PICK x \in T : \A y \in T : ~(<<y, x>> \in OpToRel(<, Nat))
  BY <1>2, NatLessThanWellFounded, WFMin
<1>4. \A y \in T : ~(y < x)
  BY <1>2, <1>3 DEF OpToRel
<1>5. PICK i \in I : x = n - i
  OBVIOUS
<1>6. \A j \in (i + 1)..Len(list) : list[j] = <<>> \/ list[j][1] # name
  <2> SUFFICES ASSUME NEW j \in (i + 1)..n, j \in I PROVE FALSE
    BY <1>1, <1>5
  <2>1. n - j \in T /\ n - j < x
    BY <1>1, <1>5
  <2> QED
    BY <2>1, <1>4
<1> QED
  BY <1>1, <1>5, <1>6 DEF LastOf

\* A process that started has a number for every limit a request can meet, and
\* a positive one for a model of RATE_LIMIT_MODELS.
LEMMA LimitIsNumber ==
  ASSUME NEW c \in Configs, Starts(c), NEW m \in Models
  PROVE  /\ LimitOf(c, Global) = c.globalLimit /\ c.globalLimit \in Nat
         /\ LimitOf(c, Stream) = c.streamLimit /\ c.streamLimit \in Nat
         /\ LimitOf(c, ModelTag(c, m)) \in Nat
         /\ m \in Names(c.modelLimits) =>
              ModelTag(c, m) = <<"model", m>> /\ LimitOf(c, ModelTag(c, m)) > 0
         /\ m \notin Names(c.modelLimits) =>
              /\ ModelTag(c, m) = <<"provider", ProviderOf[m]>>
              /\ LimitOf(c, ModelTag(c, m)) = c.providerLimits[ProviderOf[m]]
<1>1. LimitOf(c, Global) = c.globalLimit /\ c.globalLimit \in Nat
  BY PipelineAssumption DEF LimitOf, Global
<1>2. LimitOf(c, Stream) = c.streamLimit /\ c.streamLimit \in Nat
  BY PipelineAssumption DEF LimitOf, Stream
<1>3. CASE m \in Names(c.modelLimits)
  <2> DEFINE e == c.modelLimits[LastOf(c.modelLimits, m)]
  <2>1. e \in Entries(c.modelLimits)
    BY <1>3, LastOfIsAnEntry, PipelineAssumption DEF Entries
  <2>2. e[2] \in Int /\ e[2] > 0
    BY <2>1, PipelineAssumption DEF Starts, SoundLimits
  <2>3. ModelTag(c, m) = <<"model", m>>
    BY <1>3 DEF ModelTag
  <2>4. LimitOf(c, <<"model", m>>) = ModelLimits(c.modelLimits)[m]
    BY DEF LimitOf
  <2>5. ModelLimits(c.modelLimits)[m] = e[2]
    BY <1>3 DEF ModelLimits
  <2> HIDE DEF e
  <2> QED
    BY <2>2, <2>3, <2>4, <2>5, <1>1, <1>2, <1>3
<1>4. CASE m \notin Names(c.modelLimits)
  <2>1. ModelTag(c, m) = <<"provider", ProviderOf[m]>>
    BY <1>4 DEF ModelTag
  <2>2. LimitOf(c, <<"provider", ProviderOf[m]>>) = c.providerLimits[ProviderOf[m]]
    BY DEF LimitOf
  <2>3. c.providerLimits[ProviderOf[m]] \in Nat
    BY PipelineAssumption DEF Providers
  <2> QED
    BY <2>1, <2>2, <2>3, <1>1, <1>2, <1>4
<1> QED
  BY <1>3, <1>4

-----------------------------------------------------------------------------
(* Charging a budget                                                       *)

CountedOn(k) ==
  {r \in Requests : \E c \in charges[r] : c.key = k /\ c.window = window /\ c.counted}

\* What a layer knows of the call it makes: the request is under way, has not
\* been charged on this budget, and the budget is one of its own.
Chargeable(r, tag) ==
  /\ pc[r] \notin {"observe", "done"} /\ ~Served(r)
  /\ tag \in HandlerTags(req[r]) /\ tag \notin TagsOf(r)
  /\ LimitOf(config, tag) \in Nat

\* Who was counted under a key called on its budget, the caller not being one
\* of them yet.
LEMMA CountedAreCalls ==
  ASSUME PipelineInv, NEW r \in Requests, NEW tag, Chargeable(r, tag)
  PROVE  LET C == CountedOn(Key(req[r].token, tag)) IN
         /\ IsFiniteSet(C) /\ Cardinality(C) \in Nat
         /\ Count(Key(req[r].token, tag))
              = Cardinality(C) + Cardinality(RepeatsOf(req[r].token, tag, window))
         /\ Cardinality(RepeatsOf(req[r].token, tag, window)) \in Nat
         /\ r \notin C
         /\ C \subseteq CallsOf(req[r].token, tag, window)
<1> DEFINE C == CountedOn(Key(req[r].token, tag))
<1>1. IsFiniteSet(C) /\ Cardinality(C) \in Nat
  BY PipelineAssumption, FS_Subset, FS_CardinalityType DEF CountedOn
<1>2. \A q \in C : /\ req[q].token = req[r].token
                   /\ \E c \in charges[q] : c.tag = tag /\ c.window = window /\ c.counted
  BY DEF CountedOn, PipelineInv, ChargeInv, Key
<1>3. RepeatsOf(req[r].token, tag, window)
        = {l \in repeats : l.key = Key(req[r].token, tag) /\ l.window = window}
  BY DEF RepeatsOf, PipelineInv, RepeatInv, Key
<1>4. Cardinality(RepeatsOf(req[r].token, tag, window)) \in Nat
  BY FS_Subset, FS_CardinalityType DEF RepeatsOf, PipelineInv, RepeatInv
<1> QED
  BY <1>1, <1>2, <1>3, <1>4 DEF CountedOn, Count, Chargeable, TagsOf, CallsOf

\* One answer of Allow: the charge is recorded, a denial is answered and ends the
\* request, and neither the budgets nor the reasons of denials are disturbed.
LEMMA AskStep ==
  ASSUME PipelineInv, NEW r \in Requests, NEW tag, Chargeable(r, tag),
         NEW next, NEW denied, Ask(r, tag, next, denied),
         UNCHANGED <<config, req, window, slot, apiKey, logged, counted, tokens>>
  PROVE  /\ ChargeInv' /\ BudgetInv' /\ DenialIsDue' /\ repeats' = repeats
         /\ TagsOf(r)' = TagsOf(r) \cup {tag}
         /\ \A q \in Requests \ {r} : TagsOf(q)' = TagsOf(q)
         /\ \/ status' = [status EXCEPT ![r] = 429] /\ pc' = [pc EXCEPT ![r] = denied]
            \/ status' = status /\ pc' = [pc EXCEPT ![r] = next]
<1> DEFINE k == Key(req[r].token, tag)
           C == CountedOn(k)
           limit == LimitOf(config, tag)
           extra == Cardinality(RepeatsOf(req[r].token, tag, window))
<1>0. /\ TypeOK /\ ChargeInv /\ StepInv /\ BudgetInv /\ DenialIsDue
      /\ status[r] = 0 /\ ~Served(r) /\ limit \in Nat
      /\ status \in [Requests -> Codes \cup {0}] /\ window \in 0..window
  <2>1. TypeOK /\ ChargeInv /\ StepInv /\ BudgetInv /\ DenialIsDue
    BY DEF PipelineInv
  <2>2. status[r] = 0 /\ ~Served(r) /\ limit \in Nat
    BY <2>1 DEF StepInv, StepOf, Chargeable
  <2>3. status \in [Requests -> Codes \cup {0}] /\ window \in 0..window
    <3>1. status \in [Requests -> Codes \cup {0}] /\ window \in 0..MaxWindow
      BY <2>1 DEF TypeOK
    <3>2. MaxWindow \in Nat
      BY PipelineAssumption
    <3> QED
      BY <3>1, <3>2
  <2> QED
    BY <2>1, <2>2, <2>3
<1>1. /\ IsFiniteSet(C) /\ Cardinality(C) \in Nat
      /\ Count(k) = Cardinality(C) + extra /\ extra \in Nat
      /\ r \notin C /\ C \subseteq CallsOf(req[r].token, tag, window)
  BY CountedAreCalls
<1>2. PICK replied \in BOOLEAN, isCounted \in BOOLEAN :
        /\ replied => isCounted
        /\ charges' = [charges EXCEPT ![r] = @ \cup
             {[tag |-> tag, key |-> k, window |-> window, replied |-> replied,
               counted |-> isCounted]}]
        /\ \/ /\ Denies(replied, Count(k) + 1, tag)
              /\ Answer(r, 429)
              /\ Advance(r, AfterDenial(next, denied))
           \/ /\ ~Denies(replied, Count(k) + 1, tag)
              /\ Advance(r, next)
              /\ UNCHANGED status
        /\ repeats' = repeats
  BY DEF Ask
<1> DEFINE c == [tag |-> tag, key |-> k, window |-> window, replied |-> replied,
                 counted |-> isCounted]
<1>3. /\ c.tag = tag /\ c.key = k /\ c.window = window
      /\ c.replied = replied /\ c.counted = isCounted
  OBVIOUS
<1>4. /\ DOMAIN charges' = Requests
      /\ charges'[r] = charges[r] \cup {c}
      /\ \A q \in Requests \ {r} : charges'[q] = charges[q]
  BY <1>0, <1>2 DEF ChargeInv
<1> HIDE DEF c, extra
<1>5. \/ /\ replied /\ Cardinality(C) + extra + 1 > limit
         /\ status' = [status EXCEPT ![r] = 429] /\ pc' = [pc EXCEPT ![r] = denied]
      \/ /\ replied => Cardinality(C) + extra + 1 <= limit
         /\ status' = status /\ pc' = [pc EXCEPT ![r] = next]
  <2>1. CASE Denies(replied, Count(k) + 1, tag) /\ Answer(r, 429)
                /\ Advance(r, AfterDenial(next, denied))
    <3>1. status' = [status EXCEPT ![r] = 429]
      BY <2>1, <1>0 DEF Answer, TypeOK
    <3> QED
      BY <2>1, <3>1, <1>1 DEF Denies, AfterDenial, Advance
  <2>2. CASE ~Denies(replied, Count(k) + 1, tag) /\ Advance(r, next) /\ UNCHANGED status
    BY <2>2, <1>0, <1>1 DEF Denies, Advance
  <2> QED
    BY <1>2, <2>1, <2>2
<1>6. /\ \A q \in Requests : Served(q)' = Served(q)
      /\ \A q \in Requests \ {r} : Denied(q)' = Denied(q)
      /\ ~Denied(r)
      /\ Denied(r)' => replied /\ Cardinality(C) + extra + 1 > limit
      /\ ~Denied(r)' /\ replied => Cardinality(C) + 1 <= limit
  <2>1. \A q \in Requests : Served(q)' = Served(q)
    BY DEF Served
  <2>2. \A q \in Requests \ {r} : status'[q] = status[q]
    <3>1. CASE status' = [status EXCEPT ![r] = 429]
      BY <3>1, <1>0
    <3>2. CASE status' = status
      BY <3>2
    <3> QED
      BY <1>5, <3>1, <3>2
  <2>3. status'[r] = 429 <=> replied /\ Cardinality(C) + extra + 1 > limit
    <3>1. CASE status' = [status EXCEPT ![r] = 429] /\ replied /\ Cardinality(C) + extra + 1 > limit
      <4>1. status'[r] = 429
        BY <3>1, <1>0
      <4> QED
        BY <3>1, <4>1
    <3>2. CASE status' = status /\ (replied => Cardinality(C) + extra + 1 <= limit)
      BY <3>2, <1>0, <1>1
    <3> QED
      BY <1>5, <3>1, <3>2
  <2> QED
    BY <2>1, <2>2, <2>3, <1>0, <1>1 DEF Denied
<1>7. ChargeInv'
  <2> SUFFICES ASSUME NEW q \in Requests, NEW d \in charges'[q]
               PROVE  /\ d.key = Key(req[q].token, d.tag)
                      /\ d.tag \in HandlerTags(req[q])
                      /\ LimitOf(config, d.tag) \in Nat
                      /\ d.window \in 0..window
                      /\ d.replied => d.counted
    BY <1>0, <1>4 DEF ChargeInv, HandlerTags, GlobalTags, ModelTags, StreamTags
  <2>1. CASE d = c
    <3>1. q = r \/ d \in charges[q]
      BY <1>4
    <3>2. CASE q = r
      BY <2>1, <3>2, <1>0, <1>2, <1>3 DEF Chargeable
    <3>3. CASE d \in charges[q]
      BY <3>3, <1>0 DEF ChargeInv
    <3> QED
      BY <3>1, <3>2, <3>3
  <2>2. CASE d # c
    BY <2>2, <1>0, <1>4 DEF ChargeInv
  <2> QED
    BY <2>1, <2>2
<1>8. \A k2, w2 : Passed(k2, w2)' \subseteq
        Passed(k2, w2) \cup
          (IF replied /\ ~Denied(r)' /\ k2 = k /\ w2 = window THEN {r} ELSE {})
  BY <1>3, <1>4, <1>6 DEF Passed
<1>9. \A k2, w2 : /\ IsFiniteSet(Passed(k2, w2)) /\ IsFiniteSet(Passed(k2, w2)')
                  /\ Cardinality(Passed(k2, w2)) \in Nat
                  /\ Cardinality(Passed(k2, w2)') \in Nat
  BY PipelineAssumption, FS_Subset, FS_CardinalityType DEF Passed
<1>a. BudgetInv'
  <2> SUFFICES ASSUME NEW q \in Requests, NEW d \in charges'[q]
               PROVE  Cardinality(Passed(d.key, d.window)') <= LimitOf(config, d.tag)
    BY DEF BudgetInv
  <2>1. d.key = Key(req[q].token, d.tag) /\ LimitOf(config, d.tag) \in Nat
    BY <1>7 DEF ChargeInv
  <2>2. CASE d.key = k /\ d.window = window
    <3>1. d.tag = tag
      BY <2>1, <2>2 DEF Key
    <3>2. CASE replied /\ ~Denied(r)'
      <4>1. Passed(k, window) \subseteq C
        BY <1>0 DEF Passed, CountedOn, ChargeInv
      <4>2. Passed(k, window)' \subseteq C \cup {r}
        BY <4>1, <1>8
      <4>3. IsFiniteSet(C \cup {r}) /\ Cardinality(C \cup {r}) = Cardinality(C) + 1
        BY <1>1, FS_AddElement
      <4>4. Cardinality(Passed(k, window)') <= Cardinality(C \cup {r})
        BY <4>2, <4>3, FS_Subset
      <4> QED
        BY <2>2, <3>1, <3>2, <4>3, <4>4, <1>0, <1>1, <1>6, <1>9
    <3>3. CASE ~(replied /\ ~Denied(r)')
      <4>1. Passed(k, window)' \subseteq Passed(k, window)
        BY <3>3, <1>8
      <4>2. Cardinality(Passed(k, window)') <= Cardinality(Passed(k, window))
        BY <4>1, <1>9, FS_Subset
      <4>3. CASE Passed(k, window) = {}
        BY <2>2, <3>1, <4>2, <4>3, <1>0, <1>9, FS_EmptySet
      <4>4. CASE Passed(k, window) # {}
        <5>1. PICK s \in Requests : \E e \in charges[s] : e.key = k /\ e.window = window
          BY <4>4 DEF Passed
        <5>2. PICK e \in charges[s] : e.key = k /\ e.window = window
          BY <5>1
        <5>3. e.tag = tag
          BY <5>2, <1>0 DEF ChargeInv, Key
        <5>4. Cardinality(Passed(k, window)) <= limit
          BY <5>2, <5>3, <1>0 DEF BudgetInv
        <5> QED
          BY <2>2, <3>1, <4>2, <5>4, <1>0, <1>9
      <4> QED
        BY <4>3, <4>4
    <3> QED
      BY <3>2, <3>3
  <2>3. CASE ~(d.key = k /\ d.window = window)
    <3>1. d \in charges[q]
      BY <2>3, <1>3, <1>4
    <3>2. Passed(d.key, d.window)' \subseteq Passed(d.key, d.window)
      BY <2>3, <1>8
    <3>3. /\ Cardinality(Passed(d.key, d.window)') <= Cardinality(Passed(d.key, d.window))
          /\ Cardinality(Passed(d.key, d.window)) <= LimitOf(config, d.tag)
      BY <3>1, <3>2, <1>0, <1>9, FS_Subset DEF BudgetInv
    <3> QED
      BY <3>3, <2>1, <1>9
  <2> QED
    BY <2>2, <2>3
<1>b. DenialIsDue'
  <2>1. /\ \A t, g, w : CallsOf(t, g, w) \subseteq CallsOf(t, g, w)'
        /\ \A t, g, w : RepeatsOf(t, g, w)' = RepeatsOf(t, g, w)
    BY <1>2, <1>4 DEF CallsOf, RepeatsOf
  <2>2. \A t, g, w : /\ IsFiniteSet(CallsOf(t, g, w)')
                     /\ Cardinality(CallsOf(t, g, w)') \in Nat
                     /\ Cardinality(CallsOf(t, g, w)) \in Nat
                     /\ Cardinality(RepeatsOf(t, g, w)) \in Nat
    BY PipelineAssumption, FS_Subset, FS_CardinalityType
       DEF CallsOf, RepeatsOf, PipelineInv, RepeatInv
  <2> SUFFICES ASSUME NEW q \in Requests, Denied(q)'
               PROVE  \E d \in charges'[q] :
                        /\ d.replied
                        /\ Cardinality(CallsOf(req[q].token, d.tag, d.window)')
                             + Cardinality(RepeatsOf(req[q].token, d.tag, d.window))
                             > LimitOf(config, d.tag)
    BY <2>1 DEF DenialIsDue, Denied, Served
  <2>3. CASE q = r
    <3>1. replied /\ Cardinality(C) + extra + 1 > limit
      BY <2>3, <1>6
    <3>2. C \cup {r} \subseteq CallsOf(req[r].token, tag, window)'
      <4>1. C \subseteq CallsOf(req[r].token, tag, window)'
        BY <2>1, <1>1
      <4>2. c.counted /\ c \in charges'[r]
        BY <3>1, <1>2, <1>3, <1>4
      <4>3. r \in CallsOf(req[r].token, tag, window)'
        BY <4>2, <1>3 DEF CallsOf
      <4> QED
        BY <4>1, <4>3
    <3>3. Cardinality(C \cup {r}) = Cardinality(C) + 1
      BY <1>1, FS_AddElement
    <3>4. Cardinality(C \cup {r}) <= Cardinality(CallsOf(req[r].token, tag, window)')
      BY <3>2, <2>2, FS_Subset
    <3>5. Cardinality(CallsOf(req[r].token, tag, window)') + extra > limit
      BY <3>1, <3>3, <3>4, <2>2, <1>0, <1>1
    <3> QED
      BY <2>3, <3>1, <3>5, <1>3, <1>4 DEF extra
  <2>4. CASE q # r
    <3>1. PICK d \in charges[q] :
            /\ d.replied
            /\ Cardinality(CallsOf(req[q].token, d.tag, d.window))
                 + Cardinality(RepeatsOf(req[q].token, d.tag, d.window))
                 > LimitOf(config, d.tag)
      BY <2>4, <1>0, <1>6 DEF DenialIsDue, Denied
    <3>2. Cardinality(CallsOf(req[q].token, d.tag, d.window))
            <= Cardinality(CallsOf(req[q].token, d.tag, d.window)')
      BY <2>1, <2>2, FS_Subset
    <3>3. LimitOf(config, d.tag) \in Nat
      BY <1>0 DEF ChargeInv
    <3> QED
      BY <2>2, <2>4, <3>1, <3>2, <3>3, <1>4
  <2> QED
    BY <2>3, <2>4
<1>c. TagsOf(r)' = TagsOf(r) \cup {tag} /\ \A q \in Requests \ {r} : TagsOf(q)' = TagsOf(q)
  BY <1>3, <1>4 DEF TagsOf
<1> QED
  BY <1>2, <1>5, <1>7, <1>a, <1>b, <1>c

-----------------------------------------------------------------------------
(* Steps that charge nothing                                               *)

\* Budgets and denials depend on the charges and on who was denied only; that
\* a new window begins changes neither, and a repeated run excuses only more.
LEMMA ChargesKept ==
  ASSUME PipelineInv, UNCHANGED <<config, req, charges>>,
         repeats \subseteq repeats', RepeatInv',
         window' \in {window, window + 1}, DOMAIN apiKey' = Requests,
         \A q \in Requests : Denied(q)' <=> Denied(q)
  PROVE  /\ ChargeInv' /\ BudgetInv' /\ DenialIsDue'
         /\ \A q \in Requests : TagsOf(q)' = TagsOf(q)
<1>0. ChargeInv /\ BudgetInv /\ DenialIsDue /\ window \in Nat
  <2>1. window \in 0..MaxWindow
    BY DEF PipelineInv, TypeOK
  <2>2. MaxWindow \in Nat
    BY PipelineAssumption
  <2> QED
    BY <2>1, <2>2 DEF PipelineInv
<1>1. ChargeInv'
  <2> SUFFICES ASSUME NEW q \in Requests, NEW d \in charges[q]
               PROVE  /\ d.key = Key(req[q].token, d.tag)
                      /\ d.tag \in HandlerTags(req[q])
                      /\ LimitOf(config, d.tag) \in Nat
                      /\ d.window \in 0..window'
                      /\ d.replied => d.counted
    BY <1>0 DEF ChargeInv, HandlerTags, GlobalTags, ModelTags, StreamTags
  <2> QED
    BY <1>0 DEF ChargeInv
<1>2. \A k, w : Passed(k, w)' = Passed(k, w)
  BY DEF Passed
<1>3. BudgetInv'
  BY <1>0, <1>2 DEF BudgetInv
<1>4. \A t, g, w : /\ CallsOf(t, g, w)' = CallsOf(t, g, w)
                   /\ Cardinality(CallsOf(t, g, w)) \in Nat
                   /\ Cardinality(RepeatsOf(t, g, w)) \in Nat
                   /\ Cardinality(RepeatsOf(t, g, w)') \in Nat
                   /\ Cardinality(RepeatsOf(t, g, w)) <= Cardinality(RepeatsOf(t, g, w)')
  <2> TAKE t, g, w
  <2>1. CallsOf(t, g, w)' = CallsOf(t, g, w) /\ Cardinality(CallsOf(t, g, w)) \in Nat
    BY PipelineAssumption, FS_Subset, FS_CardinalityType DEF CallsOf
  <2>2. /\ RepeatsOf(t, g, w) \subseteq RepeatsOf(t, g, w)'
        /\ IsFiniteSet(RepeatsOf(t, g, w)') /\ IsFiniteSet(RepeatsOf(t, g, w))
    BY FS_Subset DEF RepeatsOf, RepeatInv
  <2> QED
    BY <2>1, <2>2, FS_Subset, FS_CardinalityType
<1>5. DenialIsDue'
  <2> SUFFICES ASSUME NEW q \in Requests, Denied(q)'
               PROVE  \E d \in charges[q] :
                        /\ d.replied
                        /\ Cardinality(CallsOf(req[q].token, d.tag, d.window)')
                             + Cardinality(RepeatsOf(req[q].token, d.tag, d.window)')
                             > LimitOf(config, d.tag)
    BY DEF DenialIsDue, Denied, Served, CallsOf, RepeatsOf
  <2>1. PICK d \in charges[q] :
          /\ d.replied
          /\ Cardinality(CallsOf(req[q].token, d.tag, d.window))
               + Cardinality(RepeatsOf(req[q].token, d.tag, d.window))
               > LimitOf(config, d.tag)
    BY <1>0 DEF DenialIsDue, Denied
  <2>2. LimitOf(config, d.tag) \in Nat
    BY <1>0 DEF ChargeInv
  <2> QED
    BY <2>1, <2>2, <1>4
<1> QED
  BY <1>1, <1>3, <1>5 DEF TagsOf

\* What the configuration says of a request is said once and for all.
LEMMA ConfigFixed ==
  ASSUME UNCHANGED <<config, req>>, NEW r \in Requests
  PROVE  /\ GlobalTags(req[r])' = GlobalTags(req[r]) /\ ModelTags(req[r])' = ModelTags(req[r])
         /\ StreamTags(req[r])' = StreamTags(req[r])
         /\ HandlerTags(req[r])' = HandlerTags(req[r])
         /\ Refusal(req[r])' = Refusal(req[r])
         /\ ProviderKey(req[r].token, ProviderOf[req[r].model])' =
              ProviderKey(req[r].token, ProviderOf[req[r].model])
<1>1. /\ GlobalTags(req[r])' = GlobalTags(req[r]) /\ ModelTags(req[r])' = ModelTags(req[r])
      /\ StreamTags(req[r])' = StreamTags(req[r])
      /\ HandlerTags(req[r])' = HandlerTags(req[r])
  BY DEF HandlerTags, GlobalTags, ModelTags, StreamTags
<1>2. Refusal(req[r])' = Refusal(req[r])
  BY DEF Refusal, Authentic
<1>3. ProviderKey(req[r].token, ProviderOf[req[r].model])' =
        ProviderKey(req[r].token, ProviderOf[req[r].model])
  BY DEF ProviderKey, Secret
<1> QED
  BY <1>1, <1>2, <1>3

\* Another request's step is none of a request's business.
LEMMA OtherRequestsKept ==
  ASSUME NEW r \in Requests, StepOf(r), UNCHANGED <<config, req>>,
         pc'[r] = pc[r], status'[r] = status[r], slot'[r] = slot[r], apiKey'[r] = apiKey[r],
         TagsOf(r)' = TagsOf(r)
  PROVE  StepOf(r)'
<1>1. Served(r)' <=> Served(r)
  BY DEF Served
<1> QED
  BY <1>1, ConfigFixed DEF StepOf

\* Before a request is observed its steps concern no counter and no one else.
LEMMA RequestStep ==
  ASSUME PipelineInv, NEW r \in Requests, pc[r] # "done", StepOf(r)',
         UNCHANGED <<config, req, window, logged, counted, tokens>>,
         pc' \in [Requests -> Steps], status' \in [Requests -> Codes \cup {0}],
         slot' \in [Requests -> [model : Models \cup {""}, usage : BOOLEAN]],
         pc'[r] \in {"observe", "done"} => status'[r] # 0,
         \A q \in Requests \ {r} :
           /\ pc'[q] = pc[q] /\ status'[q] = status[q]
           /\ slot'[q] = slot[q] /\ apiKey'[q] = apiKey[q]
           /\ TagsOf(q)' = TagsOf(q)
  PROVE  TypeOK' /\ StepInv' /\ MetricsInv'
<1>0. StepInv /\ MetricsInv /\ logged \subseteq Requests
  BY DEF PipelineInv, TypeOK
<1>1. StepInv'
  BY <1>0, OtherRequestsKept DEF StepInv
<1>2. r \notin logged
  BY <1>0 DEF MetricsInv
<1>3. \A q \in logged : /\ pc'[q] = pc[q] /\ status'[q] = status[q]
                        /\ ProviderLabel(q)' = ProviderLabel(q) /\ Served(q)' = Served(q)
  BY <1>0, <1>2 DEF ProviderLabel, Served
<1>4. \A l : LoggedAs(l)' = LoggedAs(l)
  BY <1>3 DEF LoggedAs
<1>5. \A p : LoggedServed(p)' = LoggedServed(p)
  BY <1>3 DEF LoggedServed
<1>6. MetricsInv'
  BY <1>0, <1>3, <1>4, <1>5 DEF MetricsInv
<1>7. \A q \in Requests : pc'[q] \in {"observe", "done"} => status'[q] # 0
  BY DEF PipelineInv, TypeOK
<1>8. TypeOK'
  BY <1>7 DEF PipelineInv, TypeOK
<1> QED
  BY <1>1, <1>6, <1>8

-----------------------------------------------------------------------------
(* The steps                                                               *)

\* A request asks for a known model, in a process that can count its limits.
LEMMA RequestTyped ==
  ASSUME TypeOK, NEW r \in Requests
  PROVE  /\ config \in Configs /\ req[r] \in Inputs
         /\ req[r].model \in Models /\ ProviderOf[req[r].model] \in Providers
         /\ req[r].token \in Tokens
         /\ pc[r] \in Steps /\ status[r] \in Codes \cup {0}
         /\ pc \in [Requests -> Steps] /\ status \in [Requests -> Codes \cup {0}]
<1>1. /\ config \in Configs /\ req[r] \in Inputs
      /\ pc \in [Requests -> Steps] /\ status \in [Requests -> Codes \cup {0}]
  BY DEF TypeOK
<1>2. req[r] \in Input
  BY <1>1, PipelineAssumption
<1>3. req[r].model \in Models
  BY <1>2 DEF Input
<1> QED
  BY <1>1, <1>3 DEF Providers, Tokens

SlotType == [model : Models \cup {""}, usage : BOOLEAN]

\* A step of one request that charges nothing: it moves on with a status, 0 for
\* none yet, and is denied by no limit.
LEMMA AnswerStep ==
  ASSUME PipelineInv, NEW r \in Requests, pc[r] \notin {"observe", "done"},
         NEW code \in Codes \cup {0}, NEW next \in Steps,
         status' = [status EXCEPT ![r] = code], pc' = [pc EXCEPT ![r] = next],
         next \in {"observe", "done"} => code # 0,
         code = 429 => Served(r)',
         slot' \in [Requests -> SlotType], DOMAIN apiKey' = Requests,
         \A q \in Requests \ {r} : slot'[q] = slot[q] /\ apiKey'[q] = apiKey[q],
         UNCHANGED <<config, req, window, charges, repeats, logged, counted, tokens>>,
         StepOf(r)'
  PROVE  PipelineInv'
<1>0. TypeOK /\ StepOf(r) /\ status[r] = 0
  BY DEF PipelineInv, StepInv, StepOf
<1>1. /\ pc' \in [Requests -> Steps] /\ status' \in [Requests -> Codes \cup {0}]
      /\ pc'[r] = next /\ status'[r] = code
      /\ \A q \in Requests \ {r} : pc'[q] = pc[q] /\ status'[q] = status[q]
  BY <1>0, RequestTyped
<1>2. \A q \in Requests : Denied(q)' <=> Denied(q)
  <2>1. ~Denied(r) /\ ~Denied(r)'
    BY <1>0, <1>1 DEF Denied, Served
  <2>2. \A q \in Requests \ {r} : Denied(q)' <=> Denied(q)
    BY <1>1 DEF Denied, Served
  <2> QED
    BY <2>1, <2>2
<1>3. /\ ChargeInv' /\ BudgetInv' /\ DenialIsDue' /\ RepeatInv'
      /\ \A q \in Requests : TagsOf(q)' = TagsOf(q)
  <2>1. RepeatInv'
    BY DEF PipelineInv, RepeatInv
  <2> QED
    BY <2>1, <1>2, ChargesKept
<1>4. TypeOK' /\ StepInv' /\ MetricsInv'
  <2>1. /\ pc[r] # "done" /\ UNCHANGED <<config, req, window, logged, counted, tokens>>
        /\ pc'[r] \in {"observe", "done"} => status'[r] # 0
        /\ \A q \in Requests \ {r} :
             /\ pc'[q] = pc[q] /\ status'[q] = status[q]
             /\ slot'[q] = slot[q] /\ apiKey'[q] = apiKey[q]
             /\ TagsOf(q)' = TagsOf(q)
    BY <1>1, <1>3
  <2> QED
    BY <2>1, <1>1, RequestStep DEF SlotType
<1> QED
  BY <1>3, <1>4 DEF PipelineInv

\* What every step starts from, and what the step's own request keeps.
LEMMA StepFacts ==
  ASSUME PipelineInv, NEW r \in Requests
  PROVE  /\ TypeOK /\ StepOf(r) /\ DOMAIN apiKey = Requests /\ DOMAIN charges = Requests
         /\ slot \in [Requests -> SlotType]
         /\ pc[r] \notin {"observe", "done"} =>
              \A code : Answer(r, code) => status' = [status EXCEPT ![r] = code]
         /\ pc[r] \notin {"observe", "done"} /\ UNCHANGED status =>
              status' = [status EXCEPT ![r] = 0]
<1>1. TypeOK /\ StepOf(r) /\ DOMAIN apiKey = Requests /\ DOMAIN charges = Requests
  BY DEF PipelineInv, StepInv, ChargeInv
<1>2. slot \in [Requests -> SlotType]
  BY <1>1 DEF TypeOK, SlotType
<1>3. status \in [Requests -> Codes \cup {0}]
  BY <1>1, RequestTyped
<1>4. pc[r] \notin {"observe", "done"} => status[r] = 0
  BY <1>1 DEF StepOf
<1> QED
  BY <1>1, <1>2, <1>3, <1>4 DEF Answer

\* CORS: a preflight is answered, anything else goes to the first limit.
LEMMA ArriveKeeps ==
  ASSUME PipelineInv, NEW r \in Requests, Arrive(r)
  PROVE  PipelineInv'
<1>0. TypeOK /\ StepOf(r) /\ DOMAIN apiKey = Requests /\ slot \in [Requests -> SlotType]
  BY StepFacts
<1>1. /\ pc[r] = "arriving" /\ Starts(config)
      /\ UNCHANGED <<config, req, window, charges, repeats, slot, apiKey, logged, counted, tokens>>
  BY DEF Arrive
<1>2. PICK code \in {0, 204}, next \in {"global", "done"} :
        /\ status' = [status EXCEPT ![r] = code] /\ pc' = [pc EXCEPT ![r] = next]
        /\ next = "done" => code = 204
        /\ next = "global" => code = 0
  BY <1>1, StepFacts DEF Arrive, Advance
<1>3. /\ pc'[r] = next /\ status'[r] = code /\ TagsOf(r)' = TagsOf(r)
      /\ Served(r)' <=> Served(r)
  BY <1>0, <1>1, <1>2, RequestTyped DEF TagsOf, Served
<1>4. StepOf(r)'
  BY <1>0, <1>1, <1>2, <1>3, ConfigFixed DEF StepOf
<1>5. /\ code \in Codes \cup {0} /\ next \in Steps
      /\ next \in {"observe", "done"} => code # 0
      /\ code = 429 => Served(r)'
      /\ \A q \in Requests \ {r} : slot'[q] = slot[q] /\ apiKey'[q] = apiKey[q]
      /\ slot' \in [Requests -> SlotType] /\ DOMAIN apiKey' = Requests
  BY <1>0, <1>1, <1>2 DEF Codes, Steps
<1> QED
  BY <1>0, <1>1, <1>2, <1>4, <1>5, AnswerStep

\* The checks of the handlers: refused with a status that is no denial, or on
\* to the budgets of the handler with every check passed.
LEMMA VetKeeps ==
  ASSUME PipelineInv, NEW r \in Requests, Vet(r)
  PROVE  PipelineInv'
<1>0. TypeOK /\ StepOf(r) /\ DOMAIN apiKey = Requests /\ slot \in [Requests -> SlotType]
  BY StepFacts
<1>1. /\ pc[r] = "vetting"
      /\ UNCHANGED <<config, req, window, charges, repeats, slot, apiKey, logged, counted, tokens>>
  BY DEF Vet
<1>2. Refusal(req[r]) \in {0, 400, 401, 403}
  BY DEF Refusal
<1>3. PICK code \in {0, 200, 400, 401, 403, 404, 405}, next \in {"model", "observe"} :
        /\ status' = [status EXCEPT ![r] = code] /\ pc' = [pc EXCEPT ![r] = next]
        /\ next = "observe" => code # 0
        /\ next = "model" => code = 0 /\ Refusal(req[r]) = 0
  <2>1. \A code : Answer(r, code) => status' = [status EXCEPT ![r] = code]
    BY <1>1, StepFacts
  <2>2. UNCHANGED status => status' = [status EXCEPT ![r] = 0]
    BY <1>1, StepFacts
  <2> QED
    BY <2>1, <2>2, <1>2 DEF Vet, Advance
<1>4. /\ pc'[r] = next /\ status'[r] = code /\ TagsOf(r)' = TagsOf(r)
      /\ Served(r)' <=> Served(r)
  BY <1>0, <1>1, <1>3, RequestTyped DEF TagsOf, Served
<1>5. StepOf(r)'
  <2>1. ~Served(r)' /\ ~slot'[r].usage /\ slot'[r].model \in {"", req[r].model}
        /\ Starts(config) /\ TagsOf(r) = GlobalTags(req[r])
    BY <1>0, <1>1, <1>4 DEF StepOf
  <2>2. CASE next = "model"
    <3>1. pc'[r] = "model" /\ status'[r] = 0 /\ Starts(config)'
      BY <2>1, <2>2, <1>1, <1>3, <1>4
    <3>2. GlobalTags(req[r])' = GlobalTags(req[r]) /\ Refusal(req[r])' = Refusal(req[r])
      BY <1>1, ConfigFixed
    <3>3. TagsOf(r)' = GlobalTags(req[r])'
      BY <3>2, <2>1, <1>4
    <3>4. Refusal(req[r])' = 0
      BY <3>2, <2>2, <1>3
    <3> QED
      BY <2>1, <3>1, <3>3, <3>4, <1>1 DEF StepOf
  <2>3. CASE next = "observe"
    BY <2>1, <2>3, <1>1, <1>3, <1>4, ConfigFixed DEF StepOf
  <2> QED
    BY <1>3, <2>2, <2>3
<1>6. /\ code \in Codes \cup {0} /\ next \in Steps
      /\ next \in {"observe", "done"} => code # 0
      /\ code = 429 => Served(r)'
      /\ \A q \in Requests \ {r} : slot'[q] = slot[q] /\ apiKey'[q] = apiKey[q]
      /\ slot' \in [Requests -> SlotType] /\ DOMAIN apiKey' = Requests
  BY <1>0, <1>1, <1>3 DEF Codes, Steps
<1> QED
  BY <1>0, <1>1, <1>3, <1>5, <1>6, AnswerStep

\* A new window gives every key a new count, and takes none from an old one, and
\* a repeated run adds to one; where no request moves nothing else can change.
LEMMA NoRequestMoves ==
  ASSUME PipelineInv, window' \in {window, window + 1}, window' \in 0..MaxWindow,
         repeats \subseteq repeats', RepeatInv',
         UNCHANGED <<config, req, pc, charges, status, slot, apiKey, logged, counted, tokens>>
  PROVE  PipelineInv'
<1>0. TypeOK /\ StepInv /\ MetricsInv /\ DOMAIN apiKey = Requests
  BY DEF PipelineInv, ChargeInv
<1>1. ChargeInv' /\ BudgetInv' /\ DenialIsDue' /\ \A q \in Requests : TagsOf(q)' = TagsOf(q)
  <2>1. /\ \A q \in Requests : Denied(q)' <=> Denied(q)
        /\ UNCHANGED <<config, req, charges>> /\ DOMAIN apiKey' = Requests
    BY <1>0 DEF Denied, Served
  <2> QED
    BY <2>1, ChargesKept
<1>2. StepInv'
  <2> SUFFICES ASSUME NEW q \in Requests PROVE StepOf(q)'
    BY DEF StepInv
  <2>1. StepOf(q) /\ TagsOf(q)' = TagsOf(q)
    BY <1>0, <1>1 DEF StepInv
  <2> QED
    BY <2>1, OtherRequestsKept
<1>3. MetricsInv'
  <2>1. \A q : (Served(q)' <=> Served(q)) /\ ProviderLabel(q)' = ProviderLabel(q)
    BY DEF Served, ProviderLabel
  <2>2. \A l : LoggedAs(l)' = LoggedAs(l)
    BY <2>1 DEF LoggedAs
  <2>3. \A p : LoggedServed(p)' = LoggedServed(p)
    BY <2>1 DEF LoggedServed
  <2> QED
    BY <2>1, <2>2, <2>3, <1>0 DEF MetricsInv
<1>4. TypeOK'
  BY <1>0 DEF TypeOK
<1> QED
  BY <1>1, <1>2, <1>3, <1>4 DEF PipelineInv

\* A reply that is lost leaves the request where it is, with one run more on the
\* key of its own token.
LEMMA LoseReplyKeeps ==
  ASSUME PipelineInv, NEW r \in Requests, NEW tag, LoseReply(r, tag),
         UNCHANGED <<config, req, window, slot, apiKey, logged, counted, tokens>>
  PROVE  PipelineInv'
<1> DEFINE l == [request |-> r, tag |-> tag, key |-> Key(req[r].token, tag),
                 window |-> window, run |-> Cardinality(repeats)]
<1>1. repeats' = repeats \cup {l} /\ UNCHANGED <<pc, charges, status>>
  BY DEF LoseReply
<1>2. l.request = r /\ l.tag = tag /\ l.key = Key(req[r].token, tag)
  OBVIOUS
<1> HIDE DEF l
<1>3. IsFiniteSet(repeats')
  BY <1>1, FS_AddElement DEF PipelineInv, RepeatInv
<1>4. RepeatInv'
  BY <1>1, <1>2, <1>3 DEF PipelineInv, RepeatInv, Key
<1>5. window' = window /\ window \in 0..MaxWindow
  BY DEF PipelineInv, TypeOK
<1> QED
  BY <1>1, <1>4, <1>5, NoRequestMoves

\* A step that charges a budget keeps the invariant, if it keeps what is known
\* of its own request.
LEMMA LayerStep ==
  ASSUME PipelineInv, NEW r \in Requests, NEW tag, Chargeable(r, tag),
         NEW next \in Steps \ {"observe", "done"}, NEW denied \in {"observe", "done"},
         Ask(r, tag, next, denied),
         UNCHANGED <<config, req, window, slot, apiKey, logged, counted, tokens>>,
         StepOf(r)'
  PROVE  PipelineInv'
<1>0. TypeOK /\ slot \in [Requests -> SlotType] /\ pc[r] \notin {"observe", "done"}
  BY StepFacts DEF Chargeable
<1>1. /\ ChargeInv' /\ BudgetInv' /\ DenialIsDue' /\ repeats' = repeats
      /\ \A q \in Requests \ {r} : TagsOf(q)' = TagsOf(q)
      /\ \/ status' = [status EXCEPT ![r] = 429] /\ pc' = [pc EXCEPT ![r] = denied]
         \/ status' = status /\ pc' = [pc EXCEPT ![r] = next]
  BY AskStep
<1>2. pc \in [Requests -> Steps] /\ status \in [Requests -> Codes \cup {0}]
  BY <1>0, RequestTyped
<1>3. /\ pc' \in [Requests -> Steps] /\ status' \in [Requests -> Codes \cup {0}]
      /\ pc'[r] \in {"observe", "done"} => status'[r] # 0
      /\ \A q \in Requests \ {r} : pc'[q] = pc[q] /\ status'[q] = status[q]
  <2>1. denied \in Steps /\ next \in Steps /\ 429 \in Codes
    BY DEF Steps, Codes
  <2>2. CASE status' = [status EXCEPT ![r] = 429] /\ pc' = [pc EXCEPT ![r] = denied]
    BY <2>1, <2>2, <1>2
  <2>3. CASE status' = status /\ pc' = [pc EXCEPT ![r] = next]
    BY <2>1, <2>3, <1>2
  <2> QED
    BY <1>1, <2>2, <2>3
<1>4. TypeOK' /\ StepInv' /\ MetricsInv'
  <2>1. /\ pc[r] # "done" /\ UNCHANGED <<config, req, window, logged, counted, tokens>>
        /\ slot' \in [Requests -> [model : Models \cup {""}, usage : BOOLEAN]]
        /\ \A q \in Requests \ {r} :
             /\ pc'[q] = pc[q] /\ status'[q] = status[q]
             /\ slot'[q] = slot[q] /\ apiKey'[q] = apiKey[q]
             /\ TagsOf(q)' = TagsOf(q)
    BY <1>0, <1>1, <1>3 DEF SlotType
  <2> QED
    BY <2>1, <1>3, RequestStep
<1>5. RepeatInv'
  BY <1>1 DEF PipelineInv, RepeatInv
<1> QED
  BY <1>1, <1>4, <1>5 DEF PipelineInv

\* A layer without a limit lets the request through.
LEMMA SkipStep ==
  ASSUME PipelineInv, NEW r \in Requests, pc[r] \notin {"observe", "done"},
         NEW next \in Steps \ {"observe", "done"}, Skip(r, next),
         UNCHANGED <<config, req, window, slot, apiKey, logged, counted, tokens>>,
         StepOf(r)'
  PROVE  PipelineInv'
<1>0. DOMAIN apiKey = Requests /\ slot \in [Requests -> SlotType]
  BY StepFacts
<1>1. PICK code \in Codes \cup {0} : code = 0
  OBVIOUS
<1>2. /\ status' = [status EXCEPT ![r] = code] /\ pc' = [pc EXCEPT ![r] = next]
      /\ charges' = charges /\ repeats' = repeats
  BY <1>1, StepFacts DEF Skip, Advance
<1>3. /\ next \in Steps /\ next \notin {"observe", "done"} /\ code # 429
      /\ UNCHANGED <<config, req, window, charges, repeats, logged, counted, tokens>>
      /\ slot' \in [Requests -> SlotType] /\ DOMAIN apiKey' = Requests
      /\ \A q \in Requests \ {r} : slot'[q] = slot[q] /\ apiKey'[q] = apiKey[q]
  BY <1>0, <1>1, <1>2
<1> QED
  BY <1>2, <1>3, AnswerStep

\* What stays known of a request that is under way and not served.
LEMMA UnderWay ==
  ASSUME PipelineInv, NEW r \in Requests,
         pc[r] \in {"global", "vetting", "model", "stream", "resolving"},
         UNCHANGED <<config, req, slot, apiKey>>
  PROVE  /\ ~Served(r) /\ ~Served(r)' /\ ~slot'[r].usage
         /\ slot'[r].model \in {"", req[r].model}
         /\ Starts(config) /\ Starts(config)'
         /\ GlobalTags(req[r])' = GlobalTags(req[r])
         /\ ModelTags(req[r])' = ModelTags(req[r])
         /\ HandlerTags(req[r])' = HandlerTags(req[r])
         /\ Refusal(req[r])' = Refusal(req[r])
<1>1. StepOf(r)
  BY StepFacts
<1>2. ~Served(r) /\ ~slot[r].usage /\ slot[r].model \in {"", req[r].model} /\ Starts(config)
  BY <1>1 DEF StepOf
<1>3. Served(r)' <=> Served(r)
  BY DEF Served
<1> QED
  BY <1>2, <1>3, ConfigFixed

\* RateLimit: the global budget of the token, if there are both.
LEMMA CheckGlobalKeeps ==
  ASSUME PipelineInv, NEW r \in Requests, CheckGlobal(r)
  PROVE  PipelineInv'
<1>0. TypeOK /\ StepOf(r) /\ DOMAIN apiKey = Requests /\ slot \in [Requests -> SlotType]
  BY StepFacts
<1>1. /\ pc[r] = "global" /\ TagsOf(r) = {} /\ status[r] = 0
      /\ UNCHANGED <<config, req, window, slot, apiKey, logged, counted, tokens>>
  BY <1>0 DEF CheckGlobal, StepOf
<1>2. /\ ~Served(r) /\ ~Served(r)' /\ ~slot'[r].usage
      /\ slot'[r].model \in {"", req[r].model}
      /\ Starts(config) /\ Starts(config)'
      /\ GlobalTags(req[r])' = GlobalTags(req[r])
  BY <1>1, UnderWay
<1>5. CASE LoseReply(r, Global)
  BY <1>1, <1>5, LoseReplyKeeps
<1>3. CASE config.globalLimit > 0 /\ req[r].token # NoToken /\ ~LoseReply(r, Global)
  <2>1. Ask(r, Global, "vetting", "done")
    BY <1>3 DEF CheckGlobal, Allow
  <2>2. GlobalTags(req[r]) = {Global}
    BY <1>3 DEF GlobalTags
  <2>3. Chargeable(r, Global)
    <3>1. LimitOf(config, Global) \in Nat
      BY <1>0, <1>2, RequestTyped, LimitIsNumber
    <3> QED
      BY <3>1, <2>2, <1>1, <1>2 DEF Chargeable, HandlerTags
  <2>4. /\ TagsOf(r)' = GlobalTags(req[r])'
        /\ \/ status' = [status EXCEPT ![r] = 429] /\ pc' = [pc EXCEPT ![r] = "done"]
           \/ status' = status /\ pc' = [pc EXCEPT ![r] = "vetting"]
    <3>1. /\ TagsOf(r)' = TagsOf(r) \cup {Global}
          /\ \/ status' = [status EXCEPT ![r] = 429] /\ pc' = [pc EXCEPT ![r] = "done"]
             \/ status' = status /\ pc' = [pc EXCEPT ![r] = "vetting"]
      BY <2>1, <2>3, <1>1, AskStep
    <3> QED
      BY <3>1, <2>2, <1>1, <1>2
  <2>5. \/ pc'[r] = "done"
        \/ pc'[r] = "vetting" /\ status'[r] = 0
    BY <2>4, <1>0, <1>1, RequestTyped
  <2>6. StepOf(r)'
    BY <2>4, <2>5, <1>1, <1>2 DEF StepOf
  <2> QED
    BY <2>1, <2>3, <2>6, <1>1, LayerStep DEF Steps
<1>4. CASE ~(config.globalLimit > 0 /\ req[r].token # NoToken)
  <2>1. /\ status' = [status EXCEPT ![r] = 0] /\ pc' = [pc EXCEPT ![r] = "vetting"]
        /\ charges' = charges /\ repeats' = repeats
    BY <1>1, <1>4, StepFacts DEF CheckGlobal, Skip, Advance
  <2>2. TagsOf(r)' = GlobalTags(req[r])'
    BY <2>1, <1>1, <1>2, <1>4 DEF TagsOf, GlobalTags
  <2>3. pc'[r] = "vetting" /\ status'[r] = 0
    BY <2>1, <1>0, RequestTyped
  <2>4. StepOf(r)'
    BY <2>2, <2>3, <1>1, <1>2 DEF StepOf
  <2> QED
    BY <2>4, <1>1, <1>4, SkipStep DEF CheckGlobal, Steps
<1> QED
  BY <1>3, <1>4, <1>5

\* A charge inside the handlers adds one of the handler's budgets, or denies.
LEMMA HandlerLayer ==
  ASSUME PipelineInv, NEW r \in Requests, pc[r] \in {"model", "stream"},
         NEW tag, NEW S, S \in {{}, {tag}},
         NEW next \in Steps \ {"observe", "done"},
         tag \in S => Chargeable(r, tag) /\ Ask(r, tag, next, "observe"),
         tag \notin S => Skip(r, next),
         UNCHANGED <<config, req, window, slot, apiKey, logged, counted, tokens>>,
         next = "stream" => /\ req[r].route = "stream"
                            /\ TagsOf(r) \cup S = GlobalTags(req[r]) \cup ModelTags(req[r]),
         next # "stream" => /\ next = "resolving"
                            /\ TagsOf(r) \cup S = HandlerTags(req[r])
  PROVE  PipelineInv'
<1>0. TypeOK /\ StepOf(r) /\ Refusal(req[r]) = 0
  BY StepFacts DEF StepOf
<1>1. /\ ~Served(r) /\ ~Served(r)' /\ ~slot'[r].usage
      /\ slot'[r].model \in {"", req[r].model}
      /\ Starts(config) /\ Starts(config)'
      /\ GlobalTags(req[r])' = GlobalTags(req[r])
      /\ ModelTags(req[r])' = ModelTags(req[r])
      /\ HandlerTags(req[r])' = HandlerTags(req[r])
      /\ Refusal(req[r])' = Refusal(req[r])
  BY UnderWay
<1>2. pc \in [Requests -> Steps] /\ status[r] = 0
  BY <1>0, RequestTyped DEF StepOf
<1>3. /\ TagsOf(r)' = TagsOf(r) \cup S
      /\ \/ pc'[r] = "observe"
         \/ pc'[r] = next /\ status'[r] = 0
  <2>1. CASE tag \in S
    <3>1. /\ TagsOf(r)' = TagsOf(r) \cup {tag}
          /\ \/ status' = [status EXCEPT ![r] = 429] /\ pc' = [pc EXCEPT ![r] = "observe"]
             \/ status' = status /\ pc' = [pc EXCEPT ![r] = next]
      BY <2>1, AskStep
    <3> QED
      BY <3>1, <2>1, <1>2
  <2>2. CASE tag \notin S
    BY <2>2, <1>2 DEF Skip, Advance, TagsOf
  <2> QED
    BY <2>1, <2>2
<1>4. StepOf(r)'
  <2>1. CASE pc'[r] = "observe"
    BY <2>1, <1>1 DEF StepOf
  <2>2. CASE pc'[r] = next /\ status'[r] = 0 /\ next = "stream"
    <3>1. TagsOf(r)' = GlobalTags(req[r])' \cup ModelTags(req[r])' /\ Refusal(req[r])' = 0
      BY <2>2, <1>0, <1>1, <1>3
    <3> QED
      BY <3>1, <2>2, <1>1 DEF StepOf
  <2>3. CASE pc'[r] = next /\ status'[r] = 0 /\ next # "stream"
    <3>1. TagsOf(r)' = HandlerTags(req[r])' /\ Refusal(req[r])' = 0
      BY <2>3, <1>0, <1>1, <1>3
    <3> QED
      BY <3>1, <2>3, <1>1 DEF StepOf
  <2> QED
    BY <1>3, <2>1, <2>2, <2>3
<1>5. CASE tag \in S
  BY <1>4, <1>5, LayerStep
<1>6. CASE tag \notin S
  BY <1>4, <1>6, SkipStep
<1> QED
  BY <1>5, <1>6

\* checkModelLimit: the one budget of the model or of its provider.
LEMMA CheckModelKeeps ==
  ASSUME PipelineInv, NEW r \in Requests, CheckModel(r)
  PROVE  PipelineInv'
<1> DEFINE tag == ModelTag(config, req[r].model)
           next == IF req[r].route = "stream" THEN "stream" ELSE "resolving"
<1>0. TypeOK /\ StepOf(r)
  BY StepFacts
<1>1. /\ pc[r] = "model" /\ TagsOf(r) = GlobalTags(req[r]) /\ Starts(config) /\ ~Served(r)
      /\ UNCHANGED <<config, req, window, slot, apiKey, logged, counted, tokens>>
      /\ IF LimitOf(config, tag) > 0 THEN Allow(r, tag, next, "observe") ELSE Skip(r, next)
  BY <1>0 DEF CheckModel, StepOf
<1>2. ModelTags(req[r]) = IF LimitOf(config, tag) > 0 THEN {tag} ELSE {}
  BY DEF ModelTags
<1>3. LimitOf(config, tag) \in Nat /\ tag # Global
  <2>1. /\ LimitOf(config, tag) \in Nat
        /\ tag \in {<<"model", req[r].model>>, <<"provider", ProviderOf[req[r].model]>>}
    BY <1>0, <1>1, RequestTyped, LimitIsNumber
  <2> QED
    BY <2>1 DEF Global
<1>4. next \in Steps \ {"observe", "done"}
  BY DEF Steps
<1>5. next = "stream" <=> req[r].route = "stream"
  OBVIOUS
<1>6. next # "stream" => next = "resolving" /\ StreamTags(req[r]) = {}
  BY DEF StreamTags
<1> HIDE DEF tag, next
<1>c. CASE LoseReply(r, tag)
  BY <1>1, <1>c, LoseReplyKeeps
<1>d. SUFFICES ASSUME ~LoseReply(r, tag) PROVE PipelineInv'
  BY <1>c
<1>7. tag \in ModelTags(req[r]) => Chargeable(r, tag) /\ Ask(r, tag, next, "observe")
  BY <1>1, <1>2, <1>3, <1>d DEF Chargeable, HandlerTags, GlobalTags, Allow
<1>8. tag \notin ModelTags(req[r]) => Skip(r, next)
  BY <1>1, <1>2
<1>9. ModelTags(req[r]) \in {{}, {tag}}
  BY <1>2
<1>a. next = "stream" =>
        /\ req[r].route = "stream"
        /\ TagsOf(r) \cup ModelTags(req[r]) = GlobalTags(req[r]) \cup ModelTags(req[r])
  BY <1>1, <1>5
<1>b. next # "stream" =>
        /\ next = "resolving"
        /\ TagsOf(r) \cup ModelTags(req[r]) = HandlerTags(req[r])
  BY <1>1, <1>6 DEF HandlerTags
<1> QED
  BY <1>1, <1>4, <1>7, <1>8, <1>9, <1>a, <1>b, HandlerLayer

\* The budget of streams, charged after the model's.
LEMMA CheckStreamKeeps ==
  ASSUME PipelineInv, NEW r \in Requests, CheckStream(r)
  PROVE  PipelineInv'
<1>0. TypeOK /\ StepOf(r)
  BY StepFacts
<1>1. /\ pc[r] = "stream" /\ req[r].route = "stream" /\ Starts(config) /\ ~Served(r)
      /\ TagsOf(r) = GlobalTags(req[r]) \cup ModelTags(req[r])
      /\ UNCHANGED <<config, req, window, slot, apiKey, logged, counted, tokens>>
      /\ IF config.streamLimit > 0
           THEN Allow(r, Stream, "resolving", "observe") ELSE Skip(r, "resolving")
  BY <1>0 DEF CheckStream, StepOf
<1>2. StreamTags(req[r]) = IF config.streamLimit > 0 THEN {Stream} ELSE {}
  BY <1>1 DEF StreamTags
<1>3. /\ LimitOf(config, Stream) \in Nat
      /\ ModelTag(config, req[r].model)
           \in {<<"model", req[r].model>>, <<"provider", ProviderOf[req[r].model]>>}
  BY <1>0, <1>1, RequestTyped, LimitIsNumber
<1>4. Stream \notin TagsOf(r)
  BY <1>1, <1>3 DEF GlobalTags, ModelTags, Global, Stream
<1>a. CASE LoseReply(r, Stream)
  BY <1>1, <1>a, LoseReplyKeeps
<1>b. SUFFICES ASSUME ~LoseReply(r, Stream) PROVE PipelineInv'
  BY <1>a
<1>5. Stream \in StreamTags(req[r]) =>
        Chargeable(r, Stream) /\ Ask(r, Stream, "resolving", "observe")
  BY <1>1, <1>2, <1>3, <1>4, <1>b DEF Chargeable, HandlerTags, Allow
<1>6. Stream \notin StreamTags(req[r]) => Skip(r, "resolving")
  BY <1>1, <1>2
<1>7. StreamTags(req[r]) \in {{}, {Stream}}
  BY <1>2
<1>8. TagsOf(r) \cup StreamTags(req[r]) = HandlerTags(req[r])
  BY <1>1 DEF HandlerTags
<1>9. PICK next \in Steps \ {"observe", "done"} : next = "resolving"
  BY DEF Steps
<1> QED
  BY <1>1, <1>5, <1>6, <1>7, <1>8, <1>9, HandlerLayer

\* A tenant's secret is the value of the one entry of its reference.
LEMMA SecretIsAnEntry ==
  ASSUME NEW c \in Configs, Starts(c), c.gatewayAuth, NEW t, NEW p, NEW v,
         v = SecretOf(c, t, p, NoSecret, Unavailable), v \notin {NoSecret, Unavailable}
  PROVE  /\ p \in DOMAIN c.tenants[HashKey(t)].providers
         /\ {e \in Entries(c.secrets) : e[1] = c.tenants[HashKey(t)].providers[p]}
              = {<<c.tenants[HashKey(t)].providers[p], v>>}
         /\ v # NoToken
<1> DEFINE refs == c.tenants[HashKey(t)].providers
           i == LastOf(c.secrets, refs[p])
           e == c.secrets[i]
<1>1. /\ p \in DOMAIN refs /\ refs[p] \in Names(c.secrets)
      /\ v = StaticSecrets(c.secrets)[refs[p]]
  BY DEF SecretOf, StaticSecrets
<1>2. v = e[2]
  BY <1>1 DEF StaticSecrets
<1>3. i \in DOMAIN c.secrets /\ e # <<>> /\ e[1] = refs[p]
  BY <1>1, LastOfIsAnEntry, PipelineAssumption
<1>4. /\ \A x \in Entries(c.secrets) : Len(x) = 2
      /\ \A j, k \in DOMAIN c.secrets :
           /\ c.secrets[j] # <<>> /\ c.secrets[k] # <<>>
           /\ c.secrets[j][1] = c.secrets[k][1]
           => j = k
  BY DEF Starts, SoundSecrets, Sound
<1>5. e \in Entries(c.secrets)
  BY <1>3 DEF Entries
<1>6. e = <<refs[p], v>>
  <2>1. e \in Seq(Fields(c.secrets))
    <3>1. c.secrets \in Seq(Seq(Fields(c.secrets)))
      BY PipelineAssumption DEF IsList
    <3> QED
      BY <3>1, <1>3
  <2>2. Len(e) = 2
    BY <1>4, <1>5
  <2> QED
    BY <2>1, <2>2, <1>2, <1>3
<1>7. ASSUME NEW x \in Entries(c.secrets), x[1] = refs[p] PROVE x = e
  <2>1. PICK j \in DOMAIN c.secrets : x = c.secrets[j] /\ x # <<>>
    BY <1>7 DEF Entries
  <2> QED
    BY <2>1, <1>3, <1>4, <1>7
<1>8. v # NoToken
  BY <1>2, <1>4, <1>5, PipelineAssumption DEF Sound
<1> QED
  BY <1>1, <1>3, <1>5, <1>6, <1>7, <1>8

\* What is handed to the generator is a key: no marker of its absence.
LEMMA KeyIsAKey ==
  ASSUME NEW i, config \in Configs, Starts(config), Refusal(i) = 0,
         NEW key, key = ProviderKey(i.token, ProviderOf[i.model]),
         key \notin {NoSecret, Unavailable}
  PROVE  key # NoToken
<1>1. Authentic(i.token)
  BY DEF Refusal
<1>2. CASE ~config.gatewayAuth
  BY <1>1, <1>2 DEF Authentic, ProviderKey
<1>3. CASE config.gatewayAuth /\ ProviderOf[i.model] = VertexAI
  BY <1>3, PipelineAssumption DEF ProviderKey
<1>4. CASE config.gatewayAuth /\ ProviderOf[i.model] # VertexAI
  <2>1. key = SecretOf(config, i.token, ProviderOf[i.model], NoSecret, Unavailable)
    BY <1>4 DEF ProviderKey, Secret
  <2> QED
    BY <2>1, <1>4, SecretIsAnEntry
<1> QED
  BY <1>2, <1>3, <1>4

\* The model of a slot is written without touching its usage.
LEMMA SlotModelWritten ==
  ASSUME slot \in [Requests -> SlotType], NEW r \in Requests,
         NEW m \in Models, slot' = [slot EXCEPT ![r].model = m]
  PROVE  /\ slot' \in [Requests -> SlotType]
         /\ slot'[r].model = m /\ slot'[r].usage = slot[r].usage
         /\ \A q \in Requests \ {r} : slot'[q] = slot[q]
<1> DEFINE s == [slot[r] EXCEPT !.model = m]
<1>1. s \in SlotType /\ s.model = m /\ s.usage = slot[r].usage
  <2>1. slot[r] \in SlotType
    OBVIOUS
  <2> QED
    BY <2>1 DEF SlotType
<1>2. slot' = [slot EXCEPT ![r] = s]
  OBVIOUS
<1> HIDE DEF s
<1> QED
  BY <1>1, <1>2

\* Its usage is written without touching the model.
LEMMA SlotUsageWritten ==
  ASSUME slot \in [Requests -> SlotType], NEW r \in Requests,
         \E reported \in BOOLEAN : slot' = [slot EXCEPT ![r].usage = reported]
  PROVE  /\ slot' \in [Requests -> SlotType] /\ slot'[r].model = slot[r].model
         /\ \A q \in Requests \ {r} : slot'[q] = slot[q]
<1>1. \/ slot' = [slot EXCEPT ![r].usage = TRUE]
      \/ slot' = [slot EXCEPT ![r].usage = FALSE]
  OBVIOUS
<1>2. slot[r] \in SlotType
  OBVIOUS
<1>3. CASE slot' = [slot EXCEPT ![r].usage = TRUE]
  BY <1>2, <1>3 DEF SlotType
<1>4. CASE slot' = [slot EXCEPT ![r].usage = FALSE]
  BY <1>2, <1>4 DEF SlotType
<1> QED
  BY <1>1, <1>3, <1>4

\* Resolve: no secret ends the request, a key takes it to the generator.
LEMMA ResolveKeeps ==
  ASSUME PipelineInv, NEW r \in Requests, Resolve(r)
  PROVE  PipelineInv'
<1> DEFINE key == ProviderKey(req[r].token, ProviderOf[req[r].model])
<1>0. /\ TypeOK /\ StepOf(r) /\ DOMAIN apiKey = Requests /\ slot \in [Requests -> SlotType]
      /\ req[r].model \in Models /\ config \in Configs /\ pc \in [Requests -> Steps]
  BY StepFacts, RequestTyped
<1>1. /\ pc[r] = "resolving" /\ Starts(config) /\ ~Served(r) /\ ~slot[r].usage
      /\ Refusal(req[r]) = 0 /\ TagsOf(r) = HandlerTags(req[r])
      /\ UNCHANGED <<config, req, window, charges, repeats, logged, counted, tokens>>
      /\ slot' = [slot EXCEPT ![r].model = req[r].model]
  BY <1>0 DEF Resolve, StepOf
<1>2. PICK code \in {0, 403, 500}, next \in {"observe", "generating"} :
        /\ status' = [status EXCEPT ![r] = code] /\ pc' = [pc EXCEPT ![r] = next]
        /\ next = "observe" => code # 0 /\ apiKey' = apiKey
        /\ next = "generating" => /\ code = 0 /\ key \notin {NoSecret, Unavailable}
                                  /\ apiKey' = [apiKey EXCEPT ![r] = key]
  <2>1. \A code : Answer(r, code) => status' = [status EXCEPT ![r] = code]
    BY <1>1, StepFacts
  <2>2. UNCHANGED status => status' = [status EXCEPT ![r] = 0]
    BY <1>1, StepFacts
  <2> QED
    BY <2>1, <2>2 DEF Resolve, Advance
<1>3. /\ slot' \in [Requests -> SlotType] /\ slot'[r].model = req[r].model
      /\ ~slot'[r].usage /\ \A q \in Requests \ {r} : slot'[q] = slot[q]
  <2>1. /\ slot' \in [Requests -> SlotType]
        /\ slot'[r].model = req[r].model /\ slot'[r].usage = slot[r].usage
        /\ \A q \in Requests \ {r} : slot'[q] = slot[q]
    <3>1. slot \in [Requests -> SlotType] /\ req[r].model \in Models
      BY <1>0
    <3>2. slot' = [slot EXCEPT ![r].model = req[r].model]
      BY <1>1
    <3> QED
      BY <3>1, <3>2, SlotModelWritten
  <2> QED
    BY <2>1, <1>1
<1>4. /\ DOMAIN apiKey' = Requests /\ \A q \in Requests \ {r} : apiKey'[q] = apiKey[q]
      /\ next = "observe" => ~Served(r)'
      /\ next = "generating" => Served(r)' /\ apiKey'[r] = key
  <2>1. CASE next = "observe"
    BY <2>1, <1>0, <1>1, <1>2 DEF Served
  <2>2. CASE next = "generating"
    <3>1. key # NoToken
      BY <2>2, <1>0, <1>1, <1>2, KeyIsAKey
    <3> QED
      BY <2>2, <3>1, <1>0, <1>2 DEF Served
  <2> QED
    BY <2>1, <2>2
<1>5. pc'[r] = next /\ TagsOf(r)' = TagsOf(r)
  BY <1>0, <1>1, <1>2 DEF TagsOf
<1>6. /\ HandlerTags(req[r])' = HandlerTags(req[r]) /\ Refusal(req[r])' = Refusal(req[r])
      /\ key' = key
  BY <1>1, ConfigFixed
<1>7. StepOf(r)'
  <2>1. CASE next = "observe"
    BY <2>1, <1>1, <1>3, <1>4, <1>5 DEF StepOf
  <2>2. CASE next = "generating"
    <3>1. status'[r] = 0
      BY <2>2, <1>0, <1>2, RequestTyped
    <3>2. TagsOf(r)' = HandlerTags(req[r])' /\ Refusal(req[r])' = 0
      BY <1>1, <1>5, <1>6
    <3>3. apiKey'[r] = key' /\ apiKey'[r] \notin {NoSecret, Unavailable}
      BY <2>2, <1>2, <1>4, <1>6
    <3> HIDE DEF key
    <3> QED
      BY <2>2, <3>1, <3>2, <3>3, <1>1, <1>3, <1>4, <1>5 DEF StepOf, key
  <2> QED
    BY <2>1, <2>2
<1>8. /\ code \in Codes \cup {0} /\ next \in Steps
      /\ next \in {"observe", "done"} => code # 0
      /\ code = 429 => Served(r)'
  BY <1>2 DEF Codes, Steps
<1>9. /\ pc[r] \notin {"observe", "done"}
      /\ slot' \in [Requests -> SlotType] /\ DOMAIN apiKey' = Requests
      /\ \A q \in Requests \ {r} : slot'[q] = slot[q] /\ apiKey'[q] = apiKey[q]
  BY <1>1, <1>3, <1>4
<1>a. status' = [status EXCEPT ![r] = code] /\ pc' = [pc EXCEPT ![r] = next]
  BY <1>2
<1> QED
  BY <1>1, <1>7, <1>8, <1>9, <1>a, AnswerStep

\* The generator's outcomes: an answer, and usage only with a 200.
LEMMA GenerationKeeps ==
  ASSUME PipelineInv, NEW r \in Requests, Succeed(r) \/ Fail(r) \/ Panic(r)
  PROVE  PipelineInv'
<1>0. /\ TypeOK /\ StepOf(r) /\ DOMAIN apiKey = Requests /\ slot \in [Requests -> SlotType]
      /\ pc \in [Requests -> Steps] /\ status \in [Requests -> Codes \cup {0}]
  BY StepFacts, RequestTyped
<1>1. /\ pc[r] = "generating" /\ Starts(config) /\ Served(r) /\ ~slot[r].usage
      /\ Refusal(req[r]) = 0 /\ TagsOf(r) = HandlerTags(req[r])
      /\ UNCHANGED <<config, req, window, charges, repeats, apiKey, logged, counted, tokens>>
  <2>1. /\ pc[r] = "generating"
        /\ UNCHANGED <<config, req, window, charges, repeats, apiKey, logged, counted, tokens>>
    BY DEF Succeed, Fail, Panic
  <2>2. Served(r) /\ status[r] = 0 /\ Starts(config)
    BY <2>1, <1>0 DEF StepOf
  <2>3. Refusal(req[r]) = 0 /\ TagsOf(r) = HandlerTags(req[r])
    BY <2>1, <1>0 DEF StepOf
  <2>4. ~slot[r].usage
    <3>1. slot[r].usage => status[r] = 200
      BY <1>0 DEF StepOf
    <3> QED
      BY <3>1, <2>2
  <2> QED
    BY <2>1, <2>2, <2>3, <2>4
<1>2. /\ slot' \in [Requests -> SlotType] /\ slot'[r].model = slot[r].model
      /\ slot'[r].usage => Succeed(r)
      /\ \A q \in Requests \ {r} : slot'[q] = slot[q]
  <2>1. CASE Succeed(r)
    <3>1. \E reported \in BOOLEAN : slot' = [slot EXCEPT ![r].usage = reported]
      BY <2>1 DEF Succeed
    <3>2. /\ slot' \in [Requests -> SlotType] /\ slot'[r].model = slot[r].model
          /\ \A q \in Requests \ {r} : slot'[q] = slot[q]
      BY <3>1, <1>0, SlotUsageWritten
    <3> QED
      BY <3>2, <2>1
  <2>2. CASE Fail(r) \/ Panic(r)
    <3>1. slot' = slot
      BY <2>2 DEF Fail, Panic
    <3> QED
      BY <3>1, <1>0, <1>1
  <2> QED
    BY <2>1, <2>2
<1>3. PICK code \in Codes, next \in {"observe", "done"} :
        /\ status' = [status EXCEPT ![r] = code] /\ pc' = [pc EXCEPT ![r] = next]
        /\ Succeed(r) => code = 200
  <2> USE DEF Codes
  <2>1. \A code : Answer(r, code) => status' = [status EXCEPT ![r] = code]
    BY <1>1, StepFacts
  <2>2. CASE Succeed(r)
    <3>1. status' = [status EXCEPT ![r] = 200] /\ pc' = [pc EXCEPT ![r] = "observe"]
      BY <2>1, <2>2 DEF Succeed, Advance
    <3> QED
      BY <3>1
  <2>3. CASE Fail(r) /\ ~Succeed(r)
    <3>1. Answer(r, 200) \/ Answer(r, 429) \/ Answer(r, 502)
      BY <2>3 DEF Fail, FailureCodes
    <3>2. /\ pc' = [pc EXCEPT ![r] = "observe"]
          /\ \/ status' = [status EXCEPT ![r] = 200]
             \/ status' = [status EXCEPT ![r] = 429]
             \/ status' = [status EXCEPT ![r] = 502]
      BY <3>1, <2>1, <2>3 DEF Fail, Advance
    <3> QED
      BY <3>2, <2>3
  <2>4. CASE Panic(r) /\ ~Succeed(r)
    <3>1. Answer(r, 200) \/ Answer(r, 500)
      BY <2>4 DEF Panic
    <3>2. /\ pc' = [pc EXCEPT ![r] = "done"]
          /\ \/ status' = [status EXCEPT ![r] = 200]
             \/ status' = [status EXCEPT ![r] = 500]
      BY <3>1, <2>1, <2>4 DEF Panic, Advance
    <3> QED
      BY <3>2, <2>4
  <2> QED
    BY <2>2, <2>3, <2>4
<1>4. /\ pc'[r] = next /\ status'[r] = code /\ TagsOf(r)' = TagsOf(r) /\ Served(r)'
      /\ DOMAIN apiKey' = Requests /\ \A q \in Requests \ {r} : apiKey'[q] = apiKey[q]
  BY <1>0, <1>1, <1>3 DEF TagsOf, Served
<1>5. /\ HandlerTags(req[r])' = HandlerTags(req[r]) /\ Refusal(req[r])' = Refusal(req[r])
      /\ ProviderKey(req[r].token, ProviderOf[req[r].model])' =
           ProviderKey(req[r].token, ProviderOf[req[r].model])
  BY <1>1, ConfigFixed
<1>6. StepOf(r)'
  <2>1. TagsOf(r)' = HandlerTags(req[r])' /\ Refusal(req[r])' = 0
    BY <1>1, <1>4, <1>5
  <2>2. /\ slot'[r].model = req'[r].model
        /\ apiKey'[r] = ProviderKey(req[r].token, ProviderOf[req[r].model])'
        /\ apiKey'[r] \notin {NoSecret, Unavailable}
    <3>1. /\ slot[r].model = req[r].model /\ apiKey[r] \notin {NoSecret, Unavailable}
          /\ apiKey[r] = ProviderKey(req[r].token, ProviderOf[req[r].model])
      BY <1>0, <1>1 DEF StepOf
    <3> QED
      BY <3>1, <1>1, <1>2, <1>5
  <2>3. slot'[r].usage => status'[r] = 200
    BY <1>2, <1>3, <1>4
  <2>4. pc'[r] \in {"observe", "done"} /\ Starts(config)'
    BY <1>1, <1>3, <1>4
  <2> QED
    BY <2>1, <2>2, <2>3, <2>4, <1>4 DEF StepOf
<1>7. pc[r] \notin {"observe", "done"}
  BY <1>1
<1>8. code \in Codes \cup {0} /\ next \in Steps /\ code # 0
  BY <1>3 DEF Codes, Steps
<1>9. /\ status' = [status EXCEPT ![r] = code] /\ pc' = [pc EXCEPT ![r] = next]
      /\ next \in {"observe", "done"} => code # 0
      /\ code = 429 => Served(r)'
      /\ slot' \in [Requests -> SlotType] /\ DOMAIN apiKey' = Requests
      /\ \A q \in Requests \ {r} : slot'[q] = slot[q] /\ apiKey'[q] = apiKey[q]
      /\ UNCHANGED <<config, req, window, charges, repeats, logged, counted, tokens>>
  BY <1>1, <1>2, <1>3, <1>4, <1>8
<1> QED
  BY <1>6, <1>7, <1>8, <1>9, AnswerStep


\* Who is logged is a set of requests, and so is any part of it.
LEMMA LoggedFinite ==
  ASSUME PipelineInv, NEW S \in SUBSET Requests
  PROVE  /\ IsFiniteSet(S) /\ Cardinality(S) \in Nat
         /\ Cardinality(S) <= Cardinality(Requests) /\ Cardinality(Requests) \in Nat
BY PipelineAssumption, FS_Subset, FS_CardinalityType

\* A request that is logged joins those of its label, which gets one more.
LEMMA CountRequestCounts ==
  ASSUME PipelineInv, NEW r \in Requests, r \notin logged, CountRequest(r), LogRequest(r),
         UNCHANGED <<status, slot>>
  PROVE  /\ \A q \in logged' : <<status'[q], ProviderLabel(q)'>> \in DOMAIN counted'
         /\ \A l \in DOMAIN counted' :
              l = <<l[1], l[2]>> /\ counted'[l] = Cardinality(LoggedAs(l)')
<1> DEFINE label == <<status[r], ProviderLabel(r)>>
<1>0. MetricsInv /\ logged \subseteq Requests
  BY DEF PipelineInv, TypeOK
<1>1. /\ counted' = [l \in DOMAIN counted \cup {label} |->
           (IF l \in DOMAIN counted THEN counted[l] ELSE 0) + (IF l = label THEN 1 ELSE 0)]
      /\ logged' = logged \cup {r}
  BY DEF CountRequest, CountedStatus, LogRequest
<1>2. \A q : status'[q] = status[q] /\ ProviderLabel(q)' = ProviderLabel(q)
  BY DEF ProviderLabel
<1>3. \A q \in logged' : <<status'[q], ProviderLabel(q)'>> \in DOMAIN counted'
  <2>1. DOMAIN counted' = DOMAIN counted \cup {label}
    BY <1>1
  <2>2. \A q \in logged : <<status[q], ProviderLabel(q)>> \in DOMAIN counted
    BY <1>0 DEF MetricsInv
  <2> QED
    BY <2>1, <2>2, <1>1, <1>2
<1>4. ASSUME NEW l \in DOMAIN counted'
      PROVE  l = <<l[1], l[2]>> /\ counted'[l] = Cardinality(LoggedAs(l)')
  <2>0. l \in DOMAIN counted \cup {label}
    BY <1>1, <1>4
  <2>1. /\ IsFiniteSet(LoggedAs(l)) /\ Cardinality(LoggedAs(l)) \in Nat /\ r \notin LoggedAs(l)
    <3>1. LoggedAs(l) \in SUBSET Requests
      BY <1>0 DEF LoggedAs
    <3> QED
      BY <3>1, LoggedFinite DEF LoggedAs
  <2>2. CASE l = label
    <3>1. LoggedAs(l)' = LoggedAs(l) \cup {r}
      BY <2>2, <1>1, <1>2 DEF LoggedAs
    <3>2. Cardinality(LoggedAs(l)') = Cardinality(LoggedAs(l)) + 1
      BY <3>1, <2>1, FS_AddElement
    <3>3. CASE l \in DOMAIN counted
      <4>1. counted[l] = Cardinality(LoggedAs(l))
        BY <3>3, <1>0 DEF MetricsInv
      <4>2. counted'[l] = counted[l] + 1
        BY <3>3, <2>0, <2>2, <1>1
      <4> QED
        BY <4>1, <4>2, <3>2, <2>2
    <3>4. CASE l \notin DOMAIN counted
      <4>1. LoggedAs(l) = {}
        <5> SUFFICES ASSUME NEW q \in LoggedAs(l) PROVE FALSE
          OBVIOUS
        <5>1. q \in logged /\ <<status[q], ProviderLabel(q)>> = l
          BY <2>2 DEF LoggedAs
        <5> QED
          BY <5>1, <3>4, <1>0 DEF MetricsInv
      <4>2. counted'[l] = 1
        BY <3>4, <2>0, <2>2, <1>1
      <4> QED
        BY <4>1, <4>2, <3>2, <2>2, FS_EmptySet
    <3> QED
      BY <3>3, <3>4
  <2>3. CASE l # label
    <3>1. l = <<l[1], l[2]>> /\ counted[l] = Cardinality(LoggedAs(l))
      BY <2>0, <2>3, <1>0 DEF MetricsInv
    <3>2. LoggedAs(l)' = LoggedAs(l)
      BY <3>1, <2>3, <1>1, <1>2 DEF LoggedAs
    <3>3. counted'[l] = counted[l] + 0
      BY <2>0, <2>3, <1>1
    <3> QED
      BY <3>1, <3>2, <3>3, <2>1
  <2> QED
    BY <2>2, <2>3
<1> QED
  BY <1>3, <1>4

\* Its tokens are counted only if it was served a 200, under its provider.
LEMMA CountRequestTokens ==
  ASSUME PipelineInv, NEW r \in Requests, r \notin logged, CountRequest(r), LogRequest(r),
         UNCHANGED <<req, status, slot, apiKey>>
  PROVE  /\ tokens' \in [Providers -> 0..Cardinality(Requests)]
         /\ \A p \in Providers :
              tokens'[p] \in Nat /\ tokens'[p] <= Cardinality(LoggedServed(p)')
<1> DEFINE q == ProviderOf[req[r].model]
<1>0. /\ TypeOK /\ StepOf(r) /\ MetricsInv /\ logged \subseteq Requests
      /\ req[r].model \in Models /\ "" \notin Models
  <2>1. TypeOK /\ StepOf(r) /\ MetricsInv
    BY DEF PipelineInv, StepInv
  <2> QED
    BY <2>1, RequestTyped, PipelineAssumption DEF TypeOK
<1>1. logged' = logged \cup {r}
  BY DEF LogRequest
<1>2. /\ DOMAIN tokens = Providers
      /\ slot[r].usage => Served(r) /\ status[r] = 200 /\ ProviderLabel(r) = q
      /\ tokens' = IF slot[r].usage THEN [tokens EXCEPT ![q] = @ + 1] ELSE tokens
  <2>1. slot[r].usage => Served(r) /\ status[r] = 200 /\ slot[r].model = req[r].model
    BY <1>0 DEF StepOf
  <2>2. slot[r].usage => ProviderLabel(r) = q
    BY <2>1, <1>0 DEF ProviderLabel
  <2> QED
    BY <2>1, <2>2, <1>0 DEF CountRequest, TypeOK
<1> HIDE DEF q
<1>3. ASSUME NEW p \in Providers
      PROVE  /\ tokens'[p] \in Nat /\ tokens'[p] <= Cardinality(LoggedServed(p)')
             /\ tokens'[p] <= Cardinality(Requests) /\ Cardinality(Requests) \in Nat
  <2>1. /\ LoggedServed(p) \in SUBSET Requests /\ LoggedServed(p)' \in SUBSET Requests
        /\ r \notin LoggedServed(p)
    BY <1>0, <1>1 DEF LoggedServed
  <2>2. /\ IsFiniteSet(LoggedServed(p)) /\ Cardinality(LoggedServed(p)) \in Nat
        /\ IsFiniteSet(LoggedServed(p)') /\ Cardinality(LoggedServed(p)') \in Nat
        /\ Cardinality(LoggedServed(p)') <= Cardinality(Requests)
        /\ Cardinality(Requests) \in Nat
    BY <2>1, LoggedFinite
  <2>3. tokens[p] \in Nat /\ tokens[p] <= Cardinality(LoggedServed(p))
    BY <1>0 DEF MetricsInv
  <2>4. \A x : Served(x)' <=> Served(x)
    BY DEF Served
  <2>5. LoggedServed(p) \subseteq LoggedServed(p)'
    BY <2>4, <1>1 DEF LoggedServed
  <2>6. CASE slot[r].usage /\ p = q
    <3>1. LoggedServed(p)' = LoggedServed(p) \cup {r}
      BY <2>4, <2>6, <1>1, <1>2 DEF LoggedServed, q
    <3>2. Cardinality(LoggedServed(p)') = Cardinality(LoggedServed(p)) + 1
      BY <3>1, <2>1, <2>2, FS_AddElement
    <3>3. tokens'[p] = tokens[p] + 1
      BY <2>6, <1>2
    <3> QED
      BY <3>2, <3>3, <2>2, <2>3
  <2>7. CASE ~(slot[r].usage /\ p = q)
    <3>1. tokens'[p] = tokens[p]
      BY <2>7, <1>2
    <3>2. Cardinality(LoggedServed(p)) <= Cardinality(LoggedServed(p)')
      BY <2>2, <2>5, FS_Subset
    <3> QED
      BY <3>1, <3>2, <2>2, <2>3
  <2> QED
    BY <2>6, <2>7
<1>4. tokens' \in [Providers -> 0..Cardinality(Requests)]
  <2>1. tokens' = [p \in Providers |-> tokens'[p]]
    <3>1. tokens \in [Providers -> 0..Cardinality(Requests)]
      BY <1>0 DEF TypeOK
    <3>2. CASE slot[r].usage
      BY <3>1, <3>2, <1>2
    <3>3. CASE ~slot[r].usage
      BY <3>1, <3>3, <1>2
    <3> QED
      BY <3>2, <3>3
  <2>2. \A p \in Providers : tokens'[p] \in 0..Cardinality(Requests)
    BY <1>3
  <2> QED
    BY <2>1, <2>2
<1> QED
  BY <1>3, <1>4


\* Metrics and Logger once the handler is back: the request is counted, logged
\* and done, and nothing else of it changes.
LEMMA ObserveKeeps ==
  ASSUME PipelineInv, NEW r \in Requests, Observe(r)
  PROVE  PipelineInv'
<1>0. /\ TypeOK /\ StepOf(r) /\ StepInv /\ MetricsInv /\ DOMAIN apiKey = Requests
      /\ pc \in [Requests -> Steps]
  BY StepFacts, RequestTyped DEF PipelineInv
<1>1. /\ pc[r] = "observe" /\ pc' = [pc EXCEPT ![r] = "done"]
      /\ CountRequest(r) /\ LogRequest(r)
      /\ UNCHANGED <<config, req, window, charges, repeats, status, slot, apiKey>>
      /\ status[r] # 0
  BY <1>0 DEF Observe, Advance, TypeOK
<1>2. /\ r \notin logged /\ logged' = logged \cup {r}
      /\ pc'[r] = "done" /\ \A q \in Requests \ {r} : pc'[q] = pc[q]
  BY <1>0, <1>1 DEF MetricsInv, LogRequest
<1>7. RepeatInv'
  BY <1>1 DEF PipelineInv, RepeatInv
<1>3. ChargeInv' /\ BudgetInv' /\ DenialIsDue' /\ \A q \in Requests : TagsOf(q)' = TagsOf(q)
  <2>1. /\ \A q \in Requests : Denied(q)' <=> Denied(q)
        /\ UNCHANGED <<config, req, charges, repeats>> /\ window' \in {window, window + 1}
        /\ DOMAIN apiKey' = Requests
    BY <1>0, <1>1 DEF Denied, Served
  <2> QED
    BY <2>1, <1>7, ChargesKept
<1>4. StepInv'
  <2>1. ASSUME NEW q \in Requests \ {r} PROVE StepOf(q)'
    <3>1. StepOf(q) /\ TagsOf(q)' = TagsOf(q) /\ pc'[q] = pc[q]
      BY <1>0, <1>2, <1>3 DEF StepInv
    <3> QED
      BY <3>1, <1>1, OtherRequestsKept
  <2>2. StepOf(r)'
    <3>1. /\ HandlerTags(req[r])' = HandlerTags(req[r]) /\ Refusal(req[r])' = Refusal(req[r])
          /\ ProviderKey(req[r].token, ProviderOf[req[r].model])' =
               ProviderKey(req[r].token, ProviderOf[req[r].model])
      BY <1>1, ConfigFixed
    <3>2. TagsOf(r)' = TagsOf(r) /\ (Served(r)' <=> Served(r)) /\ Starts(config)'
      BY <1>0, <1>1, <1>3 DEF StepOf, Served
    <3>3. Served(r)' => TagsOf(r)' = HandlerTags(req[r])' /\ Refusal(req[r])' = 0
      BY <3>1, <3>2, <1>0 DEF StepOf
    <3>4. Served(r)' =>
            /\ slot'[r].model = req'[r].model
            /\ apiKey'[r] = ProviderKey(req[r].token, ProviderOf[req[r].model])'
            /\ apiKey'[r] \notin {NoSecret, Unavailable}
      BY <3>1, <3>2, <1>0, <1>1 DEF StepOf
    <3>5. /\ slot'[r].model \in {"", req'[r].model}
          /\ slot'[r].usage => Served(r)' /\ status'[r] = 200
      BY <3>2, <1>0, <1>1 DEF StepOf
    <3> QED
      BY <3>2, <3>3, <3>4, <3>5, <1>2 DEF StepOf
  <2> QED
    BY <2>1, <2>2 DEF StepInv
<1>5. MetricsInv'
  <2>1. \A q \in logged' : pc'[q] = "done"
    <3>1. \A q \in logged : pc[q] = "done" /\ q \in Requests
      BY <1>0 DEF MetricsInv, TypeOK
    <3> QED
      BY <3>1, <1>2
  <2>2. /\ \A q \in logged' : <<status'[q], ProviderLabel(q)'>> \in DOMAIN counted'
        /\ \A l \in DOMAIN counted' :
             l = <<l[1], l[2]>> /\ counted'[l] = Cardinality(LoggedAs(l)')
    BY <1>1, <1>2, CountRequestCounts
  <2>3. \A p \in Providers :
          tokens'[p] \in Nat /\ tokens'[p] <= Cardinality(LoggedServed(p)')
    BY <1>1, <1>2, CountRequestTokens
  <2> QED
    BY <2>1, <2>2, <2>3 DEF MetricsInv
<1>6. TypeOK'
  <2>1. tokens' \in [Providers -> 0..Cardinality(Requests)]
    BY <1>1, <1>2, CountRequestTokens
  <2>2. /\ pc' \in [Requests -> Steps] /\ logged' \subseteq Requests
        /\ \A q \in Requests : pc'[q] \in {"observe", "done"} => status'[q] # 0
    BY <1>0, <1>1, <1>2 DEF TypeOK, Steps
  <2> QED
    BY <2>1, <2>2, <1>0, <1>1 DEF TypeOK
<1> QED
  BY <1>3, <1>4, <1>5, <1>6, <1>7 DEF PipelineInv

\* Nothing is charged, logged or counted before the first request.
LEMMA InitEstablishes ==
  ASSUME Init
  PROVE  PipelineInv
<1>1. TypeOK
  <2>1. MaxWindow \in Nat /\ Cardinality(Requests) \in Nat
    BY PipelineAssumption, FS_CardinalityType
  <2>2. window \in 0..MaxWindow /\ tokens \in [Providers -> 0..Cardinality(Requests)]
    <3>1. 0 \in 0..MaxWindow /\ 0 \in 0..Cardinality(Requests)
      BY <2>1
    <3>2. window = 0 /\ tokens = [p \in Providers |-> 0]
      BY DEF Init
    <3> QED
      BY <3>1, <3>2
  <2>3. slot \in [Requests -> [model : Models \cup {""}, usage : BOOLEAN]]
    BY DEF Init
  <2> QED
    BY <2>2, <2>3 DEF Init, TypeOK, Steps
<1>2. ChargeInv /\ RepeatInv
  BY FS_EmptySet DEF Init, ChargeInv, RepeatInv
<1>3. StepInv
  BY DEF Init, StepInv, StepOf, TagsOf, Served
<1>4. BudgetInv /\ DenialIsDue
  <2>1. \A r \in Requests : charges[r] = {} /\ status[r] = 0
    BY DEF Init
  <2> QED
    BY <2>1 DEF BudgetInv, DenialIsDue
<1>5. MetricsInv
  <2>1. /\ logged = {} /\ DOMAIN counted = {} /\ \A p \in Providers : tokens[p] = 0
    BY DEF Init
  <2>2. \A p \in Providers : Cardinality(LoggedServed(p)) = 0
    BY <2>1, FS_EmptySet DEF LoggedServed
  <2>3. \A p \in Providers : tokens[p] \in Nat /\ tokens[p] <= Cardinality(LoggedServed(p))
    BY <2>1, <2>2
  <2> QED
    BY <2>1, <2>3 DEF MetricsInv
<1> QED
  BY <1>1, <1>2, <1>3, <1>4, <1>5 DEF PipelineInv

\* A step of any request, of the clock or of none.
LEMMA PipelineInvStep ==
  ASSUME PipelineInv, [Next]_vars
  PROVE  PipelineInv'
<1>1. ASSUME NEW r \in Requests,
             \/ Arrive(r) \/ CheckGlobal(r) \/ Vet(r) \/ CheckModel(r) \/ CheckStream(r)
             \/ Resolve(r) \/ Succeed(r) \/ Fail(r) \/ Panic(r) \/ Observe(r)
      PROVE  PipelineInv'
  BY <1>1, ArriveKeeps, CheckGlobalKeeps, VetKeeps, CheckModelKeeps, CheckStreamKeeps,
     ResolveKeeps, GenerationKeeps, ObserveKeeps
<1>2. CASE NextWindow
  <2>1. /\ window < MaxWindow /\ window' = window + 1 /\ window \in 0..MaxWindow
        /\ UNCHANGED <<config, req, pc, charges, repeats, status, slot, apiKey, logged, counted, tokens>>
    BY <1>2 DEF NextWindow, PipelineInv, TypeOK
  <2>2. MaxWindow \in Nat
    BY PipelineAssumption
  <2>3. RepeatInv'
    BY <2>1 DEF PipelineInv, RepeatInv
  <2> QED
    BY <2>1, <2>2, <2>3, NoRequestMoves
<1>3. CASE UNCHANGED vars
  <2>1. /\ window' = window /\ window \in 0..MaxWindow
        /\ UNCHANGED <<config, req, pc, charges, repeats, status, slot, apiKey, logged, counted, tokens>>
    BY <1>3 DEF vars, PipelineInv, TypeOK
  <2>2. RepeatInv'
    BY <2>1 DEF PipelineInv, RepeatInv
  <2> QED
    BY <2>1, <2>2, NoRequestMoves
<1> QED
  BY <1>1, <1>2, <1>3 DEF Next, Terminated


-----------------------------------------------------------------------------
(* What the invariant says of the pipeline                                 *)

\* The inductive invariant holds of every behaviour of the chain.
THEOREM PipelineInvariance == Spec => []PipelineInv
<1>1. Init => PipelineInv
  BY InitEstablishes
<1>2. PipelineInv /\ [Next]_vars => PipelineInv'
  BY PipelineInvStep
<1> QED
  BY <1>1, <1>2, PTL DEF Spec

\* Every variable keeps its type, and a request that is done was answered.
THEOREM TypeCorrect == Spec => []TypeOK
<1>1. PipelineInv => TypeOK
  BY DEF PipelineInv
<1> QED
  BY <1>1, PipelineInvariance, PTL

\* No token gets more generations out of a window than the smallest budget on
\* the way, calls the backend failed to answer apart: whoever was served was
\* let through by every layer that charged it.
THEOREM BudgetsHold == Spec => []BudgetPerLayer
<1>1. PipelineInv => BudgetPerLayer
  <2> SUFFICES ASSUME PipelineInv, NEW t \in Tokens, NEW w \in 0..MaxWindow,
                      NEW tag \in UNION {{c.tag : c \in charges[r]} : r \in Requests}
               PROVE  Cardinality({r \in CallsOf(t, tag, w) : Served(r) /\
                        \E c \in charges[r] : c.tag = tag /\ c.window = w /\ c.replied})
                        <= LimitOf(config, tag)
    BY DEF BudgetPerLayer
  <2> DEFINE S == {r \in CallsOf(t, tag, w) : Served(r) /\
                     \E c \in charges[r] : c.tag = tag /\ c.window = w /\ c.replied}
             P == Passed(Key(t, tag), w)
  <2>0. ChargeInv /\ BudgetInv
    BY DEF PipelineInv
  <2>1. LimitOf(config, tag) \in Nat
    BY <2>0 DEF ChargeInv
  <2>2. CASE S = {}
    BY <2>1, <2>2, FS_EmptySet
  <2>3. CASE S # {}
    <3>1. \A r \in S : /\ r \in Requests /\ req[r].token = t /\ ~Denied(r)
                       /\ \E c \in charges[r] : c.tag = tag /\ c.window = w /\ c.replied
      BY DEF CallsOf, Denied
    <3>2. \A r \in S : \E c \in charges[r] :
            c.tag = tag /\ c.key = Key(t, tag) /\ c.window = w /\ c.replied
      BY <3>1, <2>0 DEF ChargeInv
    <3>3. S \subseteq P
      BY <3>1, <3>2 DEF Passed
    <3>4. /\ IsFiniteSet(P) /\ Cardinality(P) \in Nat
          /\ Cardinality(S) <= Cardinality(P) /\ Cardinality(S) \in Nat
      BY <3>3, PipelineAssumption, FS_Subset, FS_CardinalityType DEF Passed
    <3>5. Cardinality(P) <= LimitOf(config, tag)
      <4>1. PICK r \in S : TRUE
        BY <2>3
      <4>2. PICK c \in charges[r] : c.tag = tag /\ c.key = Key(t, tag) /\ c.window = w
        BY <3>2
      <4> QED
        BY <4>2, <3>1, <2>0 DEF BudgetInv
    <3> QED
      BY <3>4, <3>5, <2>1
  <2> QED
    BY <2>2, <2>3
<1> QED
  BY <1>1, PipelineInvariance, PTL

\* A denial is paid for by the token's own requests on one layer in one window.
THEOREM DenialsAreDue == Spec => []DenialIsDue
<1>1. PipelineInv => DenialIsDue
  BY DEF PipelineInv
<1> QED
  BY <1>1, PipelineInvariance, PTL

\* What is known of a request that was served.
LEMMA ServedFacts ==
  ASSUME PipelineInv, NEW r \in Requests, Served(r)
  PROVE  /\ Starts(config) /\ config \in Configs /\ req[r].model \in Models
         /\ Refusal(req[r]) = 0 /\ TagsOf(r) = HandlerTags(req[r])
         /\ apiKey[r] = ProviderKey(req[r].token, ProviderOf[req[r].model])
         /\ apiKey[r] \notin {NoSecret, Unavailable}
         /\ Authentic(req[r].token) /\ Allows(config, req[r].model)
<1>1. TypeOK /\ StepOf(r)
  BY StepFacts
<1>2. /\ Starts(config) /\ Refusal(req[r]) = 0 /\ TagsOf(r) = HandlerTags(req[r])
      /\ apiKey[r] = ProviderKey(req[r].token, ProviderOf[req[r].model])
      /\ apiKey[r] \notin {NoSecret, Unavailable}
  BY <1>1 DEF StepOf
<1>3. Authentic(req[r].token) /\ Allows(config, req[r].model)
  BY <1>2 DEF Refusal
<1> QED
  BY <1>1, <1>2, <1>3, RequestTyped

\* Whatever reaches the generator is allowed by MODEL_ALLOWLIST and was charged
\* by every layer with a limit and by no other.
THEOREM ConfigurationEnforced == Spec => []ServedAsConfigured
<1>1. PipelineInv => ServedAsConfigured
  <2> SUFFICES ASSUME PipelineInv, NEW r \in Requests, Served(r)
               PROVE  LET i == req[r]
                          p == ProviderOf[i.model]
                          listed == {l \in DOMAIN config.modelLimits :
                                       config.modelLimits[l] # <<>> /\
                                       config.modelLimits[l][1] = i.model}
                      IN
                      /\ (\E e \in Entries(config.allowlist) : TRUE) =>
                           \E e \in Entries(config.allowlist) : e[1] \in {i.model, p}
                      /\ {c.tag : c \in charges[r]} =
                           (IF config.globalLimit > 0 THEN {Global} ELSE {}) \cup
                           (IF i.route = "stream" /\ config.streamLimit > 0
                              THEN {Stream} ELSE {}) \cup
                           (IF listed # {} THEN {<<"model", i.model>>}
                            ELSE IF config.providerLimits[p] > 0
                              THEN {<<"provider", p>>} ELSE {})
    BY DEF ServedAsConfigured
  <2> DEFINE i == req[r]
             p == ProviderOf[i.model]
             listed == {l \in DOMAIN config.modelLimits :
                          config.modelLimits[l] # <<>> /\ config.modelLimits[l][1] = i.model}
  <2>0. /\ Starts(config) /\ config \in Configs /\ i.model \in Models
        /\ TagsOf(r) = HandlerTags(i) /\ Authentic(i.token) /\ Allows(config, i.model)
    BY ServedFacts
  <2>1. (\E e \in Entries(config.allowlist) : TRUE) =>
          \E e \in Entries(config.allowlist) : e[1] \in {i.model, p}
    BY <2>0 DEF Allows, Names
  <2>2. listed # {} <=> i.model \in Names(config.modelLimits)
    BY DEF Names, Entries
  <2>3. ModelTags(i) = IF listed # {} THEN {<<"model", i.model>>}
                       ELSE IF config.providerLimits[p] > 0 THEN {<<"provider", p>>} ELSE {}
    <3>1. CASE listed # {}
      <4>1. /\ ModelTag(config, i.model) = <<"model", i.model>>
            /\ LimitOf(config, ModelTag(config, i.model)) > 0
        BY <3>1, <2>0, <2>2, LimitIsNumber
      <4> QED
        BY <4>1, <3>1 DEF ModelTags
    <3>2. CASE listed = {}
      <4>1. /\ ModelTag(config, i.model) = <<"provider", p>>
            /\ LimitOf(config, ModelTag(config, i.model)) = config.providerLimits[p]
        BY <3>2, <2>0, <2>2, LimitIsNumber
      <4> QED
        BY <4>1, <3>2 DEF ModelTags
    <3> QED
      BY <3>1, <3>2
  <2>4. GlobalTags(i) = IF config.globalLimit > 0 THEN {Global} ELSE {}
    BY <2>0 DEF GlobalTags, Authentic
  <2>5. StreamTags(i) = IF i.route = "stream" /\ config.streamLimit > 0 THEN {Stream} ELSE {}
    BY DEF StreamTags
  <2>6. {c.tag : c \in charges[r]} = GlobalTags(i) \cup StreamTags(i) \cup ModelTags(i)
    BY <2>0 DEF TagsOf, HandlerTags
  <2> QED
    BY <2>1, <2>3, <2>4, <2>5, <2>6
<1> QED
  BY <1>1, PipelineInvariance, PTL

\* Behind gateway authentication a generation gets the one secret the caller's
\* own tenant refers to, and never the gateway token for want of one.
THEOREM CredentialsAreOwn == Spec => []OwnCredentialOnly
<1>1. PipelineInv => OwnCredentialOnly
  <2> SUFFICES ASSUME PipelineInv, NEW r \in Requests, Served(r)
               PROVE  LET i == req[r]
                          p == ProviderOf[i.model]
                          t == config.tenants[HashKey(i.token)]
                      IN
                      /\ ~config.gatewayAuth => apiKey[r] = i.token
                      /\ config.gatewayAuth /\ p = VertexAI =>
                           apiKey[r] = NoKey /\ HashKey(i.token) \in DOMAIN config.tenants
                      /\ config.gatewayAuth /\ p # VertexAI =>
                           /\ p \in DOMAIN t.providers
                           /\ {e \in Entries(config.secrets) : e[1] = t.providers[p]}
                                = {<<t.providers[p], apiKey[r]>>}
    BY DEF OwnCredentialOnly
  <2> DEFINE i == req[r]
             p == ProviderOf[i.model]
             t == config.tenants[HashKey(i.token)]
  <2>0. /\ Starts(config) /\ config \in Configs /\ Authentic(i.token)
        /\ apiKey[r] = ProviderKey(i.token, p) /\ apiKey[r] \notin {NoSecret, Unavailable}
    BY ServedFacts
  <2>1. ~config.gatewayAuth => apiKey[r] = i.token
    BY <2>0 DEF ProviderKey
  <2>2. config.gatewayAuth /\ p = VertexAI =>
          apiKey[r] = NoKey /\ HashKey(i.token) \in DOMAIN config.tenants
    BY <2>0 DEF ProviderKey, Authentic, KnownTenant
  <2>3. ASSUME config.gatewayAuth, p # VertexAI
        PROVE  /\ p \in DOMAIN t.providers
               /\ {e \in Entries(config.secrets) : e[1] = t.providers[p]}
                    = {<<t.providers[p], apiKey[r]>>}
    <3> HIDE DEF i, p
    <3>1. PICK v : v = apiKey[r]
      OBVIOUS
    <3>2. /\ v = SecretOf(config, i.token, p, NoSecret, Unavailable)
          /\ v \notin {NoSecret, Unavailable}
          /\ config \in Configs /\ Starts(config) /\ config.gatewayAuth
      BY <3>1, <2>0, <2>3 DEF ProviderKey, Secret
    <3>3. /\ p \in DOMAIN config.tenants[HashKey(i.token)].providers
          /\ {e \in Entries(config.secrets) :
                e[1] = config.tenants[HashKey(i.token)].providers[p]}
               = {<<config.tenants[HashKey(i.token)].providers[p], v>>}
      BY <3>2, SecretIsAnEntry
    <3> QED
      BY <3>1, <3>3
  <2> QED
    BY <2>1, <2>2, <2>3
<1> QED
  BY <1>1, PipelineInvariance, PTL

-----------------------------------------------------------------------------
(* What the model slot says of a request                                   *)

\* The slot has a model exactly when the handler got past its checks and limits,
\* which only requests of the generation routes do.
RecordOf(r) ==
  /\ pc[r] \in {"global", "vetting"} => req[r].route # "preflight"
  /\ pc[r] \in {"model", "stream", "resolving", "generating"} =>
       req[r].route \in {"generate", "stream"}
  /\ pc[r] \notin {"generating", "observe", "done"} => slot[r].model = ""
  /\ pc[r] \in {"observe", "done"} => (slot[r].model # "" <=> Recorded(r))

RecordInv == \A r \in Requests : RecordOf(r)

\* Whether a request is recorded is settled by its checks, its status and
\* whether it was served.
LEMMA RecordedFixed ==
  ASSUME UNCHANGED <<config, req>>, NEW r \in Requests,
         status'[r] = status[r], apiKey'[r] = apiKey[r]
  PROVE  Recorded(r)' <=> Recorded(r)
<1>1. Refusal(req[r])' = Refusal(req[r]) /\ (Served(r)' <=> Served(r))
  BY ConfigFixed DEF Served
<1> QED
  BY <1>1 DEF Recorded

\* Another request's step leaves the slot of a request alone.
LEMMA OtherRecordsKept ==
  ASSUME RecordInv, UNCHANGED <<config, req>>, NEW r \in Requests,
         pc'[r] = pc[r], status'[r] = status[r], slot'[r] = slot[r], apiKey'[r] = apiKey[r]
  PROVE  RecordOf(r)'
BY RecordedFixed DEF RecordInv, RecordOf

\* The checks of a request leave its slot empty, and a denial or a refusal ends
\* it unrecorded.
LEMMA ChecksKeepRecords ==
  ASSUME PipelineInv, RecordInv, NEW r \in Requests,
         Arrive(r) \/ CheckGlobal(r) \/ Vet(r) \/ CheckModel(r) \/ CheckStream(r)
  PROVE  RecordInv'
<1>0. /\ TypeOK /\ StepOf(r) /\ RecordOf(r) /\ req[r] \in Input
      /\ pc \in [Requests -> Steps] /\ status \in [Requests -> Codes \cup {0}]
  BY StepFacts, RequestTyped, PipelineAssumption DEF RecordInv
<1>1. /\ UNCHANGED <<config, req, slot, apiKey>>
      /\ pc[r] \in {"arriving", "global", "vetting", "model", "stream"}
      /\ slot[r].model = "" /\ status[r] = 0 /\ ~Served(r)
  BY <1>0 DEF Arrive, CheckGlobal, Vet, CheckModel, CheckStream, StepOf, RecordOf
<1>2. /\ pc'[r] \in {"global", "vetting"} => req[r].route # "preflight"
      /\ pc'[r] \in {"model", "stream", "resolving"} => req[r].route \in {"generate", "stream"}
      /\ pc'[r] # "generating"
      /\ pc'[r] \in {"observe", "done"} =>
           \/ req[r].route \notin {"generate", "stream"}
           \/ Refusal(req[r]) # 0
           \/ status'[r] = 429
      /\ \A q \in Requests \ {r} : pc'[q] = pc[q] /\ status'[q] = status[q]
  <2>1. CASE Arrive(r)
    <3>1. \/ pc' = [pc EXCEPT ![r] = "done"] /\ status' = [status EXCEPT ![r] = 204]
             /\ req[r].route = "preflight"
          \/ pc' = [pc EXCEPT ![r] = "global"] /\ status' = [status EXCEPT ![r] = 0]
             /\ req[r].route # "preflight"
      BY <2>1, <1>0, <1>1 DEF Arrive, Answer, Advance
    <3> QED
      BY <3>1, <1>0
  <2>2. ASSUME NEW tag, NEW next, NEW denied \in {"observe", "done"},
               Allow(r, tag, next, denied) \/ Skip(r, next)
        PROVE  /\ \/ pc'[r] \in {pc[r], next}
                  \/ pc'[r] = denied /\ status'[r] = 429
               /\ \A q \in Requests \ {r} : pc'[q] = pc[q] /\ status'[q] = status[q]
    <3>1. CASE pc' = pc /\ status' = status
      BY <3>1
    <3>2. CASE pc' = [pc EXCEPT ![r] = next] /\ status' = status
      BY <3>2, <1>0
    <3>3. CASE pc' = [pc EXCEPT ![r] = denied] /\ Answer(r, 429)
      BY <3>3, <1>0, <1>1 DEF Answer
    <3> QED
      BY <2>2, <3>1, <3>2, <3>3 DEF Allow, Ask, LoseReply, Skip, Advance, AfterDenial
  <2>4. CASE CheckGlobal(r)
    <3>1. /\ Allow(r, Global, "vetting", "done") \/ Skip(r, "vetting")
          /\ pc[r] = "global" /\ req[r].route # "preflight"
      BY <2>4, <1>0 DEF CheckGlobal, RecordOf
    <3>2. /\ \/ pc'[r] \in {"global", "vetting"}
             \/ pc'[r] = "done" /\ status'[r] = 429
          /\ \A q \in Requests \ {r} : pc'[q] = pc[q] /\ status'[q] = status[q]
      BY <2>2, <3>1
    <3> QED
      BY <3>1, <3>2
  <2>5. CASE Vet(r)
    <3>1. /\ pc[r] = "vetting" /\ req[r].route # "preflight"
          /\ \/ /\ req[r].route = "other" /\ pc' = [pc EXCEPT ![r] = "observe"]
                /\ \E code \in {200, 404, 405} : status' = [status EXCEPT ![r] = code]
             \/ /\ Refusal(req[r]) # 0 /\ pc' = [pc EXCEPT ![r] = "observe"]
                /\ status' = [status EXCEPT ![r] = Refusal(req[r])]
             \/ /\ req[r].route # "other" /\ pc' = [pc EXCEPT ![r] = "model"]
                /\ status' = status
      <4>1. /\ pc[r] = "vetting" /\ req[r].route # "preflight"
            /\ \A code : Answer(r, code) => status' = [status EXCEPT ![r] = code]
        BY <2>5, <1>0, <1>1 DEF Vet, Answer, RecordOf
      <4> QED
        BY <4>1, <2>5 DEF Vet, Advance
    <3>2. req[r].route \notin {"other", "preflight"} => req[r].route \in {"generate", "stream"}
      BY <1>0 DEF Input
    <3>3. /\ pc'[r] \in {"model", "observe"} /\ \A q \in Requests \ {r} : pc'[q] = pc[q]
          /\ pc'[r] = "model" => req[r].route # "other"
          /\ pc'[r] = "observe" => req[r].route = "other" \/ Refusal(req[r]) # 0
      BY <3>1, <1>0
    <3>4. \A q \in Requests \ {r} : status'[q] = status[q]
      <4>1. status' = status \/ \E code : status' = [status EXCEPT ![r] = code]
        BY <3>1
      <4> QED
        BY <4>1, <1>0
    <3> QED
      BY <3>1, <3>2, <3>3, <3>4
  <2>6. CASE CheckModel(r)
    <3>1. PICK next \in {"stream", "resolving"} :
            Allow(r, ModelTag(config, req[r].model), next, "observe") \/ Skip(r, next)
      BY <2>6 DEF CheckModel
    <3>2. pc[r] = "model" /\ req[r].route \in {"generate", "stream"}
      BY <2>6, <1>0 DEF CheckModel, RecordOf
    <3>3. /\ \/ pc'[r] \in {"model", next}
             \/ pc'[r] = "observe" /\ status'[r] = 429
          /\ \A q \in Requests \ {r} : pc'[q] = pc[q] /\ status'[q] = status[q]
      BY <2>2, <3>1, <3>2
    <3>4. next \notin {"global", "vetting", "generating", "observe", "done"}
      OBVIOUS
    <3> QED
      BY <3>2, <3>3, <3>4
  <2>7. CASE CheckStream(r)
    <3>1. /\ Allow(r, Stream, "resolving", "observe") \/ Skip(r, "resolving")
          /\ pc[r] = "stream" /\ req[r].route \in {"generate", "stream"}
      BY <2>7, <1>0 DEF CheckStream, RecordOf
    <3>2. /\ \/ pc'[r] \in {"stream", "resolving"}
             \/ pc'[r] = "observe" /\ status'[r] = 429
          /\ \A q \in Requests \ {r} : pc'[q] = pc[q] /\ status'[q] = status[q]
      BY <2>2, <3>1
    <3> QED
      BY <3>1, <3>2
  <2> QED
    BY <2>1, <2>4, <2>5, <2>6, <2>7
<1>3. Recorded(r)' => req[r].route \in {"generate", "stream"} /\ Refusal(req[r]) = 0 /\ status'[r] # 429
  <2>1. Refusal(req[r])' = Refusal(req[r]) /\ ~Served(r)'
    BY <1>1, ConfigFixed DEF Served
  <2> QED
    BY <2>1, <1>1 DEF Recorded
<1>4. RecordOf(r)'
  BY <1>0, <1>1, <1>2, <1>3 DEF RecordOf
<1>5. ASSUME NEW q \in Requests \ {r} PROVE RecordOf(q)'
  <2>1. pc'[q] = pc[q] /\ status'[q] = status[q]
    BY <1>0, <1>2
  <2>2. slot'[q] = slot[q] /\ apiKey'[q] = apiKey[q]
    BY <1>1
  <2> QED
    BY <2>1, <2>2, <1>1, OtherRecordsKept
<1> QED
  BY <1>4, <1>5 DEF RecordInv

\* Resolve fills the slot, and whatever it or the generator answers is recorded:
\* a 429 from there is the provider's.
LEMMA GenerationKeepsRecords ==
  ASSUME PipelineInv, PipelineInv', RecordInv, NEW r \in Requests,
         Resolve(r) \/ Succeed(r) \/ Fail(r) \/ Panic(r)
  PROVE  RecordInv'
<1>0. /\ StepOf(r) /\ StepOf(r)' /\ RecordOf(r) /\ "" \notin Models /\ req[r].model \in Models
      /\ pc \in [Requests -> Steps] /\ status \in [Requests -> Codes \cup {0}]
      /\ slot \in [Requests -> SlotType] /\ DOMAIN apiKey = Requests
  BY StepFacts, RequestTyped, PipelineAssumption DEF RecordInv, PipelineInv, StepInv
<1>1. /\ UNCHANGED <<config, req>> /\ pc[r] \in {"resolving", "generating"}
      /\ req[r].route \in {"generate", "stream"} /\ Refusal(req[r]) = 0
  BY <1>0 DEF Resolve, Succeed, Fail, Panic, StepOf, RecordOf
<1>2. slot'[r].model = req[r].model /\ \A q \in Requests \ {r} : slot'[q] = slot[q]
  <2>1. CASE Resolve(r)
    <3>1. slot' = [slot EXCEPT ![r].model = req[r].model]
      BY <2>1 DEF Resolve
    <3> QED
      BY <3>1, <1>0, SlotModelWritten
  <2>2. ASSUME Succeed(r) \/ Fail(r) \/ Panic(r)
        PROVE  slot'[r].model = req[r].model /\ \A q \in Requests \ {r} : slot'[q] = slot[q]
    <3>1. slot[r].model = req[r].model
      BY <2>2, <1>0 DEF Succeed, Fail, Panic, StepOf
    <3>2. slot' = slot \/ \E reported \in BOOLEAN : slot' = [slot EXCEPT ![r].usage = reported]
      BY <2>2 DEF Succeed, Fail, Panic
    <3> QED
      BY <3>1, <3>2, <1>0, SlotUsageWritten
  <2> QED
    BY <2>1, <2>2
<1>3. PICK next : pc' = [pc EXCEPT ![r] = next] /\ next \in {"generating", "observe", "done"}
  BY DEF Resolve, Succeed, Fail, Panic, Advance
<1>4. /\ \A q \in Requests \ {r} :
           pc'[q] = pc[q] /\ status'[q] = status[q] /\ apiKey'[q] = apiKey[q]
      /\ Resolve(r) => status'[r] \in {0, 403, 500}
      /\ Served(r) => Served(r)'
  <2>1. \A code : Answer(r, code) =>
          /\ \A q \in Requests \ {r} : status'[q] = status[q]
          /\ status'[r] = code
    BY <1>0, <1>1 DEF Answer, StepOf
  <2>2. /\ \A q \in Requests \ {r} : status'[q] = status[q]
        /\ Resolve(r) => status'[r] \in {0, 403, 500}
    <3>1. CASE Resolve(r)
      <4>1. status[r] = 0 /\ (Answer(r, 403) \/ Answer(r, 500) \/ status' = status)
        BY <3>1, <1>0 DEF Resolve, StepOf
      <4> QED
        BY <4>1, <2>1
    <3>2. CASE (Succeed(r) \/ Fail(r) \/ Panic(r)) /\ ~Resolve(r)
      <4>1. \E code : Answer(r, code)
        BY <3>2 DEF Succeed, Fail, Panic
      <4> QED
        BY <3>2, <4>1, <2>1
    <3> QED
      BY <3>1, <3>2
  <2>3. /\ \A q \in Requests \ {r} : apiKey'[q] = apiKey[q]
        /\ Served(r) => Served(r)'
    <3>1. CASE Resolve(r)
      <4>1. ~Served(r)
        BY <3>1, <1>0 DEF Resolve, StepOf
      <4> QED
        BY <4>1, <3>1, <1>0 DEF Resolve
    <3>2. CASE apiKey' = apiKey
      BY <3>2 DEF Served
    <3> QED
      BY <3>1, <3>2 DEF Succeed, Fail, Panic
  <2>4. \A q \in Requests \ {r} : pc'[q] = pc[q]
    BY <1>0, <1>3
  <2> QED
    BY <2>2, <2>3, <2>4
<1>5. Recorded(r)'
  <2>1. Refusal(req[r])' = 0
    BY <1>1, ConfigFixed
  <2>2. ~(status'[r] = 429 /\ ~Served(r)')
    <3>1. ~Resolve(r) => Served(r)
      BY <1>0 DEF Succeed, Fail, Panic, StepOf
    <3> QED
      BY <3>1, <1>4
  <2> QED
    BY <2>1, <2>2, <1>1 DEF Recorded
<1>6. RecordOf(r)'
  BY <1>0, <1>1, <1>2, <1>3, <1>5 DEF RecordOf
<1>7. ASSUME NEW q \in Requests \ {r} PROVE RecordOf(q)'
  <2>1. /\ pc'[q] = pc[q] /\ status'[q] = status[q]
        /\ slot'[q] = slot[q] /\ apiKey'[q] = apiKey[q]
    BY <1>2, <1>4
  <2> QED
    BY <2>1, <1>1, OtherRecordsKept
<1> QED
  BY <1>6, <1>7 DEF RecordInv

\* Where neither status, slot nor key change, a request stays recorded or not.
LEMMA RestKeepsRecords ==
  ASSUME PipelineInv, RecordInv,
         (\E r \in Requests : Observe(r)) \/ NextWindow \/ UNCHANGED vars
  PROVE  RecordInv'
<1>1. UNCHANGED <<config, req, status, slot, apiKey>>
  BY DEF Observe, NextWindow, vars
<1>2. CASE pc' = pc
  BY <1>1, <1>2, OtherRecordsKept DEF RecordInv
<1>3. ASSUME NEW r \in Requests, Observe(r) PROVE RecordInv'
  <2>1. /\ pc[r] = "observe" /\ pc' = [pc EXCEPT ![r] = "done"]
        /\ pc \in [Requests -> Steps] /\ RecordOf(r)
    BY <1>3, StepFacts, RequestTyped DEF Observe, Advance, RecordInv
  <2>2. RecordOf(r)'
    <3>1. Recorded(r)' <=> Recorded(r)
      BY <1>1, RecordedFixed
    <3>2. pc'[r] = "done"
      BY <2>1
    <3> QED
      BY <3>1, <3>2, <2>1, <1>1 DEF RecordOf
  <2>3. ASSUME NEW q \in Requests \ {r} PROVE RecordOf(q)'
    <3>1. pc'[q] = pc[q]
      BY <2>1
    <3> QED
      BY <3>1, <1>1, OtherRecordsKept
  <2> QED
    BY <2>2, <2>3 DEF RecordInv
<1> QED
  BY <1>2, <1>3 DEF NextWindow, vars

\* The slot tells which requests got past their checks and limits, always.
THEOREM RecordInvariance == Spec => []RecordInv
<1>1. Init => RecordInv
  <2> SUFFICES ASSUME Init, NEW r \in Requests PROVE RecordOf(r)
    BY DEF RecordInv
  <2>1. pc[r] = "arriving" /\ slot[r].model = ""
    BY DEF Init
  <2> QED
    BY <2>1 DEF RecordOf
<1>2. PipelineInv /\ PipelineInv' /\ RecordInv /\ [Next]_vars => RecordInv'
  <2> SUFFICES ASSUME PipelineInv, PipelineInv', RecordInv, [Next]_vars PROVE RecordInv'
    OBVIOUS
  <2>1. ASSUME NEW r \in Requests,
               Arrive(r) \/ CheckGlobal(r) \/ Vet(r) \/ CheckModel(r) \/ CheckStream(r)
        PROVE  RecordInv'
    BY <2>1, ChecksKeepRecords
  <2>2. ASSUME NEW r \in Requests, Resolve(r) \/ Succeed(r) \/ Fail(r) \/ Panic(r)
        PROVE  RecordInv'
    BY <2>2, GenerationKeepsRecords
  <2>3. CASE (\E r \in Requests : Observe(r)) \/ NextWindow \/ UNCHANGED vars
    BY <2>3, RestKeepsRecords
  <2> QED
    BY <2>1, <2>2, <2>3 DEF Next, Terminated
<1> QED
  BY <1>1, <1>2, PipelineInvariance, PTL DEF Spec

-----------------------------------------------------------------------------
(* Who is answered without being logged                                    *)

OutsideInv == \A r \in Requests : pc[r] = "done" => r \in logged \/ AnsweredOutside(r)

\* Until it is observed a request's step moves nobody else and logs nothing.
LEMMA OthersStay ==
  ASSUME PipelineInv, NEW r \in Requests,
         \/ Arrive(r) \/ CheckGlobal(r) \/ Vet(r) \/ CheckModel(r) \/ CheckStream(r)
         \/ Resolve(r) \/ Succeed(r) \/ Fail(r) \/ Panic(r)
  PROVE  /\ UNCHANGED <<req, logged>>
         /\ \A q \in Requests \ {r} :
              /\ pc'[q] = pc[q] /\ status'[q] = status[q]
              /\ apiKey'[q] = apiKey[q] /\ charges'[q] = charges[q]
<1>0. /\ DOMAIN pc = Requests /\ DOMAIN status = Requests
      /\ DOMAIN apiKey = Requests /\ DOMAIN charges = Requests
  BY DEF PipelineInv, TypeOK, ChargeInv
<1>1. UNCHANGED <<req, logged>>
  BY DEF Arrive, CheckGlobal, Vet, CheckModel, CheckStream, Resolve, Succeed, Fail, Panic
<1>2. pc' = pc \/ \E step : pc' = [pc EXCEPT ![r] = step]
  BY DEF Arrive, CheckGlobal, Vet, CheckModel, CheckStream, Resolve, Succeed, Fail, Panic,
         Allow, Ask, LoseReply, Skip, AfterDenial, Advance
<1>3. status' = status \/ \E code : status' = [status EXCEPT ![r] = code]
  BY DEF Arrive, CheckGlobal, Vet, CheckModel, CheckStream, Resolve, Succeed, Fail, Panic,
         Allow, Ask, LoseReply, Skip, Answer
<1>4. apiKey' = apiKey \/ \E key : apiKey' = [apiKey EXCEPT ![r] = key]
  BY DEF Arrive, CheckGlobal, Vet, CheckModel, CheckStream, Resolve, Succeed, Fail, Panic
<1>5. charges' = charges \/ \E C : charges' = [charges EXCEPT ![r] = C]
  BY DEF Arrive, CheckGlobal, Vet, CheckModel, CheckStream, Resolve, Succeed, Fail, Panic,
         Allow, Ask, LoseReply, Skip
<1> QED
  BY <1>0, <1>1, <1>2, <1>3, <1>4, <1>5

\* The three that end a request unobserved are those AnsweredOutside names.
LEMMA EndsOutside ==
  ASSUME PipelineInv, RecordInv, NEW r \in Requests, pc'[r] = "done",
         \/ Arrive(r) \/ CheckGlobal(r) \/ Vet(r) \/ CheckModel(r) \/ CheckStream(r)
         \/ Resolve(r) \/ Succeed(r) \/ Fail(r) \/ Panic(r)
  PROVE  AnsweredOutside(r)'
<1>0. /\ TypeOK /\ StepOf(r) /\ DOMAIN charges = Requests /\ pc \in [Requests -> Steps]
      /\ status \in [Requests -> Codes \cup {0}]
  BY StepFacts, RequestTyped
<1>1. CASE Arrive(r)
  <2>1. req[r].route = "preflight" /\ req' = req
    BY <1>0, <1>1 DEF Arrive, Advance
  <2> QED
    BY <2>1 DEF AnsweredOutside
<1>2. CASE CheckGlobal(r)
  <2>1. /\ pc[r] = "global" /\ status[r] = 0 /\ ~Served(r) /\ charges[r] = {}
        /\ apiKey' = apiKey
    <3>1. pc[r] = "global" /\ apiKey' = apiKey
      BY <1>2 DEF CheckGlobal
    <3>2. status[r] = 0 /\ ~Served(r) /\ TagsOf(r) = {}
      BY <1>0, <3>1 DEF StepOf
    <3>3. \A c \in charges[r] : c.tag \in TagsOf(r)
      BY DEF TagsOf
    <3> QED
      BY <3>1, <3>2, <3>3
  <2>2. PICK k \in {Key(req[r].token, Global)} :
          \E replied, isCounted \in BOOLEAN :
            /\ charges' = [charges EXCEPT ![r] = @ \cup
                 {[tag |-> Global, key |-> k, window |-> window, replied |-> replied,
                   counted |-> isCounted]}]
            /\ Answer(r, 429)
    BY <1>0, <1>2, <2>1 DEF CheckGlobal, Allow, Ask, LoseReply, Skip, Advance, AfterDenial
  <2>3. status'[r] = 429
    BY <1>0, <2>1, <2>2 DEF Answer
  <2>4. \A c \in charges'[r] : c.tag = Global
    BY <1>0, <2>1, <2>2
  <2>5. ~Served(r)'
    BY <2>1 DEF Served
  <2> QED
    BY <2>3, <2>4, <2>5 DEF AnsweredOutside
<1>3. CASE Panic(r)
  <2>1. /\ status[r] = 0 /\ Served(r) /\ apiKey' = apiKey
    BY <1>0, <1>3 DEF Panic, StepOf
  <2>2. PICK code \in {200, 500} : Answer(r, code)
    BY <1>3 DEF Panic
  <2>3. status'[r] = code
    BY <1>0, <2>1, <2>2 DEF Answer
  <2> QED
    BY <2>1, <2>2, <2>3 DEF AnsweredOutside, Served
<1>4. CASE Vet(r) \/ CheckModel(r) \/ CheckStream(r) \/ Resolve(r) \/ Succeed(r) \/ Fail(r)
  <2>1. pc[r] # "done"
    BY <1>4 DEF Vet, CheckModel, CheckStream, Resolve, Succeed, Fail
  <2>2. \/ pc' = pc
        \/ \E step \in Steps \ {"done"} : pc' = [pc EXCEPT ![r] = step]
    BY <1>4 DEF Vet, CheckModel, CheckStream, Resolve, Succeed, Fail,
                Allow, Ask, LoseReply, Skip, AfterDenial, Advance, Steps
  <2> QED
    BY <1>0, <2>1, <2>2
<1> QED
  BY <1>1, <1>2, <1>3, <1>4

\* Who is done was logged, or answered outside of what logs.
THEOREM OutsideInvariance == Spec => []OutsideInv
<1>1. Init => OutsideInv
  BY DEF Init, OutsideInv
<1>2. PipelineInv /\ RecordInv /\ OutsideInv /\ [Next]_vars => OutsideInv'
  <2> SUFFICES ASSUME PipelineInv, RecordInv, OutsideInv, [Next]_vars,
                      NEW q \in Requests, pc'[q] = "done", q \notin logged'
               PROVE  AnsweredOutside(q)'
    BY DEF OutsideInv
  <2>1. ASSUME pc'[q] = pc[q], status'[q] = status[q], apiKey'[q] = apiKey[q],
               charges'[q] = charges[q], req' = req, logged \subseteq logged'
        PROVE  AnsweredOutside(q)'
    BY <2>1 DEF OutsideInv, AnsweredOutside, Served
  <2>2. ASSUME NEW r \in Requests,
               \/ Arrive(r) \/ CheckGlobal(r) \/ Vet(r) \/ CheckModel(r) \/ CheckStream(r)
               \/ Resolve(r) \/ Succeed(r) \/ Fail(r) \/ Panic(r)
        PROVE  AnsweredOutside(q)'
    <3>1. CASE q = r
      BY <2>2, <3>1, EndsOutside
    <3>2. CASE q # r
      BY <2>2, <3>2, <2>1, OthersStay
    <3> QED
      BY <3>1, <3>2
  <2>3. ASSUME NEW r \in Requests, Observe(r) PROVE AnsweredOutside(q)'
    <3>1. /\ UNCHANGED <<req, status, apiKey, charges>> /\ logged' = logged \cup {r}
          /\ pc' = [pc EXCEPT ![r] = "done"] /\ DOMAIN pc = Requests
      BY <2>3 DEF Observe, LogRequest, Advance, PipelineInv, TypeOK
    <3>2. q # r /\ pc'[q] = pc[q]
      BY <3>1
    <3> QED
      BY <3>1, <3>2, <2>1
  <2>4. CASE NextWindow \/ UNCHANGED vars
    BY <2>4, <2>1 DEF NextWindow, vars
  <2> QED
    BY <2>2, <2>3, <2>4 DEF Next, Terminated
<1> QED
  BY <1>1, <1>2, PipelineInvariance, RecordInvariance, PTL DEF Spec

\* The counters are those of the access log: each line is counted once under
\* its status and, unless a check or a limit stopped the request, its provider,
\* and tokens only for answers of 200; and it lacks only whom CORS, the global
\* limit or a panic answered.
THEOREM MetricsAgree == Spec => []MetricsMatchAnswers
<1>1. PipelineInv /\ RecordInv /\ OutsideInv => MetricsMatchAnswers
  <2> SUFFICES ASSUME PipelineInv, RecordInv, OutsideInv PROVE MetricsMatchAnswers
    OBVIOUS
  <2>0. TypeOK /\ StepInv /\ MetricsInv /\ logged \subseteq Requests /\ "" \notin Models
    BY PipelineAssumption DEF PipelineInv, TypeOK
  <2>1. \A r \in logged :
          ProviderLabel(r) = IF Recorded(r) THEN ProviderOf[req[r].model] ELSE ""
    <3> SUFFICES ASSUME NEW r \in logged
                 PROVE  ProviderLabel(r) =
                          IF Recorded(r) THEN ProviderOf[req[r].model] ELSE ""
      OBVIOUS
    <3>1. slot[r].model \in {"", req[r].model} /\ req[r].model \in Models
      BY <2>0, RequestTyped DEF StepInv, StepOf
    <3>2. slot[r].model # "" <=> Recorded(r)
      BY <2>0 DEF RecordInv, RecordOf, MetricsInv
    <3> QED
      BY <3>1, <3>2, <2>0 DEF ProviderLabel
  <2>2. ASSUME NEW l \in DOMAIN counted
        PROVE  counted[l] = Cardinality(
                 {r \in logged : status[r] = l[1] /\
                    l[2] = IF Recorded(r) THEN ProviderOf[req[r].model] ELSE ""})
    <3>1. LoggedAs(l) =
            {r \in logged : status[r] = l[1] /\
               l[2] = IF Recorded(r) THEN ProviderOf[req[r].model] ELSE ""}
      BY <2>1 DEF LoggedAs
    <3> QED
      BY <3>1, <2>0, <2>2 DEF MetricsInv
  <2>3. \A r \in logged : \E l \in DOMAIN counted : l[1] = status[r]
    <3>1. \A r \in logged : <<status[r], ProviderLabel(r)>> \in DOMAIN counted
      BY <2>0 DEF MetricsInv
    <3> QED
      BY <3>1
  <2>4. \A p \in Providers : tokens[p] <= Cardinality(
          {r \in logged : Served(r) /\ status[r] = 200 /\ ProviderOf[req[r].model] = p})
    BY <2>0 DEF MetricsInv, LoggedServed
  <2> QED
    BY <2>2, <2>3, <2>4 DEF MetricsMatchAnswers, OutsideInv
<1> QED
  BY <1>1, PipelineInvariance, RecordInvariance, OutsideInvariance, PTL

=============================================================================
