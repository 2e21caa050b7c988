--------------------------- MODULE GenerationProofs ---------------------------
(***************************************************************************)
(* Proofs about Generation: in every execution, for every number of        *)
(* attempts, timeout and backoff, the response is well formed, comes from  *)
(* one attempt, is complete when it says so, is always there, and takes no *)
(* longer than its attempts, its backoffs and its client's reading.        *)
(* While the request runs, what has been written is described exactly by   *)
(* WireInv; the last write of the handler turns it into the properties.    *)
(***************************************************************************)
EXTENDS Generation, TLAPS, WellFoundedInduction

-----------------------------------------------------------------------------
(* The inductive invariant                                                 *)

\* What is known of the last error and of the attempt at each stage.
StageInv ==
  /\ pc \in {"awaiting", "building", "generating", "writing", "succeeded"} => error = "none"
  /\ pc \in {"failed", "errored", "backoff"} => error \in Errors
  /\ pc \in {"attempt", "awaiting", "building", "backoff"} => ~chunkSent
  /\ pc = "backoff" => attempt < MaxAttempts - 1
  /\ pc = "writing" => started

\* Before the handler's last write: nothing, or the headers and the deltas of
\* the present attempt, all of them but one whose write failed or is under way.
WireInv ==
  /\ started = chunkSent
  /\ ~started => wire = <<>> /\ produced = 0
  /\ started =>
       /\ stream
       /\ wire[1] = <<"sse">>
       /\ \A i \in 2..Len(wire) : wire[i] = <<"chunk", attempt>>
       /\ IF error = "write" \/ pc = "writing"
            THEN Len(wire) >= 1 /\ Len(wire) = produced
            ELSE Len(wire) = produced + 1

Answer ==
  OneAttemptOnTheWire /\ ResponseWellFormed /\ DoneMeansComplete /\ AnsweredUnlessPanicked

GenerationInv ==
  /\ TypeOK
  /\ StageInv
  /\ pc # "done" => WireInv
  /\ pc = "done" => Answer

-----------------------------------------------------------------------------
(* Errors and events                                                       *)

LEMMA CategoryRange ==
  ASSUME NEW e \in Errors
  PROVE  Category[e] \in DOMAIN StatusOf
BY DEF Errors, CacheErrors, ProviderErrors, Category, StatusOf

LEMMA StatusRange ==
  ASSUME NEW c \in DOMAIN StatusOf
  PROVE  StatusOf[c] \in {401, 403, 404, 429, 502, 504}
BY DEF StatusOf

LEMMA ErrorAnswerTyped ==
  ASSUME error \in Errors
  PROVE  /\ <<"error", Category[error]>> \in Events
         /\ <<"json", StatusOf[Category[error]]>> \in Events
         /\ StatusOf[Category[error]] # 200
<1>1. StatusOf[Category[error]] \in {401, 403, 404, 429, 502, 504}
  BY CategoryRange, StatusRange
<1> QED
  BY <1>1 DEF Events

-----------------------------------------------------------------------------
(* While the request runs the answer's properties follow from WireInv      *)

LEMMA RunningAnswer ==
  ASSUME TypeOK, WireInv, pc # "done"
  PROVE  Answer
<1>1. CASE ~started
  BY <1>1 DEF WireInv, Answer, OneAttemptOnTheWire, ChunksWritten, ResponseWellFormed,
     DoneMeansComplete, AnsweredUnlessPanicked
<1>2. CASE started
  <2>1. /\ wire \in Seq(Events)
        /\ wire[1] = <<"sse">>
        /\ \A i \in 2..Len(wire) : wire[i] = <<"chunk", attempt>>
    BY <1>2 DEF WireInv, TypeOK
  <2>2. \A i \in DOMAIN wire : i = 1 \/ i \in 2..Len(wire)
    BY <2>1
  <2>3. OneAttemptOnTheWire
    BY <2>1, <2>2 DEF OneAttemptOnTheWire, ChunksWritten
  <2>4. ResponseWellFormed
    BY <2>1, <2>2 DEF ResponseWellFormed
  <2>5. DoneMeansComplete
    BY <2>1, <2>2 DEF DoneMeansComplete
  <2> QED
    BY <2>3, <2>4, <2>5 DEF Answer, AnsweredUnlessPanicked
<1> QED
  BY <1>1, <1>2

-----------------------------------------------------------------------------
(* Steps that write nothing                                                *)

LEMMA StartAttemptPreserves ==
  ASSUME GenerationInv, StartAttempt
  PROVE  GenerationInv'
<1>0. pc' \in {"awaiting", "building"}
  <2>1. CASE cached
    BY <2>1 DEF StartAttempt
  <2>2. CASE ~cached
    BY <2>2 DEF StartAttempt
  <2> QED
    BY <2>1, <2>2
<1>1. TypeOK'
  <2>1. due' \in Nat
    BY GenerationAssumption DEF GenerationInv, TypeOK, StartAttempt, Deadline
  <2>2. pc' \in States
    BY <1>0 DEF States
  <2>3. produced' \in 0..MaxChunks
    BY GenerationAssumption DEF StartAttempt
  <2> QED
    BY <2>1, <2>2, <2>3 DEF GenerationInv, TypeOK, StartAttempt
<1>2. StageInv'
  BY <1>0 DEF StageInv, StartAttempt
<1>3. WireInv' /\ pc' # "done"
  <2>1. ~started /\ wire = <<>>
    BY DEF GenerationInv, StageInv, WireInv, StartAttempt
  <2>2. started' = started /\ wire' = wire /\ chunkSent' = FALSE /\ produced' = 0
    BY DEF StartAttempt
  <2>3. started' = chunkSent' /\ ~started'
    BY <2>1, <2>2 DEF GenerationInv, TypeOK
  <2> QED
    BY <1>0, <2>1, <2>2, <2>3 DEF WireInv
<1> QED
  BY <1>1, <1>2, <1>3 DEF GenerationInv

LEMMA MeetClosedCachePreserves ==
  ASSUME GenerationInv, MeetClosedCache
  PROVE  GenerationInv'
<1>1. TypeOK'
  <2>1. due' \in Nat
    BY GenerationAssumption DEF GenerationInv, TypeOK, MeetClosedCache, Deadline
  <2>2. produced' \in 0..MaxChunks
    BY GenerationAssumption DEF MeetClosedCache
  <2> QED
    BY <2>1, <2>2 DEF GenerationInv, TypeOK, MeetClosedCache, States, Errors, CacheErrors
<1>2. StageInv'
  BY DEF StageInv, MeetClosedCache, Errors, CacheErrors
<1>3. WireInv' /\ pc' # "done"
  <2>1. ~started /\ wire = <<>>
    BY DEF GenerationInv, StageInv, WireInv, MeetClosedCache
  <2>2. started' = started /\ wire' = wire /\ chunkSent' = FALSE /\ produced' = 0
    BY DEF MeetClosedCache
  <2>3. started' = chunkSent' /\ ~started'
    BY <2>1, <2>2 DEF GenerationInv, TypeOK
  <2> QED
    BY <2>1, <2>2, <2>3 DEF WireInv, MeetClosedCache
<1> QED
  BY <1>1, <1>2, <1>3 DEF GenerationInv

\* A step of the loop, or the instance or the end of the provider's answer.
LEMMA QuietPreserves ==
  ASSUME GenerationInv, Acquired \/ Completed \/ GiveUp \/ BackOff
  PROVE  GenerationInv'
<1> USE GenerationAssumption
<1>1. TypeOK'
  <2>1. \A d \in Delays(attempt) : d \in Nat
    BY DEF Delays
  <2>2. CASE BackOff
    <3>1. due' \in Nat
      BY <2>1, <2>2 DEF BackOff, GenerationInv, TypeOK
    <3> QED
      BY <2>2, <3>1 DEF BackOff, GenerationInv, TypeOK, States
  <2> QED
    BY <2>2 DEF GenerationInv, TypeOK, States, Acquired, Completed, GiveUp
<1>2. StageInv'
  BY DEF GenerationInv, TypeOK, StageInv, Acquired, Completed, GiveUp, BackOff, MayRetry
<1>3. WireInv' /\ pc' # "done"
  BY DEF GenerationInv, WireInv, Acquired, Completed, GiveUp, BackOff
<1> QED
  BY <1>1, <1>2, <1>3 DEF GenerationInv

LEMMA RetryPreserves ==
  ASSUME GenerationInv, Retry
  PROVE  GenerationInv'
<1> USE GenerationAssumption
<1>1. TypeOK'
  BY DEF GenerationInv, TypeOK, StageInv, Retry, States
<1>2. StageInv'
  BY DEF GenerationInv, StageInv, Retry
<1>3. WireInv' /\ pc' # "done"
  BY DEF GenerationInv, StageInv, WireInv, Retry
<1> QED
  BY <1>1, <1>2, <1>3 DEF GenerationInv

\* No error an attempt returns here is a failed write.
LEMMA AttemptFailsPreserves ==
  ASSUME GenerationInv, NEW e, AttemptFails(e)
  PROVE  GenerationInv'
<1>1. e \in Errors /\ e # "write" /\ error # "write"
  BY DEF GenerationInv, StageInv, AttemptFails, TimesOut, Errors, CacheErrors, ProviderErrors
<1>2. TypeOK'
  BY <1>1 DEF GenerationInv, TypeOK, AttemptFails, States
<1>3. StageInv'
  BY <1>1 DEF StageInv, AttemptFails
<1>4. WireInv' /\ pc' # "done"
  BY <1>1 DEF GenerationInv, WireInv, AttemptFails, TimesOut
<1> QED
  BY <1>2, <1>3, <1>4 DEF GenerationInv

LEMMA AbandonWaitPreserves ==
  ASSUME GenerationInv, AbandonWait
  PROVE  GenerationInv'
<1>1. TypeOK'
  BY DEF GenerationInv, TypeOK, AbandonWait, States, Errors
<1>2. StageInv'
  BY DEF StageInv, AbandonWait, Errors
<1>3. WireInv' /\ pc' # "done"
  BY DEF GenerationInv, StageInv, WireInv, AbandonWait
<1> QED
  BY <1>1, <1>2, <1>3 DEF GenerationInv

LEMMA EnvironmentPreserves ==
  ASSUME GenerationInv, Disconnect \/ Tick \/ UNCHANGED vars
  PROVE  GenerationInv'
<1>0. /\ stream' = stream /\ pc' = pc /\ attempt' = attempt /\ chunkSent' = chunkSent
      /\ produced' = produced /\ error' = error /\ started' = started /\ wire' = wire
  BY DEF Disconnect, Tick, TimePasses, WriteStalls, vars
<1>1. TypeOK'
  <2>1. clock' \in Nat /\ stalled' \in 0..MaxStall
    BY GenerationAssumption
       DEF GenerationInv, TypeOK, Disconnect, Tick, TimePasses, WriteStalls, vars
  <2>2. connected' \in BOOLEAN
    BY DEF GenerationInv, TypeOK, Disconnect, Tick, TimePasses, WriteStalls, vars
  <2> QED
    BY <2>1, <2>2 DEF GenerationInv, TypeOK, Disconnect, Tick, TimePasses, WriteStalls, vars
<1>2. StageInv'
  BY <1>0 DEF GenerationInv, StageInv
<1>3. (pc # "done" => WireInv)'
  BY <1>0 DEF GenerationInv, WireInv
<1>4. (pc = "done" => Answer)'
  BY <1>0 DEF GenerationInv, Answer, OneAttemptOnTheWire, ChunksWritten,
     ResponseWellFormed, DoneMeansComplete, AnsweredUnlessPanicked
<1> QED
  BY <1>1, <1>2, <1>3, <1>4 DEF GenerationInv

-----------------------------------------------------------------------------
(* Steps that write                                                        *)

LEMMA StartTyped ==
  ASSUME TypeOK, WireInv, pc # "writing"
  PROVE  /\ Start \in Seq(Events)
         /\ Start[1] = <<"sse">>
         /\ Len(Start) = IF error = "write" /\ started THEN produced ELSE produced + 1
         /\ Len(Start) >= 1
         /\ \A i \in 2..Len(Start) : Start[i] = <<"chunk", attempt>>
<1>1. CASE started
  BY <1>1 DEF Start, TypeOK, WireInv
<1>2. CASE ~started
  <2>1. wire = <<>> /\ produced = 0 /\ Start = <<<<"sse">>>>
    BY <1>2 DEF WireInv, Start
  <2>2. <<"sse">> \in Events
    BY DEF Events
  <2> QED
    BY <1>2, <2>1, <2>2
<1> QED
  BY <1>1, <1>2

\* The headers come before the first delta.
LEMMA HandDeltaPreserves ==
  ASSUME GenerationInv, HandDelta
  PROVE  GenerationInv'
<1>0. /\ TypeOK /\ WireInv /\ error = "none" /\ produced \in Nat
      /\ pc = "generating" /\ pc' = "writing" /\ error' = error /\ attempt' = attempt
  BY GenerationAssumption DEF GenerationInv, StageInv, TypeOK, HandDelta
<1>1. /\ wire' \in Seq(Events)
      /\ wire'[1] = <<"sse">>
      /\ Len(wire') = produced' /\ Len(wire') >= 1
      /\ \A i \in 2..Len(wire') : wire'[i] = <<"chunk", attempt>>
  BY <1>0, StartTyped DEF HandDelta
<1>2. TypeOK'
  <2>1. produced' \in 0..MaxChunks
    BY <1>0, GenerationAssumption DEF TypeOK, HandDelta
  <2> QED
    BY <1>0, <1>1, <2>1 DEF TypeOK, HandDelta, States
<1>3. StageInv'
  BY <1>0 DEF StageInv, HandDelta
<1>4. WireInv'
  BY <1>0, <1>1 DEF WireInv, HandDelta
<1> QED
  BY <1>0, <1>2, <1>3, <1>4 DEF GenerationInv

\* A delta goes behind the headers and the earlier deltas of its attempt.
LEMMA DeltaWrittenPreserves ==
  ASSUME GenerationInv, DeltaWritten
  PROVE  GenerationInv'
<1>0. /\ TypeOK /\ WireInv /\ error = "none" /\ started /\ produced \in Nat
      /\ pc = "writing" /\ pc' = "generating" /\ error' = error /\ attempt' = attempt
      /\ produced' = produced /\ started' = started /\ chunkSent' = chunkSent
      /\ stream' = stream
  BY GenerationAssumption DEF GenerationInv, StageInv, TypeOK, DeltaWritten
<1>1. <<"chunk", attempt>> \in Events
  BY <1>0 DEF TypeOK, Events
<1>2. /\ wire \in Seq(Events) /\ wire[1] = <<"sse">> /\ Len(wire) >= 1
      /\ Len(wire) = produced /\ \A i \in 2..Len(wire) : wire[i] = <<"chunk", attempt>>
  BY <1>0 DEF TypeOK, WireInv
<1> DEFINE event == <<"chunk", attempt>>
<1> HIDE DEF event
<1>3. wire' = Append(wire, event) /\ event \in Events
  BY <1>1 DEF DeltaWritten, event
<1>4. /\ wire' \in Seq(Events) /\ Len(wire') = Len(wire) + 1
      /\ \A i \in 1..Len(wire) : wire'[i] = wire[i]
      /\ wire'[Len(wire) + 1] = event
  BY <1>2, <1>3
<1>5. /\ wire' \in Seq(Events)
      /\ wire'[1] = <<"sse">>
      /\ Len(wire') = produced' + 1
      /\ \A i \in 2..Len(wire') : wire'[i] = <<"chunk", attempt>>
  <2>1. Len(wire') = produced' + 1 /\ wire'[1] = <<"sse">>
    BY <1>0, <1>2, <1>4
  <2>2. ASSUME NEW i \in 2..Len(wire') PROVE wire'[i] = event
    <3>1. CASE i = Len(wire) + 1
      BY <1>4, <3>1
    <3>2. CASE i # Len(wire) + 1
      <4>1. i \in 2..Len(wire) /\ i \in 1..Len(wire)
        BY <1>0, <1>2, <1>4, <3>2
      <4> QED
        BY <1>2, <1>4, <4>1 DEF event
    <3> QED
      BY <3>1, <3>2
  <2> QED
    BY <1>4, <2>1, <2>2 DEF event
<1>6. TypeOK'
  BY <1>0, <1>5 DEF TypeOK, DeltaWritten, States
<1>7. StageInv'
  BY <1>0 DEF StageInv
<1>8. WireInv'
  BY <1>0, <1>5 DEF WireInv
<1> QED
  BY <1>0, <1>6, <1>7, <1>8 DEF GenerationInv

\* Only the delta whose write failed is missing.
LEMMA DeltaLostPreserves ==
  ASSUME GenerationInv, DeltaLost
  PROVE  GenerationInv'
<1>0. /\ TypeOK /\ WireInv /\ started /\ pc = "writing" /\ pc' = "failed"
      /\ error' = "write" /\ attempt' = attempt /\ wire' = wire /\ produced' = produced
      /\ started' = started /\ chunkSent' = chunkSent /\ stream' = stream
  BY DEF GenerationInv, StageInv, DeltaLost, AfterLostDelta
<1>1. TypeOK'
  BY <1>0 DEF TypeOK, DeltaLost, States, Errors
<1>2. StageInv'
  BY <1>0 DEF StageInv, Errors
<1>3. WireInv'
  BY <1>0 DEF WireInv
<1> QED
  BY <1>0, <1>1, <1>2, <1>3 DEF GenerationInv

-----------------------------------------------------------------------------
(* The end of the response                                                 *)

\* A response that has begun, with one more event, is an answer.
LEMMA TerminalEvent ==
  ASSUME TypeOK', pc' = "done",
         NEW s \in Seq(Events), s[1] = <<"sse">>, Len(s) >= 1,
         \A i \in 2..Len(s) : s[i] = <<"chunk", attempt'>>,
         NEW event \in Events, event[1] \in {"done", "error"},
         wire' = Append(s, event),
         event = <<"done">> => Len(s) = produced' + 1
  PROVE  Answer'
<1>1. /\ Len(wire') = Len(s) + 1 /\ wire'[Len(wire')] = event
      /\ wire'[1] = <<"sse">> /\ DOMAIN wire' = 1..Len(wire')
      /\ \A i \in 2..Len(s) : wire'[i] = <<"chunk", attempt'>>
  OBVIOUS
<1>2. \A i \in DOMAIN wire' : i = 1 \/ i \in 2..Len(s) \/ i = Len(wire')
  BY <1>1
<1>3. OneAttemptOnTheWire'
  BY <1>1, <1>2 DEF OneAttemptOnTheWire, ChunksWritten
<1>4. ResponseWellFormed'
  BY <1>1, <1>2 DEF ResponseWellFormed
<1>5. DoneMeansComplete'
  <2>1. ASSUME <<"done">> \in {wire'[i] : i \in DOMAIN wire'}
        PROVE  \A n \in 1..produced' : wire'[n + 1] = <<"chunk", attempt'>>
    <3>1. event = <<"done">>
      <4>1. PICK i \in DOMAIN wire' : wire'[i] = <<"done">>
        BY <2>1
      <4>2. wire'[i][1] = "done"
        BY <4>1
      <4>3. i # 1
        BY <1>1, <4>2
      <4>4. i \notin 2..Len(s)
        <5>1. <<"chunk", attempt'>>[1] # "done"
          OBVIOUS
        <5> QED
          BY <1>1, <4>2, <5>1
      <4> QED
        BY <1>1, <1>2, <4>1, <4>3, <4>4
    <3>2. \A n \in 1..produced' : n + 1 \in 2..Len(s)
      BY <3>1 DEF TypeOK
    <3> QED
      BY <1>1, <3>2
  <2>2. <<"json", 200>> \notin {wire'[i] : i \in DOMAIN wire'}
    <3>1. \A i \in DOMAIN wire' : wire'[i][1] # "json"
      BY <1>1, <1>2
    <3> QED
      BY <3>1
  <2> QED
    BY <2>1, <2>2 DEF DoneMeansComplete
<1>6. AnsweredUnlessPanicked'
  <2>1. Len(wire') \in DOMAIN wire'
    BY <1>1
  <2> QED
    BY <1>1, <2>1 DEF AnsweredUnlessPanicked
<1> QED
  BY <1>3, <1>4, <1>5, <1>6 DEF Answer

\* So is a JSON body that nothing was written before.
LEMMA JSONBody ==
  ASSUME NEW status, wire' = <<<<"json", status>>>>,
         status = 200 => error' = "none"
  PROVE  Answer'
<1>1. DOMAIN wire' = {1} /\ wire'[1][1] = "json" /\ Len(wire') = 1
  OBVIOUS
<1>2. OneAttemptOnTheWire'
  BY <1>1 DEF OneAttemptOnTheWire, ChunksWritten
<1>3. ResponseWellFormed'
  BY <1>1 DEF ResponseWellFormed
<1>4. DoneMeansComplete'
  BY DEF DoneMeansComplete
<1>5. AnsweredUnlessPanicked'
  BY <1>1 DEF AnsweredUnlessPanicked
<1> QED
  BY <1>2, <1>3, <1>4, <1>5 DEF Answer

\* Nothing can be said after the headers once a panic has unwound the handler.
LEMMA RecoveredPreserves ==
  ASSUME GenerationInv, Panic \/ RetryPanics
  PROVE  GenerationInv'
<1>0. TypeOK /\ WireInv /\ Recovered
  BY DEF GenerationInv, Panic, RetryPanics
<1>1. error' = "panic" /\ pc' = "done" /\ attempt' = attempt /\ started' = started
  BY <1>0 DEF Recovered
<1>2. <<"json", 500>> \in Events
  BY DEF Events
<1>3. wire' \in Seq(Events)
  BY <1>0, <1>2 DEF TypeOK, Recovered
<1>4. TypeOK'
  BY <1>0, <1>3 DEF TypeOK, Recovered, States, Errors
<1>5. StageInv'
  BY <1>1 DEF StageInv
<1>6. Answer'
  <2>1. CASE ~started
    BY <1>0, <2>1, JSONBody DEF Recovered
  <2>2. CASE started
    <3>1. /\ wire' = wire /\ wire[1] = <<"sse">> /\ DOMAIN wire = 1..Len(wire)
          /\ \A i \in 2..Len(wire) : wire[i] = <<"chunk", attempt>>
      BY <1>0, <2>2 DEF Recovered, WireInv, TypeOK
    <3>2. \A i \in DOMAIN wire : i = 1 \/ i \in 2..Len(wire)
      BY <3>1, <1>0 DEF TypeOK
    <3>3. OneAttemptOnTheWire'
      BY <1>1, <3>1, <3>2 DEF OneAttemptOnTheWire, ChunksWritten
    <3>4. ResponseWellFormed'
      BY <1>1, <3>1, <3>2 DEF ResponseWellFormed
    <3>5. DoneMeansComplete'
      BY <1>1, <3>1, <3>2 DEF DoneMeansComplete
    <3> QED
      BY <1>1, <2>2, <3>3, <3>4, <3>5 DEF Answer, AnsweredUnlessPanicked
  <2> QED
    BY <2>1, <2>2
<1> QED
  BY <1>1, <1>4, <1>5, <1>6 DEF GenerationInv

LEMMA RespondSuccessPreserves ==
  ASSUME GenerationInv, RespondSuccess
  PROVE  GenerationInv'
<1>0. /\ TypeOK /\ WireInv /\ error = "none" /\ error' = error
      /\ pc # "writing" /\ pc' = "done" /\ attempt' = attempt /\ produced' = produced
  BY DEF GenerationInv, StageInv, RespondSuccess
<1>1. <<"done">> \in Events /\ <<"json", 200>> \in Events
  BY DEF Events
<1>2. TypeOK'
  <2>1. wire' \in Seq(Events)
    <3>1. CASE stream
      BY <1>0, <1>1, <3>1, StartTyped DEF RespondSuccess
    <3>2. CASE ~stream
      BY <1>1, <3>2 DEF RespondSuccess
    <3> QED
      BY <3>1, <3>2
  <2> QED
    BY <1>0, <2>1 DEF TypeOK, RespondSuccess, States
<1>3. StageInv'
  BY <1>0 DEF StageInv
<1>4. Answer'
  <2>1. CASE stream
    <3>1. wire' = Append(Start, <<"done">>)
      BY <2>1 DEF RespondSuccess
    <3>2. /\ Start \in Seq(Events) /\ Start[1] = <<"sse">> /\ Len(Start) >= 1
          /\ Len(Start) = produced' + 1
          /\ \A i \in 2..Len(Start) : Start[i] = <<"chunk", attempt'>>
      BY <1>0, StartTyped
    <3>3. <<"done">>[1] \in {"done", "error"}
      OBVIOUS
    <3> QED
      BY <1>0, <1>1, <1>2, <3>1, <3>2, <3>3, TerminalEvent
  <2>2. CASE ~stream
    BY <1>0, <2>2, JSONBody DEF RespondSuccess
  <2> QED
    BY <2>1, <2>2
<1> QED
  BY <1>0, <1>2, <1>3, <1>4 DEF GenerationInv

LEMMA RespondErrorPreserves ==
  ASSUME GenerationInv, RespondError
  PROVE  GenerationInv'
<1>0. /\ TypeOK /\ WireInv /\ error \in Errors /\ error' = error
      /\ pc' = "done" /\ attempt' = attempt /\ produced' = produced
  BY DEF GenerationInv, StageInv, RespondError
<1>1. /\ <<"error", Category[error]>> \in Events
      /\ <<"json", StatusOf[Category[error]]>> \in Events
      /\ StatusOf[Category[error]] # 200
  BY <1>0, ErrorAnswerTyped
<1>2. CASE started
  <2>1. wire' = Append(wire, <<"error", Category[error]>>)
    BY <1>0, <1>1, <1>2 DEF RespondError, ErrorAnswer, TypeOK
  <2>2. wire' \in Seq(Events)
    BY <1>0, <1>1, <2>1 DEF TypeOK
  <2>3. TypeOK'
    BY <1>0, <2>2 DEF TypeOK, RespondError, States
  <2>4. /\ wire \in Seq(Events) /\ wire[1] = <<"sse">> /\ Len(wire) >= 1
        /\ \A i \in 2..Len(wire) : wire[i] = <<"chunk", attempt'>>
    BY <1>0, <1>2, GenerationAssumption DEF TypeOK, WireInv
  <2>5. Answer'
    BY <1>0, <1>1, <2>1, <2>3, <2>4, TerminalEvent
  <2> QED
    BY <1>0, <2>3, <2>5 DEF GenerationInv, StageInv
<1>3. CASE ~started
  <2>1. wire' = <<<<"json", StatusOf[Category[error]]>>>>
    BY <1>0, <1>3 DEF RespondError, ErrorAnswer, WireInv
  <2>2. TypeOK'
    BY <1>0, <1>1, <2>1 DEF TypeOK, RespondError, States
  <2>3. Answer'
    BY <1>1, <2>1, JSONBody
  <2> QED
    BY <1>0, <2>2, <2>3 DEF GenerationInv, StageInv
<1> QED
  BY <1>2, <1>3

-----------------------------------------------------------------------------
(* The theorems                                                            *)

LEMMA GenerationInit ==
  Init => GenerationInv
<1> SUFFICES ASSUME Init
             PROVE  GenerationInv
  OBVIOUS
<1>1. TypeOK
  <2>1. attempt \in 0..(MaxAttempts - 1) /\ produced \in 0..MaxChunks
    BY GenerationAssumption DEF Init
  <2>2. wire \in Seq(Events) /\ clock \in Nat /\ due \in Nat /\ stalled \in 0..MaxStall
    BY GenerationAssumption DEF Init
  <2>3. pc \in States
    BY DEF Init, States
  <2> QED
    BY <2>1, <2>2, <2>3 DEF Init, TypeOK
<1> QED
  BY <1>1 DEF Init, GenerationInv, StageInv, WireInv

LEMMA GenerationStep ==
  GenerationInv /\ [Next]_vars => GenerationInv'
<1> SUFFICES ASSUME GenerationInv, [Next]_vars
             PROVE  GenerationInv'
  OBVIOUS
<1>1. CASE Proxy
  BY <1>1, StartAttemptPreserves, MeetClosedCachePreserves, DeltaLostPreserves, QuietPreserves, RecoveredPreserves, RetryPreserves,
     AbandonWaitPreserves, RespondSuccessPreserves, RespondErrorPreserves,
     AttemptFailsPreserves DEF Proxy
<1>2. CASE Upstream
  BY <1>2, QuietPreserves, HandDeltaPreserves, RecoveredPreserves, AttemptFailsPreserves
     DEF Upstream
<1>3. CASE Disconnect \/ Tick \/ Done \/ UNCHANGED vars
  BY <1>3, EnvironmentPreserves DEF Done
<1>4. CASE DeltaWritten
  BY <1>4, DeltaWrittenPreserves
<1> QED
  BY <1>1, <1>2, <1>3, <1>4 DEF Next

\* The inductive invariant holds throughout (generator.go:70-200,
\* retry.go:28-127, stream.go:84-155, middleware.go:46-70).
THEOREM GenerationInvariant ==
  Spec => []GenerationInv
<1> QED
  BY GenerationInit, GenerationStep, PTL DEF Spec

LEMMA GenerationInvAnswers ==
  GenerationInv => TypeOK /\ Answer
BY RunningAnswer DEF GenerationInv

\* Every variable keeps its type whatever the provider and the client do.
THEOREM GenerationTypes ==
  Spec => []TypeOK
<1> QED
  BY GenerationInvariant, GenerationInvAnswers, PTL

\* The text a client reads comes from one attempt, however many were made
\* (retry.go:68-79).
THEOREM TextOfOneAttempt ==
  Spec => []OneAttemptOnTheWire
<1>1. GenerationInv => OneAttemptOnTheWire
  BY GenerationInvAnswers DEF Answer
<1> QED
  BY <1>1, GenerationInvariant, PTL

\* The response is one JSON body, or headers, chunks and at most one terminal
\* event (stream.go:100-155, middleware.go:52).
THEOREM ResponsesWellFormed ==
  Spec => []ResponseWellFormed
<1>1. GenerationInv => ResponseWellFormed
  BY GenerationInvAnswers DEF Answer
<1> QED
  BY <1>1, GenerationInvariant, PTL

\* A response that ends with "done" lacks no delta (generator.go:161-162,
\* stream.go:107-115).
THEOREM DoneIsComplete ==
  Spec => []DoneMeansComplete
<1>1. GenerationInv => DoneMeansComplete
  BY GenerationInvAnswers DEF Answer
<1> QED
  BY <1>1, GenerationInvariant, PTL

\* A request that has ended was answered, unless a panic cut its stream off.
THEOREM EndedIsAnswered ==
  Spec => []AnsweredUnlessPanicked
<1>1. GenerationInv => AnsweredUnlessPanicked
  BY GenerationInvAnswers DEF Answer
<1> QED
  BY <1>1, GenerationInvariant, PTL

-----------------------------------------------------------------------------
(* How long a request takes                                                *)

\* Sums of pauses exist: a set of lengths for which there is none has no least
\* member.
LEMMA SumsExist ==
  ASSUME NEW n \in Nat, NEW c, \A a \in 1..n : c[a] \in Nat
  PROVE  \E f \in [0..n -> Nat] : f[0] = 0 /\ \A a \in 1..n : f[a] = f[a - 1] + c[a]
<1> DEFINE Sum(m, f) ==
             f \in [0..m -> Nat] /\ f[0] = 0 /\ \A a \in 1..m : f[a] = f[a - 1] + c[a]
           Bad == {m \in 0..n : ~\E f : Sum(m, f)}
<1>1. CASE Bad = {}
  <2>1. n \notin Bad /\ n \in 0..n
    BY <1>1
  <2>2. PICK f : Sum(n, f)
    BY <2>1
  <2> QED
    BY <2>2
<1>2. CASE Bad # {}
  <2>1. Bad \subseteq Nat
    OBVIOUS
  <2>2. PICK m \in Bad : \A y \in Bad : ~(<<y, m>> \in OpToRel(<, Nat))
    <3> HIDE DEF Bad
    <3> QED
      BY <1>2, <2>1, NatLessThanWellFounded, WFMin
  <2>3. \A y \in Bad : ~(y < m)
    BY <2>1, <2>2 DEF OpToRel
  <2>4. m \in 0..n /\ ~\E f : Sum(m, f)
    BY <2>2
  <2>5. m # 0
    <3>1. Sum(0, [a \in 0..0 |-> 0])
      OBVIOUS
    <3> QED
      BY <2>4, <3>1
  <2>6. m - 1 \in 0..n /\ m - 1 < m
    BY <2>4, <2>5
  <2>7. m - 1 \notin Bad
    BY <2>3, <2>6
  <2>8. PICK f : Sum(m - 1, f)
    BY <2>6, <2>7
  <2> DEFINE g == [a \in 0..m |-> IF a = m THEN f[m - 1] + c[m] ELSE f[a]]
  <2>9. Sum(m, g)
    <3>1. f[m - 1] + c[m] \in Nat
      BY <2>4, <2>5, <2>8
    <3>2. g \in [0..m -> Nat]
      BY <2>4, <2>8, <3>1
    <3>3. g[0] = 0
      BY <2>4, <2>5, <2>8
    <3>4. ASSUME NEW a \in 1..m PROVE g[a] = g[a - 1] + c[a]
      <4>1. CASE a = m
        BY <2>4, <2>5, <4>1
      <4>2. CASE a # m
        <5>1. a \in 1..(m - 1) /\ a - 1 \in 0..m /\ a - 1 # m
          BY <2>4, <4>2
        <5> QED
          BY <2>8, <4>2, <5>1
      <4> QED
        BY <4>1, <4>2
    <3> QED
      BY <3>2, <3>3, <3>4
  <2> QED
    BY <2>4, <2>9
<1> QED
  BY <1>1, <1>2

\* A pause, and the time of an attempt, are numbers.
LEMMA PauseIsNumber ==
  ASSUME NEW b \in Nat, NEW a \in 0..MaxAttempts
  PROVE  Pause(b, a) \in Nat /\ AttemptTime \in Nat
<1>1. 2^a \in Nat /\ GenerateTimeout \in Nat /\ InitTime \in Nat
  BY PowersArePositive, GenerationAssumption
<1>2. BackoffCap \in Nat
  BY GenerationAssumption
<1>3. b * 2^a \in Nat
  BY <1>1
<1>4. Smaller(b * 2^a, BackoffCap) \in Nat
  BY <1>2, <1>3 DEF Smaller
<1> QED
  BY <1>1, <1>4 DEF Pause, AttemptTime, Larger

\* What the budget of the attempts so far is: the equations of its definition.
LEMMA BudgetAdds ==
  ASSUME NEW b \in Nat
  PROVE  /\ Budget(b)[0] = 0
         /\ \A a \in 1..MaxAttempts :
              Budget(b)[a] = Budget(b)[a - 1] + AttemptTime + Pause(b, a - 1)
         /\ \A a \in 0..MaxAttempts : Budget(b)[a] \in Nat
<1> DEFINE c == [a \in 1..MaxAttempts |-> AttemptTime + Pause(b, a - 1)]
           Sum(f) == f = [a \in 0..MaxAttempts |->
                            IF a = 0 THEN 0 ELSE f[a - 1] + AttemptTime + Pause(b, a - 1)]
           s == CHOOSE f : Sum(f)
<1>0. MaxAttempts \in Nat
  BY GenerationAssumption
<1>1. \A a \in 1..MaxAttempts :
        /\ a - 1 \in 0..MaxAttempts /\ Pause(b, a - 1) \in Nat /\ AttemptTime \in Nat
  <2>1. \A a \in 1..MaxAttempts : a - 1 \in 0..MaxAttempts
    BY <1>0
  <2> QED
    BY <2>1, PauseIsNumber
<1>2. \A a \in 1..MaxAttempts : c[a] \in Nat
  BY <1>1
<1>3. \E f : Sum(f)
  <2>1. PICK f \in [0..MaxAttempts -> Nat] :
          f[0] = 0 /\ \A a \in 1..MaxAttempts : f[a] = f[a - 1] + c[a]
    <3> HIDE DEF c
    <3> QED
      BY <1>0, <1>2, SumsExist
  <2>2. \A a \in 0..MaxAttempts :
          f[a] = IF a = 0 THEN 0 ELSE f[a - 1] + AttemptTime + Pause(b, a - 1)
    BY <1>0, <1>1, <2>1
  <2>3. Sum(f)
    BY <2>1, <2>2
  <2> QED
    BY <2>3
<1>4. Sum(s)
  <2> HIDE DEF Sum
  <2> QED
    BY <1>3
<1>5. Budget(b) = s
  BY DEF Budget
<1> HIDE DEF s
<1>6. s[0] = 0 /\ \A a \in 1..MaxAttempts : s[a] = s[a - 1] + AttemptTime + Pause(b, a - 1)
  <2>1. \A a \in 0..MaxAttempts :
          s[a] = IF a = 0 THEN 0 ELSE s[a - 1] + AttemptTime + Pause(b, a - 1)
    BY <1>4
  <2>2. 0 \in 0..MaxAttempts /\ \A a \in 1..MaxAttempts : a \in 0..MaxAttempts /\ a # 0
    BY <1>0
  <2> QED
    BY <2>1, <2>2
<1>7. \A a \in 0..MaxAttempts : s[a] \in Nat
  <2> DEFINE Bad == {a \in 0..MaxAttempts : s[a] \notin Nat}
  <2>1. SUFFICES ASSUME Bad # {} PROVE FALSE
    BY <2>1
  <2>2. Bad \subseteq Nat
    BY <1>0
  <2>3. PICK m \in Bad : \A y \in Bad : ~(<<y, m>> \in OpToRel(<, Nat))
    <3> HIDE DEF Bad
    <3> QED
      BY <2>1, <2>2, NatLessThanWellFounded, WFMin
  <2>4. \A y \in Bad : ~(y < m)
    BY <2>2, <2>3 DEF OpToRel
  <2>5. m # 0 /\ m \in 0..MaxAttempts
    <3>1. m \in 0..MaxAttempts /\ s[m] \notin Nat
      BY <2>3
    <3>2. s[0] \in Nat
      BY <1>6
    <3> QED
      BY <3>1, <3>2
  <2>6. m - 1 \in 0..MaxAttempts /\ m - 1 < m /\ m \in 1..MaxAttempts
    BY <1>0, <2>5
  <2>7. s[m - 1] \in Nat
    BY <2>4, <2>6
  <2>8. s[m] \in Nat
    BY <1>1, <1>6, <2>6, <2>7
  <2> QED
    BY <2>3, <2>8
<1> QED
  BY <1>5, <1>6, <1>7

\* No product, wrapped or not, makes a backoff longer than its pause.
LEMMA DelayWithinPause ==
  ASSUME TypeOK, NEW d \in Delays(attempt)
  PROVE  d \in Nat /\ d <= Pause(base, attempt)
<1>1. /\ base \in Nat /\ attempt \in 0..MaxAttempts /\ 2^attempt \in Nat
      /\ BackoffCap \in Nat
  BY GenerationAssumption, PowersArePositive DEF TypeOK
<1> DEFINE product == base * 2^attempt
           word == product % 2^WordBits
<1>2. product \in Nat
  BY <1>1
<1>3. word \in Int /\ word <= product
  <2>1. 2^WordBits \in Nat \ {0}
    BY PowersArePositive
  <2> HIDE DEF product
  <2> QED
    BY <1>2, <2>1
<1>4. Wrapped(product) \in Int /\ Wrapped(product) <= product
  <2>1. 2^WordBits \in Nat \ {0}
    BY PowersArePositive
  <2>2. Wrapped(product) = word \/ Wrapped(product) = word - 2^WordBits
    BY DEF Wrapped
  <2> HIDE DEF word
  <2> QED
    BY <1>2, <1>3, <2>1, <2>2
<1>5. Pause(base, attempt) \in Nat
  BY <1>1, PauseIsNumber
<1>6. CASE base = 0
  BY <1>5, <1>6 DEF Delays
<1>7. CASE base # 0
  <2> HIDE DEF product
  <2>1. Ceiling(attempt) \in Int /\ Ceiling(attempt) <= Smaller(product, BackoffCap)
    <3>1. Ceiling(attempt) = Smaller(Wrapped(product), BackoffCap)
      BY DEF Ceiling, product
    <3> QED
      BY <1>1, <1>2, <1>4, <3>1 DEF Smaller
  <2>2. Pause(base, attempt) = Larger(Smaller(product, BackoffCap) - 1, 0)
    BY DEF Pause, product
  <2>3. Smaller(product, BackoffCap) \in Int
    BY <1>1, <1>2 DEF Smaller
  <2>4. d \in 0..(Ceiling(attempt) - 1)
    BY <1>7 DEF Delays
  <2>5. d \in Nat /\ d <= Smaller(product, BackoffCap) - 1
    BY <2>1, <2>3, <2>4
  <2>6. Smaller(product, BackoffCap) - 1 <= Larger(Smaller(product, BackoffCap) - 1, 0)
    BY <2>3 DEF Larger
  <2> QED
    BY <1>5, <2>2, <2>3, <2>5, <2>6
<1> QED
  BY <1>6, <1>7

\* Where the clock stands at each stage of an attempt that the earlier ones
\* left Budget(base)[attempt] to begin by, the stalled writes apart.
ElapsedInv ==
  LET began == Budget(base)[attempt] + stalled
      ended == began + AttemptTime
      resumed == ended + Pause(base, attempt) IN
  /\ pc = "attempt" => clock <= began
  /\ pc \in {"awaiting", "building", "generating", "writing"} =>
       due <= began + GenerateTimeout /\ clock <= ended
  /\ pc \in {"failed", "succeeded"} => clock <= ended
  /\ pc = "backoff" => due <= resumed /\ clock <= resumed
  /\ pc \in {"errored", "done"} => clock <= resumed

\* What ElapsedInv's bounds are made of.
LEMMA BoundsAreNumbers ==
  ASSUME TypeOK
  PROVE  /\ base \in Nat /\ attempt \in 0..MaxAttempts
         /\ Budget(base)[attempt] \in Nat
         /\ AttemptTime \in Nat /\ Pause(base, attempt) \in Nat
         /\ GenerateTimeout <= AttemptTime /\ InitTime <= AttemptTime
         /\ GenerateTimeout \in Nat /\ InitTime \in Nat
<1>1. base \in Nat /\ attempt \in 0..MaxAttempts
  BY GenerationAssumption DEF TypeOK
<1>2. GenerateTimeout \in Nat /\ InitTime \in Nat
  BY GenerationAssumption
<1>3. GenerateTimeout <= AttemptTime /\ InitTime <= AttemptTime
  BY <1>2 DEF AttemptTime, Larger
<1> QED
  BY <1>1, <1>2, <1>3, BudgetAdds, PauseIsNumber

\* Steps that leave the attempt and its bounds alone.
LEMMA SameAttemptElapsed ==
  ASSUME GenerationInv, ElapsedInv, Next \/ UNCHANGED vars, ~Retry
  PROVE  ElapsedInv'
<1> DEFINE began == Budget(base)[attempt]
           pause == Pause(base, attempt)
<1>1. TypeOK /\ clock \in Nat /\ due \in Nat /\ stalled \in Nat
  BY GenerationAssumption DEF GenerationInv, TypeOK
<1>2. /\ began \in Nat /\ AttemptTime \in Nat /\ pause \in Nat
      /\ GenerateTimeout <= AttemptTime /\ InitTime <= AttemptTime
      /\ GenerateTimeout \in Nat /\ InitTime \in Nat
  BY <1>1, BoundsAreNumbers
<1>3. base' = base /\ attempt' = attempt
  BY DEF Next, Proxy, Upstream, StartAttempt, MeetClosedCache, GiveUp, BackOff, RetryPanics,
     AbandonWait, RespondSuccess, RespondError, AttemptFails, Acquired, HandDelta, DeltaWritten,
     DeltaLost, Completed, Panic, Recovered, Disconnect, Tick, TimePasses, WriteStalls, Done, vars
<1>4. Budget(base')[attempt'] = began /\ Pause(base', attempt') = pause
  BY <1>3
<1> DEFINE Elapsed(p, c, d, s) ==
             /\ p = "attempt" => c <= began + s
             /\ p \in {"awaiting", "building", "generating", "writing"} =>
                  d <= began + s + GenerateTimeout /\ c <= began + s + AttemptTime
             /\ p \in {"failed", "succeeded"} => c <= began + s + AttemptTime
             /\ p = "backoff" => /\ d <= began + s + AttemptTime + pause
                                 /\ c <= began + s + AttemptTime + pause
             /\ p \in {"errored", "done"} => c <= began + s + AttemptTime + pause
<1>5. Elapsed(pc, clock, due, stalled)
  BY DEF ElapsedInv
<1>6. SUFFICES Elapsed(pc', clock', due', stalled')
  BY <1>4, Zenon DEF ElapsedInv
<1> HIDE DEF began, pause
<1>7. CASE StartAttempt \/ MeetClosedCache
  <2>1. /\ pc = "attempt" /\ pc' \in {"awaiting", "building", "failed"}
        /\ clock' = clock /\ due' = clock + GenerateTimeout /\ stalled' = stalled
    <3>1. CASE StartAttempt /\ cached
      BY <3>1 DEF StartAttempt, Deadline
    <3>2. CASE StartAttempt /\ ~cached
      BY <3>2 DEF StartAttempt, Deadline
    <3>3. CASE MeetClosedCache
      BY <3>3 DEF MeetClosedCache, Deadline
    <3> QED
      BY <1>7, <3>1, <3>2, <3>3
  <2> QED
    BY <1>1, <1>2, <1>5, <2>1
<1>8. CASE BackOff
  <2>1. PICK d \in Delays(attempt) : due' = clock + d
    BY <1>8 DEF BackOff
  <2>2. d \in Nat /\ d <= pause
    BY <1>1, <2>1, DelayWithinPause DEF pause
  <2>3. pc = "failed" /\ pc' = "backoff" /\ clock' = clock /\ stalled' = stalled
    BY <1>8 DEF BackOff
  <2> QED
    BY <1>1, <1>2, <1>5, <2>1, <2>2, <2>3
<1>9. CASE TimePasses
  <2>1. /\ clock' = clock + 1 /\ due' = due /\ pc' = pc /\ stalled' = stalled
        /\ \/ pc \in {"awaiting", "generating", "backoff"} /\ clock < due
           \/ pc = "building" /\ clock < due - GenerateTimeout + InitTime
    BY <1>9 DEF TimePasses
  <2> QED
    BY <1>1, <1>2, <1>5, <2>1
<1>10. CASE WriteStalls
  <2>1. /\ clock' = clock + 1 /\ due' = due /\ pc' = pc /\ stalled' = stalled + 1
        /\ pc \in {"writing", "succeeded", "errored"}
    BY <1>10 DEF WriteStalls, Writing
  <2> QED
    BY <1>1, <1>2, <1>5, <2>1
<1>11. CASE GiveUp \/ AbandonWait \/ RespondSuccess \/ RespondError \/ RetryPanics \/ Panic
  <2>1. /\ pc \in {"failed", "backoff", "succeeded", "errored", "generating", "building"}
        /\ pc' \in {"errored", "done"} /\ clock' = clock /\ stalled' = stalled
    BY <1>11 DEF GiveUp, AbandonWait, RespondSuccess, RespondError, RetryPanics, Panic,
       Recovered
  <2> QED
    BY <1>1, <1>2, <1>5, <2>1
<1>12. CASE \/ Acquired \/ HandDelta \/ DeltaWritten \/ DeltaLost \/ Completed
            \/ \E e : AttemptFails(e)
  <2>1. /\ pc \in {"awaiting", "building", "generating", "writing"}
        /\ pc' \in {"generating", "writing", "failed", "succeeded"}
        /\ clock' = clock /\ due' = due /\ stalled' = stalled
    BY <1>12 DEF Acquired, HandDelta, DeltaWritten, DeltaLost, AfterLostDelta, Completed,
       AttemptFails, TimesOut
  <2> QED
    BY <1>1, <1>2, <1>5, <2>1
<1>13. CASE Disconnect \/ Done \/ UNCHANGED vars
  <2>1. clock' = clock /\ due' = due /\ pc' = pc /\ stalled' = stalled
    BY <1>13 DEF Disconnect, Done, vars
  <2> QED
    BY <1>5, <2>1
<1> QED
  BY <1>7, <1>8, <1>9, <1>11, <1>12, <1>13, <1>10 DEF Next, Proxy, Upstream, Tick

\* A retry begins by the end of the backoff: the next attempt's budget.
LEMMA RetryElapsed ==
  ASSUME GenerationInv, ElapsedInv, Retry
  PROVE  ElapsedInv'
<1>1. TypeOK /\ StageInv
  BY DEF GenerationInv
<1>2. base \in Nat /\ attempt \in Nat /\ attempt + 1 \in 1..MaxAttempts
  BY <1>1, GenerationAssumption DEF TypeOK, StageInv, Retry
<1>3. Budget(base)[attempt + 1] = Budget(base)[attempt] + AttemptTime + Pause(base, attempt)
  <2>1. \A n \in 1..MaxAttempts, k \in Nat :
          n - 1 = k => Budget(base)[n] = Budget(base)[k] + AttemptTime + Pause(base, k)
    BY <1>2, BudgetAdds
  <2> QED
    BY <1>2, <2>1
<1>4. /\ pc' = "attempt" /\ clock' = clock /\ base' = base /\ attempt' = attempt + 1
      /\ pc = "backoff" /\ stalled' = stalled
  BY DEF Retry
<1>5. clock <= Budget(base)[attempt] + stalled + AttemptTime + Pause(base, attempt)
  BY <1>4 DEF ElapsedInv
<1>6. /\ clock \in Nat /\ stalled \in Nat /\ AttemptTime \in Nat
      /\ Budget(base)[attempt] \in Nat /\ Pause(base, attempt) \in Nat
  BY <1>1, GenerationAssumption, BoundsAreNumbers DEF TypeOK
<1>7. clock' <= Budget(base')[attempt'] + stalled'
  BY <1>3, <1>4, <1>5, <1>6
<1> QED
  BY <1>4, <1>7 DEF ElapsedInv

\* Apart from the time its client makes it wait in writes, which nothing
\* bounds, a request takes no longer than its attempts and its backoffs, even
\* when the backoff's product overflows (generator.go:80-84, 105-109,
\* retry.go:31-55, 116-127, stream.go:98).
THEOREM ElapsedIsBounded == Spec => []ElapsedBounded
<1>1. Init /\ TypeOK => ElapsedInv
  <2> SUFFICES ASSUME Init, TypeOK PROVE ElapsedInv
    OBVIOUS
  <2>1. /\ Budget(base)[attempt] \in Nat /\ pc = "attempt" /\ clock = 0 /\ attempt = 0
        /\ stalled = 0
    BY BoundsAreNumbers DEF Init
  <2> QED
    BY <2>1 DEF ElapsedInv
<1>2. GenerationInv /\ ElapsedInv /\ [Next]_vars => ElapsedInv'
  BY SameAttemptElapsed, RetryElapsed
<1>3. GenerationInv /\ ElapsedInv => ElapsedBounded
  <2> SUFFICES ASSUME GenerationInv, ElapsedInv PROVE ElapsedBounded
    OBVIOUS
  <2> DEFINE began == Budget(base)[attempt]
             pause == Pause(base, attempt)
  <2>1. TypeOK /\ clock \in Nat /\ stalled \in Nat /\ pc \in States
    BY GenerationAssumption DEF GenerationInv, TypeOK
  <2>2. began \in Nat /\ AttemptTime \in Nat /\ pause \in Nat
    BY <2>1, BoundsAreNumbers
  <2>3. /\ pc = "attempt" => clock <= began + stalled
        /\ pc \in {"awaiting", "building", "generating", "writing", "failed", "succeeded"} =>
             clock <= began + stalled + AttemptTime
        /\ pc \in {"backoff", "errored", "done"} => clock <= began + stalled + AttemptTime + pause
    BY DEF ElapsedInv
  <2> HIDE DEF began, pause
  <2>4. clock <= began + AttemptTime + stalled
                 + IF pc \in {"backoff", "errored", "done"} THEN pause ELSE 0
    BY <2>1, <2>2, <2>3 DEF States
  <2> QED
    BY <2>4 DEF ElapsedBounded, began, pause
<1> QED
  BY <1>1, <1>2, <1>3, GenerationInvariant, PTL DEF Spec, GenerationInv

=============================================================================
