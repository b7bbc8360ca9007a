----------------------- MODULE SingleStreamEngineProofs -----------------------
(***************************************************************************)
(* Proofs about SingleStreamEngine, for every set of requests, limit,      *)
(* chunk size and channel depth: IInv of SingleStreamEngineInv is          *)
(* inductive, the safety properties of the engine follow from it, and with *)
(* it every step is one of RequestLifecycle.  StepCases sorts the steps by *)
(* what they change; the lemma of each conjunct goes through its cases.    *)
(***************************************************************************)
EXTENDS SingleStreamEngineInv, TLAPS

\* A product of naturals is one.
LEMMA ProductNat == \A m, n \in Nat : m * n \in Nat
  OBVIOUS

\* The smaller of two numbers.
LEMMA MinPair == ASSUME NEW a \in Int, NEW b \in Int
                 PROVE  Min({a, b}) = IF a <= b THEN a ELSE b
  BY DEF Min

\* The larger of two numbers.
LEMMA MaxPair == ASSUME NEW a \in Int, NEW b \in Int
                 PROVE  Max({a, b}) = IF a >= b THEN a ELSE b
  BY DEF Max

\* A chunk of the code is never empty, and never more than is left.
LEMMA BurstFits == ASSUME NEW left \in Nat \ {0}
                   PROVE  /\ Min({ChunkSize, left}) \in Nat \ {0}
                          /\ Min({ChunkSize, left}) <= ChunkSize
                          /\ Min({ChunkSize, left}) <= left
  BY SingleStreamAssumption, MinPair

\* What a put does to a queue or a channel, and a get to a queue.
LEMMA AppendFacts == ASSUME NEW S, NEW q \in Seq(S), NEW x \in S
                     PROVE  /\ Len(q) \in Nat
                            /\ Len(Append(q, x)) = Len(q) + 1
                            /\ DOMAIN q = 1..Len(q)
                            /\ DOMAIN Append(q, x) = 1..Len(q) + 1
                            /\ \A i \in 1..Len(q) : Append(q, x)[i] = q[i]
                            /\ Append(q, x)[Len(q) + 1] = x
  OBVIOUS

\* What a sequence holds after an append.
LEMMA AppendCases == ASSUME NEW S, NEW q \in Seq(S), NEW x \in S
                     PROVE  \A i \in DOMAIN Append(q, x) :
                              \/ i \in DOMAIN q /\ Append(q, x)[i] = q[i]
                              \/ i = Len(q) + 1 /\ Append(q, x)[i] = x
  OBVIOUS

\* What is left of a queue when its head is taken.
LEMMA TailFacts == ASSUME NEW S, NEW q \in Seq(S), q # <<>>
                   PROVE  /\ Head(q) = q[1] /\ 1 \in DOMAIN q
                          /\ \A i \in DOMAIN Tail(q) :
                               /\ i + 1 \in DOMAIN q /\ i + 1 # 1 /\ i \in Nat
                               /\ Tail(q)[i] = q[i + 1]
  OBVIOUS

\* Where the code has a request at hand, cur is one.
LEMMA HeldRequest == ASSUME IInv, pc \in HoldingPc PROVE cur \in Requests
  BY DEF IInv, CurIsHeld

------------------------------------------------------------------------------
\* The steps, sorted.

\* A finish reason that tells the truth about cur.
Justified(s, why) ==
  \/ s = "COMPLETED" /\ why = "stop" /\ last[cur] \in {"eos", "stop"}
  \/ s = "COMPLETED" /\ why = "length" /\ count[cur] >= MaxTokens[cur]
  \/ s = "CANCELLED" /\ why \in {"cancelled", "error"}

\* The request at hand is finished, wherever the decode code does so.
Ending(s, why) ==
  /\ pc \in DecodePc
  /\ s = "COMPLETED" => pc \in {"loop", "put"}
  /\ Justified(s, why)
  /\ EndAs(s, why)
  /\ UNCHANGED decodeVars

\* What only an event-loop step touches, and the flag it sets for the thread.
Unseen == UNCHANGED <<state, reason, submitQ, out, pc, cur, inFlight, kvUsed,
                      count, last, decodeVars>>

Accepts(r) == Accept(r) /\ UNCHANGED <<loopVars, decodeVars>>

\* A step of the thread that is not an Ending.
ThreadMove ==
  \/ (LoopTop \/ PopRequest \/ NothingQueued \/ Begin \/ PutSentinel)
       /\ UNCHANGED decodeVars
  \/ Prefill \/ FirstToken \/ Generate \/ Deliver \/ RoundOver \/ Finish

\* Every way the decode code leaves a request is an Ending: the loop that runs
\* out of rounds has delivered max_tokens tokens.
LEMMA EndingCases ==
  ASSUME IInv, Cancelled \/ Stop \/ ChunkStop \/ LoopOver \/ Fail
  PROVE  \E s \in {"COMPLETED", "CANCELLED"}, why \in FinishReason : Ending(s, why)
<1> USE DEF FinishReason, NoReason, DecodePc
<1>1. CASE Cancelled
  BY <1>1 DEF Cancelled, InLoop, Ending, Justified
<1>2. CASE Stop
  BY <1>2 DEF Stop, InLoop, Stopped, Ending, Justified
<1>3. CASE ChunkStop
  BY <1>3 DEF ChunkStop, Ending, Justified
<1>4. CASE LoopOver
  <2>1. pc = "loop" /\ cur \in Requests
    BY <1>4, HeldRequest DEF LoopOver, HoldingPc
  <2>2. /\ count[cur] \in Nat /\ step \in Nat /\ MaxTokens[cur] \in Int
        /\ count[cur] >= step + 1
    BY <2>1, ApiAssumption DEF IInv, TypeOK, LoopTypeOK, RoundsAreCounted
  <2>3. count[cur] >= MaxTokens[cur]
    BY <1>4, <2>1, <2>2 DEF LoopOver, InLoop, AtLimit
  <2> QED
    BY <1>4, <2>1, <2>3 DEF LoopOver, Ending, Justified
<1>5. CASE Fail
  BY <1>5 DEF Fail, FailAt, Ending, Justified
<1> QED
  BY <1>1, <1>2, <1>3, <1>4, <1>5

\* What a step can do to the request at hand: one of four things.
LEMMA StepCases ==
  ASSUME IInv, [Next]_vars
  PROVE  \/ ThreadMove
         \/ \E s \in {"COMPLETED", "CANCELLED"}, why \in FinishReason : Ending(s, why)
         \/ \E r \in Requests : Accepts(r)
         \/ Unseen
<1> USE DEF Unseen, loopVars, decodeVars, apiVars, boundary
<1>1. CASE EngineStep
  BY <1>1, EndingCases DEF EngineStep, LoopStep, DecodeStep, ThreadMove
<1>2. CASE ApiStep /\ UNCHANGED decodeVars
  <2>1. PICK r \in Requests :
          \/ ReadSnapshot(r, kvUsed, inFlight) \/ HandlerStep(r) \/ ClientFault(r)
    BY <1>2 DEF ApiStep
  <2>2. UNCHANGED loopVars
    BY <1>2 DEF ApiStep
  <2>3. CASE Accept(r)
    BY <1>2, <2>2, <2>3 DEF Accepts
  <2>4. CASE ReadSnapshot(r, kvUsed, inFlight) \/ Reject(r) \/ OpenStream(r) \/ Take(r)
             \/ Cancel(r) \/ Unregister(r)
    BY <1>2, <2>2, <2>4 DEF ReadSnapshot, ReadKvUsed, ReadRunning, Reject, OpenStream, Take, Cancel, Unregister
  <2>5. CASE ClientFault(r)
    BY <1>2, <2>2, <2>5 DEF ClientFault, Disconnect, DisconnectUnopened, Timeout
  <2> QED
    BY <2>1, <2>3, <2>4, <2>5 DEF HandlerStep
<1>3. CASE ShutdownStep /\ UNCHANGED decodeVars
  BY <1>3 DEF ShutdownStep, RequestShutdown, DrainEnds, DrainTimesOut
<1>4. CASE UNCHANGED vars
  BY <1>4 DEF vars
<1> QED
  BY <1>1, <1>2, <1>3, <1>4 DEF Next

------------------------------------------------------------------------------
\* The types.

\* Delivering a token keeps channels and counters in their types.
LEMMA EmitType == ASSUME TypeOK, cur \in Requests, Emit
                  PROVE  /\ out' \in [Requests -> Seq({Tok, End})]
                         /\ count' \in [Requests -> Nat]
                         /\ last' \in [Requests -> TokenKind]
<1>1. out' \in [Requests -> Seq({Tok, End})]
  BY DEF TypeOK, LoopTypeOK, ApiTypeOK, Emit, Put
<1>2. count' \in [Requests -> Nat]
  BY DEF TypeOK, LoopTypeOK, Emit
<1>3. last' \in [Requests -> TokenKind]
  BY DEF TypeOK, LoopTypeOK, Emit, KindsOf, TokenKind
<1> QED
  BY <1>1, <1>2, <1>3

\* The event loop keeps its own variables in their types.
LEMMA BoundaryType ==
  ASSUME IInv, [Next]_vars
  PROVE  /\ handler' \in [Requests -> Handler]
         /\ snap' \in [kvUsed : Nat, running : Nat]
         /\ taken' \in [Requests -> Nat]
         /\ events' \in [Requests -> Event]
<1> USE DEF IInv, TypeOK, LoopTypeOK, ApiTypeOK, boundary, apiVars
<1>1. CASE UNCHANGED boundary
  BY <1>1
<1>2. CASE EngineStep
  BY <1>1, <1>2
     DEF EngineStep, LoopStep, DecodeStep, LoopTop, PopRequest, NothingQueued, Begin,
         PutSentinel, Prefill, FirstToken, Cancelled, Stop, EndAs, Generate, Deliver,
         ChunkStop, RoundOver, LoopOver, Fail, FailAt, Finish, Release
<1>3. CASE ShutdownStep \/ UNCHANGED vars
  BY <1>1, <1>3 DEF ShutdownStep, RequestShutdown, DrainEnds, DrainTimesOut, vars
<1>4. CASE ApiStep
  <2>1. PICK r \in Requests :
          \/ ReadSnapshot(r, kvUsed, inFlight) \/ HandlerStep(r) \/ ClientFault(r)
    BY <1>4 DEF ApiStep
  <2>2. CASE ReadSnapshot(r, kvUsed, inFlight)
    <3>1. /\ snap' = [snap EXCEPT !.kvUsed = kvUsed] \/ snap' = [snap EXCEPT !.running = inFlight]
          /\ kvUsed \in Nat /\ inFlight \in Nat /\ snap \in [kvUsed : Nat, running : Nat]
      BY <2>2 DEF ReadSnapshot, ReadKvUsed, ReadRunning
    <3>2. snap' \in [kvUsed : Nat, running : Nat]
      BY <3>1
    <3>3. /\ handler' \in [Requests -> Handler]
          /\ UNCHANGED <<taken, events>>
      BY <2>2 DEF ReadSnapshot, ReadKvUsed, ReadRunning, Goto, Handler
    <3> QED
      BY <3>2, <3>3
  <2>3. CASE Accept(r)
    <3>1. handler' \in [Requests -> Handler]
      BY <2>3 DEF Accept, Goto, Handler
    <3> QED
      BY <2>3, <3>1 DEF Accept, Event, NoSnap
  <2>7. CASE Reject(r)
    BY <2>7 DEF Reject, Goto, Handler, NoSnap
  <2>4. CASE Take(r)
    <3>1. taken' \in [Requests -> Nat]
      BY <2>4 DEF Take
    <3>2. handler' \in [Requests -> Handler]
      BY <2>4 DEF Take, Goto, Handler
    <3> QED
      BY <2>4, <3>1, <3>2 DEF Take
  <2>5. CASE OpenStream(r) \/ Cancel(r) \/ Unregister(r)
    BY <2>5 DEF OpenStream, Cancel, Unregister, Goto, Handler, Event
  <2>6. CASE ClientFault(r)
    BY <2>6 DEF ClientFault, Disconnect, DisconnectUnopened, Timeout, Goto, Handler
  <2> QED
    BY <2>1, <2>2, <2>3, <2>4, <2>5, <2>6, <2>7 DEF HandlerStep
<1> QED
  BY <1>2, <1>3, <1>4 DEF Next

\* The variables that requests are tracked by stay in their types.
LEMMA RequestType ==
  ASSUME IInv, [Next]_vars
  PROVE  /\ state' \in [Requests -> RequestState]
         /\ reason' \in [Requests -> FinishReason]
         /\ submitQ' \in Seq(Requests)
         /\ out' \in [Requests -> Seq({Tok, End})]
         /\ count' \in [Requests -> Nat]
         /\ last' \in [Requests -> TokenKind]
<1> USE DEF IInv, TypeOK, LoopTypeOK, ApiTypeOK, apiVars
<1>1. CASE UNCHANGED <<state, reason, submitQ, out, count, last>>
  BY <1>1
<1>2. CASE Unseen \/ LoopTop \/ NothingQueued \/ Generate \/ RoundOver \/ Finish
  BY <1>1, <1>2 DEF Unseen, LoopTop, NothingQueued, Generate, RoundOver, Finish, Release
<1>3. CASE PopRequest
  <2>1. Tail(submitQ) \in Seq(Requests)
    BY <1>3 DEF PopRequest
  <2> QED
    BY <1>3, <2>1 DEF PopRequest
<1>4. CASE Begin \/ Prefill
  BY <1>4 DEF Begin, Prefill, MoveTo, RequestState
<1>5. CASE PutSentinel
  <2>1. cur \in Requests
    BY <1>5, HeldRequest DEF PutSentinel, HoldingPc, FinallyPc
  <2>2. Append(out[cur], End) \in Seq({Tok, End})
    BY <2>1
  <2>3. out' \in [Requests -> Seq({Tok, End})]
    BY <1>5, <2>2 DEF PutSentinel, Put
  <2> QED
    BY <1>5, <2>3 DEF PutSentinel
<1>6. CASE FirstToken \/ Deliver
  <2>1. cur \in Requests
    BY <1>6, HeldRequest DEF FirstToken, Deliver, HoldingPc, DecodePc
  <2> QED
    BY <1>6, <2>1, EmitType DEF FirstToken, Deliver
<1>7. ASSUME NEW s \in {"COMPLETED", "CANCELLED"}, NEW why \in FinishReason, Ending(s, why)
      PROVE  /\ state' \in [Requests -> RequestState]
             /\ reason' \in [Requests -> FinishReason]
             /\ UNCHANGED <<submitQ, out, count, last>>
  BY <1>7 DEF Ending, EndAs, MoveTo, RequestState
<1>8. ASSUME NEW r \in Requests, Accepts(r)
      PROVE  /\ state' \in [Requests -> RequestState]
             /\ submitQ' \in Seq(Requests)
             /\ UNCHANGED <<reason, out, count, last>>
  BY <1>8 DEF Accepts, Accept, MoveTo, RequestState, loopVars
<1> QED
  BY StepCases, <1>2, <1>3, <1>4, <1>5, <1>6, <1>7, <1>8 DEF ThreadMove

\* So do the variables of the thread and of the memory accounting.
LEMMA ThreadType ==
  ASSUME IInv, [Next]_vars
  PROVE  /\ pc' \in LoopPc \cup DecodePc
         /\ cur' \in Requests \cup {NoRequest}
         /\ inFlight' \in 0..1
         /\ step' \in Nat
         /\ burst' \in 0..ChunkSize
         /\ chunked' \in BOOLEAN
         /\ kvUsed' \in Nat
         /\ charged' \in Nat
<1> USE SingleStreamAssumption
    DEF IInv, TypeOK, LoopTypeOK, LoopPc, DecodePc, loopVars, decodeVars, apiVars
<1>1. CASE Unseen \/ \E r \in Requests : Accepts(r)
  BY <1>1 DEF Unseen, Accepts
<1>2. CASE (LoopTop \/ NothingQueued \/ PutSentinel) /\ UNCHANGED decodeVars
  BY <1>2 DEF LoopTop, NothingQueued, PutSentinel
<1>3. CASE PopRequest /\ UNCHANGED decodeVars
  BY <1>3 DEF PopRequest, ApiTypeOK
<1>4. CASE Begin /\ UNCHANGED decodeVars
  BY <1>4 DEF Begin, CurIsHeld, HoldingPc
<1>5. CASE Prefill
  <2>1. Prompt[cur] * BytesPerToken \in Nat
    BY <1>5, HeldRequest, ApiAssumption, AdmissionAssumption, ProductNat
       DEF Prefill, HoldingPc
  <2> QED
    BY <1>5, <2>1 DEF Prefill, Charge
<1>6. CASE FirstToken
  <2>1. chunked' \in BOOLEAN
    BY <1>6 DEF FirstToken
  <2>2. charged' \in Nat /\ kvUsed' \in Nat
    BY <1>6, AdmissionAssumption DEF FirstToken, Charge
  <2> QED
    BY <1>6, <2>1, <2>2 DEF FirstToken
<1>7. CASE Generate
  <2>1. cur \in Requests /\ MaxTokens[cur] \in Int /\ count[cur] \in Nat
    BY <1>7, HeldRequest, ApiAssumption DEF Generate, InLoop, HoldingPc
  <2>2. CASE chunked
    <3>1. MaxTokens[cur] - count[cur] \in Nat \ {0}
      BY <1>7, <2>1, <2>2 DEF Generate, AtLimit
    <3>2. burst' \in 0..ChunkSize
      BY <1>7, <2>2, <3>1, BurstFits DEF Generate
    <3>3. ChunkSize * BytesPerToken \in Nat
      BY AdmissionAssumption, ProductNat
    <3> QED
      BY <1>7, <2>2, <3>2, <3>3 DEF Generate, Charge
  <2>3. CASE ~chunked
    BY <1>7, <2>3 DEF Generate
  <2> QED
    BY <2>2, <2>3
<1>8. CASE Deliver
  <2>1. burst' \in 0..ChunkSize
    BY <1>8 DEF Deliver
  <2>2. charged' \in Nat /\ kvUsed' \in Nat
    BY <1>8, AdmissionAssumption DEF Deliver, Charge
  <2> QED
    BY <1>8, <2>1, <2>2 DEF Deliver
<1>9. CASE RoundOver
  BY <1>9 DEF RoundOver
<1>10. CASE Finish
  <2>1. kvUsed' = Max({0, 0}) /\ Max({0, 0}) = 0
    BY <1>10, MaxPair DEF Finish, Release, KvIsSettled
  <2>2. inFlight' = 0
    BY <1>10 DEF Finish, Release, CurIsHeld, HoldingPc, FinallyPc
  <2> QED
    BY <1>10, <2>1, <2>2 DEF Finish, Release
<1>11. CASE \E s \in {"COMPLETED", "CANCELLED"}, why \in FinishReason : Ending(s, why)
  BY <1>11 DEF Ending, EndAs
<1> QED
  BY StepCases, <1>1, <1>2, <1>3, <1>4, <1>5, <1>6, <1>7, <1>8, <1>9, <1>10, <1>11
     DEF ThreadMove

\* shutdown() sets its flag and passes through its own places.
LEMMA DrainType == ASSUME IInv, [Next]_vars PROVE shutdown' \in BOOLEAN /\ drain' \in Drain
<1> USE DEF IInv, TypeOK, LoopTypeOK, Drain, loopVars
<1>1. CASE UNCHANGED <<shutdown, drain>>
  BY <1>1
<1>2. CASE EngineStep
  BY <1>1, <1>2
     DEF EngineStep, LoopStep, DecodeStep, LoopTop, PopRequest, NothingQueued, Begin,
         PutSentinel, Prefill, FirstToken, Cancelled, Stop, EndAs, Generate, Deliver,
         ChunkStop, RoundOver, LoopOver, Fail, FailAt, Finish, Release
<1>3. CASE ShutdownStep
  BY <1>3 DEF ShutdownStep, RequestShutdown, DrainEnds, DrainTimesOut
<1>4. CASE ApiStep \/ UNCHANGED vars
  BY <1>1, <1>4 DEF ApiStep, vars
<1> QED
  BY <1>2, <1>3, <1>4 DEF Next

\* The type invariant, of the parts above.
LEMMA TypeStep == ASSUME IInv, [Next]_vars PROVE TypeOK'
  BY BoundaryType, RequestType, ThreadType, DrainType
     DEF TypeOK, LoopTypeOK, ApiTypeOK

------------------------------------------------------------------------------
\* The request at hand, and the ones in the queue.

\* The thread has a request at hand from its get to the end of the finally block.
LEMMA HeldStep == ASSUME IInv, [Next]_vars PROVE CurIsHeld'
<1> USE SequentialAssumption
    DEF IInv, CurIsHeld, HoldingPc, FinallyPc, DecodePc, loopVars
<1>1. CASE Unseen \/ \E r \in Requests : Accepts(r)
  BY <1>1 DEF Unseen, Accepts
<1>2. CASE LoopTop \/ NothingQueued \/ PutSentinel \/ Begin \/ Prefill
  BY <1>2 DEF LoopTop, NothingQueued, PutSentinel, Begin, Prefill
<1>3. CASE PopRequest
  BY <1>3 DEF PopRequest, TypeOK, LoopTypeOK, ApiTypeOK
<1>4. CASE FirstToken \/ Generate \/ Deliver \/ RoundOver
  BY <1>4 DEF FirstToken, Generate, InLoop, Deliver, RoundOver
<1>5. CASE Finish
  BY <1>5 DEF Finish, Release
<1>6. CASE \E s \in {"COMPLETED", "CANCELLED"}, why \in FinishReason : Ending(s, why)
  BY <1>6 DEF Ending, EndAs
<1> QED
  BY StepCases, <1>1, <1>2, <1>3, <1>4, <1>5, <1>6 DEF ThreadMove

\* The handler that creates a Request is the only one to leave QUEUED.
LEMMA HandlerStateStep == ASSUME IInv, [Next]_vars PROVE HandlerMatchesState'
<1> USE DEF IInv, TypeOK, LoopTypeOK, ApiTypeOK, HandlerMatchesState, boundary, apiVars
<1>1. CASE UNCHANGED <<state, handler>>
  BY <1>1
<1>2. CASE EngineStep
  <2>1. UNCHANGED handler
    BY <1>2
       DEF EngineStep, LoopStep, DecodeStep, LoopTop, PopRequest, NothingQueued, Begin,
           PutSentinel, Prefill, FirstToken, Cancelled, Stop, EndAs, Generate, Deliver,
           ChunkStop, RoundOver, LoopOver, Fail, FailAt, Finish, Release
  <2>2. CASE Begin \/ Prefill
    <3>1. state[cur] # "QUEUED"
      BY <2>2 DEF Begin, Prefill, CurState
    <3> QED
      BY <2>1, <2>2, <3>1 DEF Begin, Prefill, MoveTo
  <2>3. ASSUME NEW s \in {"COMPLETED", "CANCELLED"}, NEW why \in FinishReason, Ending(s, why)
        PROVE  HandlerMatchesState'
    <3>1. state[cur] # "QUEUED"
      BY <2>3 DEF Ending, DecodePc, CurState
    <3> QED
      BY <2>1, <2>3, <3>1 DEF Ending, EndAs, MoveTo
  <2>4. CASE LoopTop \/ PopRequest \/ NothingQueued \/ PutSentinel \/ FirstToken
             \/ Generate \/ Deliver \/ RoundOver \/ Finish
    BY <1>1, <2>4
       DEF LoopTop, PopRequest, NothingQueued, PutSentinel, FirstToken, Generate,
           Deliver, RoundOver, Finish, Release
  <2> QED
    BY <1>2, EndingCases, <2>2, <2>3, <2>4 DEF EngineStep, LoopStep, DecodeStep
<1>3. CASE ShutdownStep \/ UNCHANGED vars
  BY <1>1, <1>3 DEF ShutdownStep, RequestShutdown, DrainEnds, DrainTimesOut, vars
<1>4. CASE ApiStep
  <2>1. PICK r \in Requests :
          \/ ReadSnapshot(r, kvUsed, inFlight) \/ HandlerStep(r) \/ ClientFault(r)
    BY <1>4 DEF ApiStep
  <2>2. CASE ReadSnapshot(r, kvUsed, inFlight) \/ Reject(r)
    BY <2>2 DEF ReadSnapshot, ReadKvUsed, ReadRunning, Reject, Goto
  <2>3. CASE Accept(r)
    BY <2>3 DEF Accept, Goto, MoveTo
  <2>4. CASE OpenStream(r) \/ Take(r)
    BY <2>4 DEF OpenStream, Take, Goto
  <2>5. CASE Cancel(r) \/ Unregister(r)
    BY <2>5 DEF Cancel, Unregister, Goto
  <2>6. CASE ClientFault(r)
    BY <2>6 DEF ClientFault, Disconnect, DisconnectUnopened, Timeout, Goto
  <2> QED
    BY <2>1, <2>2, <2>3, <2>4, <2>5, <2>6 DEF HandlerStep
<1> QED
  BY <1>2, <1>3, <1>4 DEF Next

\* No step of the thread but a get changes the queue, and the request the
\* thread works on is not in it.
LEMMA QueuedStep == ASSUME IInv, [Next]_vars PROVE QueuedAreAdmitted'
<1> USE DEF IInv, TypeOK, LoopTypeOK, ApiTypeOK, QueuedAreAdmitted, apiVars, loopVars
<1>1. CASE Unseen \/ LoopTop \/ NothingQueued
  BY <1>1 DEF Unseen, LoopTop, NothingQueued
<1>2. CASE PopRequest
  <2>1. /\ submitQ \in Seq(Requests) /\ submitQ # <<>>
        /\ submitQ' = Tail(submitQ) /\ cur' = Head(submitQ) /\ UNCHANGED state
    BY <1>2 DEF PopRequest
  <2>2. /\ cur' = submitQ[1] /\ 1 \in DOMAIN submitQ
        /\ \A i \in DOMAIN submitQ' :
             i + 1 \in DOMAIN submitQ /\ i + 1 # 1 /\ i \in Nat /\ submitQ'[i] = submitQ[i + 1]
    BY <2>1, TailFacts
  <2>3. \A i \in DOMAIN submitQ' : submitQ'[i] # cur' /\ state'[submitQ'[i]] = "ADMITTED"
    BY <2>1, <2>2
  <2>4. ASSUME NEW i \in DOMAIN submitQ', NEW j \in DOMAIN submitQ', submitQ'[i] = submitQ'[j]
        PROVE  i = j
    <3>1. i + 1 = j + 1 /\ i \in Nat /\ j \in Nat
      BY <2>2, <2>4
    <3> QED
      BY <3>1
  <2> QED
    BY <2>3, <2>4
<1>3. CASE Begin
  BY <1>3, HeldRequest DEF Begin, MoveTo, HoldingPc
<1>4. CASE Prefill
  BY <1>4, HeldRequest DEF Prefill, MoveTo, HoldingPc, DecodePc, CurState
<1>5. CASE PutSentinel \/ FirstToken \/ Generate \/ Deliver \/ RoundOver
  BY <1>5 DEF PutSentinel, FirstToken, Generate, Deliver, RoundOver
<1>6. CASE Finish
  BY <1>6 DEF Finish, Release
<1>7. ASSUME NEW s \in {"COMPLETED", "CANCELLED"}, NEW why \in FinishReason, Ending(s, why)
      PROVE  QueuedAreAdmitted'
  <2>1. state[cur] # "ADMITTED"
    BY <1>7 DEF Ending, DecodePc, CurState
  <2> QED
    BY <1>7, <2>1 DEF Ending, EndAs, MoveTo
<1>8. ASSUME NEW r \in Requests, Accepts(r)
      PROVE  QueuedAreAdmitted'
  <2>1. state[r] = "QUEUED"
    BY <1>8 DEF Accepts, Accept, HandlerMatchesState
  <2>2. \A i \in DOMAIN submitQ : submitQ[i] # r
    BY <2>1
  <2>3. pc = "begin" => cur # r
    BY <2>1 DEF CurState
  <2>4. submitQ \in Seq(Requests) /\ submitQ' = Append(submitQ, r)
    BY <1>8 DEF Accepts, Accept
  <2>5. r \in Requests
    OBVIOUS
  <2>6. \A i \in DOMAIN submitQ' :
          \/ i \in DOMAIN submitQ /\ submitQ'[i] = submitQ[i]
          \/ i = Len(submitQ) + 1 /\ submitQ'[i] = r
    <3> HIDE DEF IInv, TypeOK, LoopTypeOK, ApiTypeOK, QueuedAreAdmitted, apiVars, loopVars
    <3>1. \A i \in DOMAIN Append(submitQ, r) :
            \/ i \in DOMAIN submitQ /\ Append(submitQ, r)[i] = submitQ[i]
            \/ i = Len(submitQ) + 1 /\ Append(submitQ, r)[i] = r
      BY <2>4, <2>5, AppendCases
    <3> QED
      BY <2>4, <3>1
  <2>7. state' = [state EXCEPT ![r] = "ADMITTED"] /\ UNCHANGED <<pc, cur>>
    BY <1>8 DEF Accepts, Accept, MoveTo
  <2>8. \A i \in DOMAIN submitQ' : state'[submitQ'[i]] = "ADMITTED"
    BY <2>2, <2>6, <2>7
  <2>9. \A i, j \in DOMAIN submitQ' : submitQ'[i] = submitQ'[j] => i = j
    BY <2>2, <2>6
  <2>10. pc' = "begin" => \A i \in DOMAIN submitQ' : submitQ'[i] # cur'
    BY <2>3, <2>6, <2>7
  <2> QED
    BY <2>8, <2>9, <2>10
<1> QED
  BY StepCases, <1>1, <1>2, <1>3, <1>4, <1>5, <1>6, <1>7, <1>8 DEF ThreadMove

\* The place of the engine thread fixes the state of the request at hand.
LEMMA CurStateStep == ASSUME IInv, [Next]_vars PROVE CurState'
<1> USE DEF IInv, TypeOK, LoopTypeOK, ApiTypeOK, CurState, FinallyPc, apiVars, loopVars
<1>1. CASE Unseen \/ LoopTop \/ NothingQueued
  BY <1>1 DEF Unseen, LoopTop, NothingQueued
<1>2. CASE PopRequest
  BY <1>2, TailFacts DEF PopRequest, QueuedAreAdmitted
<1>3. CASE Begin \/ Prefill
  BY <1>3, HeldRequest DEF Begin, Prefill, MoveTo, HoldingPc, DecodePc
<1>4. CASE PutSentinel \/ FirstToken \/ Generate \/ Deliver \/ RoundOver
  BY <1>4 DEF PutSentinel, FirstToken, Generate, InLoop, Deliver, RoundOver
<1>5. CASE Finish
  BY <1>5 DEF Finish, Release
<1>6. ASSUME NEW s \in {"COMPLETED", "CANCELLED"}, NEW why \in FinishReason, Ending(s, why)
      PROVE  CurState'
  BY <1>6, HeldRequest DEF Ending, EndAs, MoveTo, HoldingPc, Terminal
<1>7. ASSUME NEW r \in Requests, Accepts(r)
      PROVE  CurState'
  <2>1. state[r] = "QUEUED"
    BY <1>7 DEF Accepts, Accept, HandlerMatchesState
  <2>2. state' = [state EXCEPT ![r] = "ADMITTED"] /\ UNCHANGED <<pc, cur>>
    BY <1>7 DEF Accepts, Accept, MoveTo
  <2> QED
    BY <2>1, <2>2 DEF Terminal
<1> QED
  BY StepCases, <1>1, <1>2, <1>3, <1>4, <1>5, <1>6, <1>7 DEF ThreadMove

------------------------------------------------------------------------------
\* The channels.

\* A handler takes one item at a time, and only what is there.
LEMMA TakenStep ==
  ASSUME IInv, [Next]_vars
  PROVE  \A r \in Requests : taken'[r] <= Len(out[r])
<1> USE DEF IInv, TypeOK, LoopTypeOK, ApiTypeOK, ChannelContents, boundary, apiVars
<1>1. CASE UNCHANGED taken
  BY <1>1
<1>2. CASE EngineStep
  BY <1>1, <1>2
     DEF EngineStep, LoopStep, DecodeStep, LoopTop, PopRequest, NothingQueued, Begin,
         PutSentinel, Prefill, FirstToken, Cancelled, Stop, EndAs, Generate, Deliver,
         ChunkStop, RoundOver, LoopOver, Fail, FailAt, Finish, Release
<1>3. CASE ShutdownStep \/ UNCHANGED vars
  BY <1>1, <1>3 DEF ShutdownStep, RequestShutdown, DrainEnds, DrainTimesOut, vars
<1>4. CASE ApiStep
  <2>1. PICK r \in Requests :
          \/ ReadSnapshot(r, kvUsed, inFlight) \/ HandlerStep(r) \/ ClientFault(r)
    BY <1>4 DEF ApiStep
  <2>2. CASE Take(r)
    <3>1. Len(out[r]) \in Nat /\ taken[r] \in Nat /\ Len(out[r]) - taken[r] > 0
      BY <2>2 DEF Take, Pending
    <3>2. taken[r] + 1 <= Len(out[r])
      BY <3>1
    <3>3. taken' = [taken EXCEPT ![r] = taken[r] + 1]
      BY <2>2 DEF Take
    <3> QED
      BY <3>2, <3>3
  <2>3. CASE ~Take(r)
    BY <1>1, <2>1, <2>3
       DEF ReadSnapshot, ReadKvUsed, ReadRunning, HandlerStep, Reject, Accept, OpenStream, Cancel, Unregister,
           ClientFault, Disconnect, DisconnectUnopened, Timeout
  <2> QED
    BY <2>2, <2>3
<1> QED
  BY <1>2, <1>3, <1>4 DEF Next

\* A step that puts and counts nothing and closes nothing keeps the channels.
LEMMA ChannelFrame == ASSUME IInv, UNCHANGED <<out, count>>,
                             \A r \in Requests : taken'[r] <= Len(out[r]),
                             \A r \in Requests : Closed(r)' <=> Closed(r)
                      PROVE  ChannelContents'
  BY DEF IInv, ChannelContents

\* One token more on the channel of a request whose sentinel is not there yet.
LEMMA TokenAppended ==
  ASSUME IInv, NEW r \in Requests, r = cur, Emit, ~Closed(r), UNCHANGED taken,
         \A x \in Requests : Closed(x)' <=> Closed(x)
  PROVE  ChannelContents'
<1>1. /\ out[r] \in Seq({Tok, End})
      /\ count[r] \in Nat /\ taken[r] \in Nat
      /\ out' = [out EXCEPT ![r] = Append(out[r], Tok)]
      /\ count' = [count EXCEPT ![r] = count[r] + 1]
  BY DEF IInv, TypeOK, LoopTypeOK, ApiTypeOK, Emit, Put
<1>2. /\ out'[r] = Append(out[r], Tok)
      /\ count'[r] = count[r] + 1
      /\ \A x \in Requests \ {r} : out'[x] = out[x] /\ count'[x] = count[x]
  BY <1>1 DEF IInv, TypeOK, LoopTypeOK, ApiTypeOK
<1>3. /\ Len(out'[r]) = Len(out[r]) + 1
      /\ DOMAIN out'[r] = 1..Len(out[r]) + 1
      /\ \A i \in 1..Len(out[r]) : out'[r][i] = out[r][i]
      /\ out'[r][Len(out[r]) + 1] = Tok
      /\ DOMAIN out[r] = 1..Len(out[r])
  BY <1>1, <1>2, AppendFacts
<1>4. Len(out[r]) = count[r] /\ taken[r] <= Len(out[r])
  BY <1>1 DEF IInv, ChannelContents
<1>5. \A i \in DOMAIN out'[r] : out'[r][i] = IF i <= count'[r] THEN Tok ELSE End
  BY <1>1, <1>2, <1>3, <1>4 DEF IInv, ChannelContents
<1>6. taken'[r] <= Len(out'[r]) /\ Len(out'[r]) = count'[r]
  BY <1>1, <1>2, <1>3, <1>4
<1>7. ASSUME NEW x \in Requests
      PROVE  /\ Len(out'[x]) = count'[x] + (IF Closed(x)' THEN 1 ELSE 0)
             /\ \A i \in DOMAIN out'[x] : out'[x][i] = IF i <= count'[x] THEN Tok ELSE End
             /\ taken'[x] <= Len(out'[x])
  <2>1. CASE x = r
    BY <2>1, <1>1, <1>2, <1>5, <1>6
  <2>2. CASE x # r
    BY <2>2, <1>2 DEF IInv, ChannelContents
  <2> QED
    BY <2>1, <2>2
<1> QED
  BY <1>7 DEF ChannelContents

\* The sentinel, behind the last token.
LEMMA SentinelAppended ==
  ASSUME IInv, NEW r \in Requests, Put(r, End), UNCHANGED <<count, taken>>,
         ~Closed(r), Closed(r)',
         \A x \in Requests \ {r} : Closed(x)' <=> Closed(x)
  PROVE  ChannelContents'
<1>1. /\ out[r] \in Seq({Tok, End})
      /\ count[r] \in Nat /\ taken[r] \in Nat
      /\ out' = [out EXCEPT ![r] = Append(out[r], End)]
  BY DEF IInv, TypeOK, LoopTypeOK, ApiTypeOK, Put
<1>2. /\ out'[r] = Append(out[r], End)
      /\ \A x \in Requests \ {r} : out'[x] = out[x]
  BY <1>1 DEF IInv, TypeOK, LoopTypeOK, ApiTypeOK
<1>3. /\ Len(out'[r]) = Len(out[r]) + 1
      /\ DOMAIN out'[r] = 1..Len(out[r]) + 1
      /\ \A i \in 1..Len(out[r]) : out'[r][i] = out[r][i]
      /\ out'[r][Len(out[r]) + 1] = End
      /\ DOMAIN out[r] = 1..Len(out[r])
  BY <1>1, <1>2, AppendFacts
<1>4. Len(out[r]) = count[r] /\ taken[r] <= Len(out[r])
  BY <1>1 DEF IInv, ChannelContents
<1>5. \A i \in DOMAIN out'[r] : out'[r][i] = IF i <= count[r] THEN Tok ELSE End
  BY <1>1, <1>2, <1>3, <1>4 DEF IInv, ChannelContents
<1>6. taken[r] <= Len(out'[r]) /\ Len(out'[r]) = count[r] + 1
  BY <1>1, <1>2, <1>3, <1>4
<1>7. ASSUME NEW x \in Requests
      PROVE  /\ Len(out'[x]) = count'[x] + (IF Closed(x)' THEN 1 ELSE 0)
             /\ \A i \in DOMAIN out'[x] : out'[x][i] = IF i <= count'[x] THEN Tok ELSE End
             /\ taken'[x] <= Len(out'[x])
  <2>1. CASE x = r
    BY <2>1, <1>1, <1>2, <1>5, <1>6
  <2>2. CASE x # r
    BY <2>2, <1>2 DEF IInv, ChannelContents
  <2> QED
    BY <2>1, <2>2
<1> QED
  BY <1>7 DEF ChannelContents

\* Only the put of the sentinel closes a request: an Ending leaves it open.
LEMMA ClosedFrame ==
  ASSUME IInv, [Next]_vars, ~(PutSentinel /\ UNCHANGED decodeVars)
  PROVE  \A x \in Requests : Closed(x)' <=> Closed(x)
<1> USE DEF IInv, TypeOK, LoopTypeOK, ApiTypeOK, Closed, Terminal, apiVars, loopVars
<1>1. CASE Unseen \/ LoopTop \/ NothingQueued \/ PopRequest
  BY <1>1 DEF Unseen, LoopTop, NothingQueued, PopRequest
<1>2. CASE Begin \/ Prefill
  BY <1>2 DEF Begin, Prefill, MoveTo, CurState
<1>3. CASE FirstToken \/ Generate \/ Deliver \/ RoundOver
  BY <1>3 DEF FirstToken, Generate, InLoop, Deliver, RoundOver
<1>4. CASE Finish
  BY <1>4 DEF Finish, Release
<1>5. ASSUME NEW s \in {"COMPLETED", "CANCELLED"}, NEW why \in FinishReason, Ending(s, why)
      PROVE  \A x \in Requests : Closed(x)' <=> Closed(x)
  <2>1. cur \in Requests /\ state[cur] \notin Terminal /\ pc # "sentinel"
    BY <1>5, HeldRequest DEF Ending, DecodePc, HoldingPc, CurState
  <2>2. state' = [state EXCEPT ![cur] = s] /\ pc' = "sentinel" /\ cur' = cur
    BY <1>5 DEF Ending, EndAs, MoveTo
  <2> QED
    BY <2>1, <2>2
<1>6. ASSUME NEW r \in Requests, Accepts(r)
      PROVE  \A x \in Requests : Closed(x)' <=> Closed(x)
  <2>1. state[r] = "QUEUED"
    BY <1>6 DEF Accepts, Accept, HandlerMatchesState
  <2>2. state' = [state EXCEPT ![r] = "ADMITTED"] /\ UNCHANGED <<pc, cur>>
    BY <1>6 DEF Accepts, Accept, MoveTo
  <2> QED
    BY <2>1, <2>2
<1> QED
  BY StepCases, <1>1, <1>2, <1>3, <1>4, <1>5, <1>6 DEF ThreadMove

\* Tokens, then one sentinel: no step breaks the order on a channel.
LEMMA ChannelStep == ASSUME IInv, [Next]_vars PROVE ChannelContents'
<1> USE DEF apiVars, loopVars, boundary
<1>1. CASE PutSentinel /\ UNCHANGED decodeVars
  <2>1. cur \in Requests /\ pc = "sentinel" /\ pc' = "release" /\ cur' = cur
    BY <1>1, HeldRequest DEF PutSentinel, HoldingPc, FinallyPc
  <2>2. Put(cur, End) /\ UNCHANGED <<state, count, taken>>
    BY <1>1 DEF PutSentinel
  <2>3. state[cur] \in Terminal
    BY <2>1 DEF IInv, CurState, FinallyPc
  <2>4. PICK r \in Requests : r = cur
    BY <2>1
  <2>5. ~Closed(r) /\ Closed(r)' /\ \A x \in Requests \ {r} : Closed(x)' <=> Closed(x)
    BY <2>1, <2>2, <2>3, <2>4 DEF Closed
  <2> QED
    BY <2>2, <2>4, <2>5, SentinelAppended
<1>2. CASE ~(PutSentinel /\ UNCHANGED decodeVars)
  <2>1. \A x \in Requests : Closed(x)' <=> Closed(x)
    BY <1>2, ClosedFrame
  <2>2. CASE FirstToken \/ Deliver
    <3>1. cur \in Requests /\ Emit /\ UNCHANGED taken
      BY <2>2, HeldRequest DEF FirstToken, Deliver, HoldingPc, DecodePc
    <3>2. ~Closed(cur)
      BY <2>2 DEF FirstToken, Deliver, IInv, CurState, Closed, Terminal
    <3>3. PICK r \in Requests : r = cur
      BY <3>1
    <3> QED
      BY <2>1, <3>1, <3>2, <3>3, TokenAppended
  <2>3. CASE UNCHANGED <<out, count>>
    BY <2>1, <2>3, TakenStep, ChannelFrame
  <2> QED
    BY StepCases, <1>2, <2>2, <2>3
       DEF ThreadMove, LoopTop, PopRequest, NothingQueued, Begin, Prefill, Generate,
           RoundOver, Finish, Release, Ending, EndAs, Accepts, Accept, Unseen
<1> QED
  BY <1>1, <1>2

------------------------------------------------------------------------------
\* The tokens, the finish reasons, the memory.

\* The request at hand gets one token more, the others none.
LEMMA EmitCounts ==
  ASSUME IInv, cur \in Requests, Emit
  PROVE  /\ count[cur] \in Nat
         /\ count'[cur] = count[cur] + 1
         /\ \A r \in Requests \ {cur} : count'[r] = count[r] /\ last'[r] = last[r]
  BY DEF IInv, TypeOK, LoopTypeOK, Emit

\* The rounds of the decode loop count the tokens of the answer.
LEMMA RoundsStep == ASSUME IInv, [Next]_vars PROVE RoundsAreCounted'
<1> USE DEF RoundsAreCounted, loopVars, decodeVars, apiVars
<1>0. /\ count \in [Requests -> Nat] /\ state \in [Requests -> RequestState]
      /\ step \in Nat /\ burst \in Nat
      /\ RoundsAreCounted /\ CurState /\ HandlerMatchesState
  BY SingleStreamAssumption DEF IInv, TypeOK, LoopTypeOK, ApiTypeOK
<1>1. CASE (Unseen \/ LoopTop \/ NothingQueued \/ PopRequest \/ PutSentinel) /\ UNCHANGED decodeVars
  BY <1>0, <1>1 DEF Unseen, LoopTop, NothingQueued, PopRequest, PutSentinel
<1>2. CASE Begin
  BY <1>0, <1>2 DEF Begin, MoveTo, CurState
<1>3. CASE Prefill
  <2>1. cur \in Requests /\ pc = "prefill"
    BY <1>3, HeldRequest DEF Prefill, HoldingPc, DecodePc
  <2>2. count[cur] = 0
    BY <1>0, <2>1 DEF CurState
  <2> QED
    BY <1>0, <1>3, <2>1, <2>2 DEF Prefill, MoveTo
<1>4. CASE FirstToken
  <2>1. cur \in Requests /\ Emit /\ pc' = "loop" /\ step' = 0 /\ UNCHANGED <<cur, state>>
    BY <1>4, HeldRequest DEF FirstToken, HoldingPc, DecodePc
  <2>2. count[cur] = 0 /\ state[cur] = "DECODING"
    BY <1>0, <1>4 DEF FirstToken, CurState
  <2>3. count'[cur'] = 1 /\ \A r \in Requests \ {cur} : count'[r] = count[r]
    BY <2>1, <2>2, EmitCounts
  <2> QED
    BY <1>0, <2>1, <2>2, <2>3
<1>5. CASE Generate
  <2>1. /\ cur \in Requests /\ pc = "loop" /\ pc' = "put"
        /\ UNCHANGED <<cur, state, count, step, chunked, last>>
    BY <1>5, HeldRequest DEF Generate, InLoop, HoldingPc, DecodePc
  <2>2. /\ count[cur] \in Nat /\ MaxTokens[cur] \in Int
        /\ count[cur] >= step + 1 /\ (~chunked => count[cur] = step + 1)
    BY <1>0, <2>1, ApiAssumption
  <2>3. burst' \in Nat \ {0} /\ count[cur] + burst' <= MaxTokens[cur]
    <3>1. CASE chunked
      <4>1. MaxTokens[cur] - count[cur] \in Nat \ {0}
        BY <1>5, <2>2, <3>1 DEF Generate, AtLimit
      <4>2. burst' = Min({ChunkSize, MaxTokens[cur] - count[cur]})
        BY <1>5, <3>1 DEF Generate
      <4>3. PICK left \in Nat \ {0} : left = MaxTokens[cur] - count[cur]
        BY <4>1
      <4>4. burst' \in Nat \ {0} /\ burst' <= left
        BY <4>2, <4>3, BurstFits
      <4> QED
        BY <2>2, <4>3, <4>4
    <3>2. CASE ~chunked
      BY <1>0, <1>5, <2>2, <3>2 DEF Generate, InLoop
    <3> QED
      BY <3>1, <3>2
  <2>4. ~chunked => burst' = 1
    BY <1>5 DEF Generate
  <2>5. count'[cur'] = count[cur] /\ MaxTokens[cur'] = MaxTokens[cur]
    BY <2>1
  <2>6. /\ count[cur] >= 1
        /\ count[cur] + burst' >= step + 2
        /\ ~chunked => count[cur] + burst' = step + 2
    BY <1>0, <2>2, <2>3, <2>4
  <2> QED
    BY <1>0, <2>1, <2>3, <2>5, <2>6
<1>6. CASE Deliver
  <2>1. /\ cur \in Requests /\ Emit /\ pc = "put" /\ pc' = "put" /\ burst > 0
        /\ UNCHANGED <<cur, state, step, chunked>>
    BY <1>6, HeldRequest DEF Deliver, HoldingPc, DecodePc
  <2>2. /\ count[cur] \in Nat /\ MaxTokens[cur] \in Int
        /\ count[cur] >= 1 /\ count[cur] + burst <= MaxTokens[cur]
        /\ count[cur] + burst >= step + 2 \/ burst = 0
        /\ ~chunked => count[cur] + burst = step + 2
    BY <1>0, <2>1, ApiAssumption
  <2>3. count'[cur'] = count[cur] + 1 /\ \A r \in Requests \ {cur} : count'[r] = count[r]
    BY <2>1, EmitCounts
  <2>4. \/ chunked /\ last'[cur'] = "eos" /\ burst' = 0
        \/ burst' = burst - 1
    BY <1>6, <2>1 DEF Deliver
  <2>5. ~chunked => burst' = burst - 1
    BY <1>6 DEF Deliver
  <2>6. state[cur] = "DECODING"
    BY <1>0, <2>1 DEF CurState
  <2>7. \A r \in Requests :
          state'[r] \in {"QUEUED", "ADMITTED", "PREFILLING"} => count'[r] = 0
    BY <1>0, <2>1, <2>3, <2>6
  <2>8. PICK n \in Nat : n = count[cur]
    BY <2>2
  <2>9. PICK m \in Int : m = MaxTokens[cur] /\ m = MaxTokens[cur']
    BY <2>1, <2>2
  <2>10. burst' \in Nat /\ n + 1 + burst' <= m
    BY <1>0, <2>1, <2>2, <2>4, <2>8, <2>9
  <2>11. n + 1 + burst' >= step + 2 \/ (chunked /\ last'[cur'] = "eos" /\ burst' = 0)
    BY <1>0, <2>1, <2>2, <2>4, <2>8
  <2>12. ~chunked => n + 1 + burst' = step + 2
    BY <1>0, <2>1, <2>2, <2>5, <2>8
  <2>13. count'[cur'] = n + 1 /\ n + 1 >= 1
    BY <2>3, <2>8
  <2> QED
    BY <2>1, <2>7, <2>9, <2>10, <2>11, <2>12, <2>13
<1>7. CASE RoundOver
  <2>1. /\ pc = "put" /\ pc' = "loop" /\ burst = 0 /\ step' = step + 1
        /\ ~(chunked /\ last[cur] = "eos")
        /\ UNCHANGED <<cur, state, count, chunked>>
    BY <1>7 DEF RoundOver
  <2>2. cur \in Requests
    BY <2>1, HeldRequest DEF HoldingPc, DecodePc
  <2>3. /\ count[cur] + burst >= step + 2
        /\ ~chunked => count[cur] + burst = step + 2
    BY <1>0, <2>1
  <2>4. /\ count[cur] >= step' + 1
        /\ ~chunked => count[cur] = step' + 1
    BY <1>0, <2>1, <2>2, <2>3
  <2> QED
    BY <1>0, <2>1, <2>4
<1>8. CASE Finish
  BY <1>0, <1>8 DEF Finish, Release
<1>9. ASSUME NEW s \in {"COMPLETED", "CANCELLED"}, NEW why \in FinishReason, Ending(s, why)
      PROVE  RoundsAreCounted'
  BY <1>0, <1>9 DEF Ending, EndAs, MoveTo
<1>10. ASSUME NEW r \in Requests, Accepts(r)
      PROVE  RoundsAreCounted'
  <2>1. state[r] = "QUEUED"
    BY <1>0, <1>10 DEF Accepts, Accept, HandlerMatchesState
  <2> QED
    BY <1>0, <1>10, <2>1 DEF Accepts, Accept, MoveTo
<1>11. CASE Unseen
  BY <1>1, <1>11 DEF Unseen
<1> QED
  BY StepCases, <1>1, <1>2, <1>3, <1>4, <1>5, <1>6, <1>7, <1>8, <1>9, <1>10, <1>11
     DEF ThreadMove

\* A reason is written once, with the end it explains, and what it claims of
\* the tokens stays true because none follows.
LEMMA ReasonStep == ASSUME IInv, [Next]_vars PROVE (ReasonMatchesState /\ ReasonIsTrue)'
<1> USE DEF IInv, TypeOK, LoopTypeOK, ApiTypeOK, ReasonMatchesState, ReasonIsTrue,
            Terminal, NoReason, apiVars, loopVars
<1>1. CASE UNCHANGED <<state, reason, count, last>>
  BY <1>1
<1>2. CASE Unseen \/ LoopTop \/ NothingQueued \/ PopRequest \/ PutSentinel \/ Generate
           \/ RoundOver \/ Finish
  BY <1>1, <1>2
     DEF Unseen, LoopTop, NothingQueued, PopRequest, PutSentinel, Generate, RoundOver,
         Finish, Release
<1>3. CASE Begin \/ Prefill
  <2>1. state[cur] \in {"ADMITTED", "PREFILLING"}
    BY <1>3 DEF Begin, Prefill, CurState
  <2> QED
    BY <1>3, <2>1 DEF Begin, Prefill, MoveTo
<1>4. CASE FirstToken \/ Deliver
  <2>1. cur \in Requests /\ Emit /\ UNCHANGED <<state, reason>>
    BY <1>4, HeldRequest DEF FirstToken, Deliver, HoldingPc, DecodePc
  <2>2. state[cur] = "DECODING"
    BY <1>4 DEF FirstToken, Deliver, CurState
  <2>3. \A r \in Requests \ {cur} : count'[r] = count[r] /\ last'[r] = last[r]
    BY <2>1, EmitCounts
  <2> QED
    BY <2>1, <2>2, <2>3
<1>5. ASSUME NEW s \in {"COMPLETED", "CANCELLED"}, NEW why \in FinishReason, Ending(s, why)
      PROVE  (ReasonMatchesState /\ ReasonIsTrue)'
  <2>1. /\ state' = [state EXCEPT ![cur] = s] /\ reason' = [reason EXCEPT ![cur] = why]
        /\ UNCHANGED <<count, last>> /\ Justified(s, why)
    BY <1>5 DEF Ending, EndAs, MoveTo
  <2> QED
    BY <2>1 DEF Justified
<1>6. ASSUME NEW r \in Requests, Accepts(r)
      PROVE  (ReasonMatchesState /\ ReasonIsTrue)'
  <2>1. state[r] = "QUEUED"
    BY <1>6 DEF Accepts, Accept, HandlerMatchesState
  <2> QED
    BY <1>6, <2>1 DEF Accepts, Accept, MoveTo
<1> QED
  BY StepCases, <1>2, <1>3, <1>4, <1>5, <1>6 DEF ThreadMove

\* Both counters move together, and the finally block takes back all of it.
LEMMA KvStep == ASSUME IInv, [Next]_vars PROVE KvIsSettled'
<1> USE SequentialAssumption
    DEF IInv, TypeOK, LoopTypeOK, KvIsSettled, CurIsHeld, HoldingPc, FinallyPc, DecodePc,
        loopVars, decodeVars
<1>1. CASE UNCHANGED <<kvUsed, charged, cur, inFlight>>
  BY <1>1
<1>2. CASE Unseen \/ ((LoopTop \/ NothingQueued \/ PutSentinel) /\ UNCHANGED decodeVars)
  BY <1>1, <1>2 DEF Unseen, LoopTop, NothingQueued, PutSentinel
<1>3. CASE (PopRequest \/ Begin) /\ UNCHANGED decodeVars
  BY <1>3 DEF PopRequest, Begin, ApiTypeOK
<1>4. CASE Prefill \/ FirstToken \/ Generate \/ Deliver
  <2>1. cur \in Requests /\ cur' = cur
    BY <1>4 DEF Prefill, FirstToken, Generate, InLoop, Deliver
  <2>2. CASE \E tokens : Charge(tokens)
    BY <2>1, <2>2 DEF Charge
  <2>3. CASE UNCHANGED <<charged, kvUsed>>
    BY <2>1, <2>3
  <2> QED
    BY <1>4, <2>2, <2>3 DEF Prefill, FirstToken, Generate, Deliver
<1>5. CASE RoundOver
  BY <1>1, <1>5 DEF RoundOver
<1>6. CASE Finish
  <2>1. kvUsed' = Max({0, 0}) /\ Max({0, 0}) = 0
    BY <1>6, MaxPair DEF Finish, Release
  <2>2. inFlight' = 0 /\ charged' = 0
    BY <1>6 DEF Finish, Release
  <2> QED
    BY <2>1, <2>2
<1>7. CASE \E s \in {"COMPLETED", "CANCELLED"}, why \in FinishReason : Ending(s, why)
  BY <1>1, <1>7 DEF Ending, EndAs
<1>8. CASE \E r \in Requests : Accepts(r)
  BY <1>1, <1>8 DEF Accepts
<1> HIDE DEF IInv, KvIsSettled, decodeVars
<1> QED
  BY StepCases, <1>2, <1>3, <1>4, <1>5, <1>6, <1>7, <1>8 DEF ThreadMove

------------------------------------------------------------------------------
\* The inductive invariant.

\* The invariant holds in the initial state.
LEMMA InitInvariant == Init => IInv
<1> SUFFICES ASSUME Init PROVE IInv
  OBVIOUS
<1> USE SequentialAssumption, SingleStreamAssumption DEF Init, LoopInit, ApiInit
<1>1. ApiTypeOK
  BY DEF ApiTypeOK, RequestState, FinishReason, Handler, NoSnap, Event
<1>2. /\ pc \in LoopPc \cup DecodePc /\ cur \in Requests \cup {NoRequest}
      /\ inFlight \in 0..1 /\ kvUsed \in Nat
  BY DEF LoopPc
<1>3. count \in [Requests -> Nat] /\ last \in [Requests -> TokenKind]
  BY DEF TokenKind
<1>8. shutdown \in BOOLEAN /\ chunked \in BOOLEAN
  OBVIOUS
<1>9. drain \in Drain /\ step \in Nat /\ burst \in 0..ChunkSize /\ charged \in Nat
  BY DEF Drain
<1>10. TypeOK
  BY <1>1, <1>2, <1>3, <1>8, <1>9 DEF TypeOK, LoopTypeOK
<1>4. CurIsHeld /\ HandlerMatchesState /\ QueuedAreAdmitted
  BY DEF CurIsHeld, HoldingPc, DecodePc, FinallyPc, HandlerMatchesState, QueuedAreAdmitted
<1>5. CurState /\ RoundsAreCounted
  BY DEF CurState, FinallyPc, RoundsAreCounted
<1>6. ChannelContents
  BY DEF ChannelContents, Closed, Terminal
<1>7. ReasonMatchesState /\ ReasonIsTrue /\ KvIsSettled
  BY DEF ReasonMatchesState, ReasonIsTrue, KvIsSettled, Terminal, NoReason
<1> QED
  BY <1>10, <1>4, <1>5, <1>6, <1>7 DEF IInv

\* Every step keeps it.
LEMMA StepInvariant == IInv /\ [Next]_vars => IInv'
<1> SUFFICES ASSUME IInv, [Next]_vars PROVE IInv'
  OBVIOUS
<1>1. TypeOK' /\ CurIsHeld' /\ CurState'
  BY TypeStep, HeldStep, CurStateStep
<1>2. HandlerMatchesState' /\ QueuedAreAdmitted'
  BY HandlerStateStep, QueuedStep
<1>3. ChannelContents' /\ RoundsAreCounted'
  BY ChannelStep, RoundsStep
<1>4. ReasonMatchesState' /\ ReasonIsTrue' /\ KvIsSettled'
  BY ReasonStep, KvStep
<1> QED
  BY <1>1, <1>2, <1>3, <1>4 DEF IInv

\* Every reachable state satisfies the inductive invariant: whatever handlers,
\* clients, failing model calls and shutdown() do between two steps of the
\* thread, each request is where the code expects it.
THEOREM Invariant == Spec => []IInv
  BY InitInvariant, StepInvariant, PTL DEF Spec

------------------------------------------------------------------------------
\* What follows from it.

\* No variable of the engine or of its boundary leaves its type.
THEOREM TypesAreRespected == Spec => []TypeOK
<1>1. IInv => TypeOK
  BY DEF IInv
<1> QED
  BY <1>1, Invariant, PTL

\* The finish reason tells the truth: a loop that ran out of rounds or chunks
\* delivered max_tokens tokens, a stop follows an end token or a stop sequence.
THEOREM ReasonsAreTrue == Spec => []ReasonIsTrue
<1>1. IInv => ReasonIsTrue
  BY DEF IInv
<1> QED
  BY <1>1, Invariant, PTL

\* The finally block takes back what the request was charged, prompt, first
\* token, later tokens and whole chunks, on every path that leads to it.
THEOREM MemoryIsSettled == Spec => []KvIsSettled
<1>1. IInv => KvIsSettled
  BY DEF IInv
<1> QED
  BY <1>1, Invariant, PTL

\* A handler that got the sentinel got every token that was counted, and reads
\* a finish reason.
THEOREM AnswersAreWhole == Spec => []AnswerIsWhole
<1>1. ASSUME IInv, NEW r \in Requests, Answered(r)
      PROVE  taken[r] = Len(out[r]) /\ count[r] = taken[r] - 1 /\ reason[r] # NoReason
  <2>1. /\ out[r] \in Seq({Tok, End}) /\ count[r] \in Nat /\ taken[r] \in Nat
        /\ Len(out[r]) = count[r] + (IF Closed(r) THEN 1 ELSE 0)
        /\ taken[r] <= Len(out[r])
        /\ \A i \in DOMAIN out[r] : out[r][i] = IF i <= count[r] THEN Tok ELSE End
    BY <1>1 DEF IInv, TypeOK, LoopTypeOK, ApiTypeOK, ChannelContents
  <2>2. taken[r] > 0 /\ out[r][taken[r]] = End
    BY <1>1 DEF Answered
  <2>3. taken[r] \in DOMAIN out[r]
    BY <2>1, <2>2
  <2>4. ~(taken[r] <= count[r])
    BY <2>1, <2>2, <2>3 DEF Tok, End
  <2>5. Closed(r) /\ taken[r] = Len(out[r]) /\ count[r] = taken[r] - 1
    BY <2>1, <2>4
  <2> QED
    BY <1>1, <2>5 DEF IInv, ReasonMatchesState, Closed
<1>2. IInv => AnswerIsWhole
  BY <1>1 DEF AnswerIsWhole
<1> QED
  BY <1>2, Invariant, PTL

------------------------------------------------------------------------------
\* The engine implements RequestLifecycle.

\* What the lifecycle sees of the engine's state: a request that has moved to
\* DECODING and has no token yet is still being prefilled.
Seen(r) == IF state[r] = "DECODING" /\ count[r] = 0 THEN "PREFILLING" ELSE state[r]

\* The sentinel is on a channel exactly when the invariant says so.
EndsAgree == \A r \in Requests : Ended(r) <=> Closed(r)

\* By the contents of the channels, it is.
LEMMA EndedIsClosed == IInv => EndsAgree
<1> SUFFICES ASSUME IInv, NEW r \in Requests PROVE Ended(r) <=> Closed(r)
  BY DEF EndsAgree
<1>1. /\ out[r] \in Seq({Tok, End}) /\ count[r] \in Nat
      /\ Len(out[r]) = count[r] + (IF Closed(r) THEN 1 ELSE 0)
      /\ \A i \in DOMAIN out[r] : out[r][i] = IF i <= count[r] THEN Tok ELSE End
  BY DEF IInv, TypeOK, LoopTypeOK, ApiTypeOK, ChannelContents
<1>2. DOMAIN out[r] = 1..Len(out[r]) /\ Len(out[r]) \in Nat
  BY <1>1
<1>3. ASSUME Closed(r) PROVE Ended(r)
  <2>1. count[r] + 1 \in DOMAIN out[r] /\ ~(count[r] + 1 <= count[r])
    BY <1>1, <1>2, <1>3
  <2> QED
    BY <1>1, <2>1 DEF Ended
<1>4. ASSUME ~Closed(r) PROVE ~Ended(r)
  <2>1. \A i \in DOMAIN out[r] : i <= count[r]
    BY <1>1, <1>2, <1>4
  <2> QED
    BY <1>1, <2>1 DEF Ended, Tok, End
<1> QED
  BY <1>3, <1>4

\* The initial states agree.
LEMMA LifecycleInit == Init => Lifecycle!Init
  BY DEF Init, LoopInit, ApiInit, Ended, Lifecycle!Init, Lifecycle!NoReason, NoReason

\* Steps that the lifecycle sees, told from what they do to one request.
LEMMA SeenAt ==
  ASSUME NEW r \in Requests, \A x \in Requests \ {r} : Seen(x)' = Seen(x)
  PROVE  [x \in Requests |-> Seen(x)]' = [[x \in Requests |-> Seen(x)] EXCEPT ![r] = Seen(r)']
  BY DEF Seen

\* Only the step that puts the sentinel ends an output.
LEMMA EndedFrame ==
  ASSUME IInv, [Next]_vars, ~(PutSentinel /\ UNCHANGED decodeVars)
  PROVE  [r \in Requests |-> Ended(r)]' = [r \in Requests |-> Ended(r)]
<1>1. IInv'
  BY StepInvariant
<1>2. EndsAgree /\ EndsAgree'
  BY <1>1, EndedIsClosed, PTL
<1>3. \A r \in Requests : Ended(r)' <=> Ended(r)
  BY <1>2, ClosedFrame DEF EndsAgree
<1>4. \A r \in Requests : Ended(r) \in BOOLEAN /\ Ended(r)' \in BOOLEAN
  BY DEF Ended
<1>5. \A r \in Requests : Ended(r)' = Ended(r)
  BY <1>3, <1>4
<1> QED
  BY <1>5

\* A step the lifecycle does not see.
LEMMA StutterStep ==
  ASSUME \A r \in Requests : Seen(r)' = Seen(r),
         UNCHANGED <<count, reason, [r \in Requests |-> Ended(r)]>>
  PROVE  UNCHANGED Lifecycle!lifecycleVars
  BY DEF Seen, Lifecycle!lifecycleVars

\* A step that moves one request, by a legal move, and counts and ends nothing.
LEMMA MoveStep ==
  ASSUME NEW r \in Requests, NEW s,
         \A x \in Requests \ {r} : Seen(x)' = Seen(x),
         s \in Lifecycle!Transitions[Seen(r)], Seen(r)' = s
  PROVE  Lifecycle!MoveTo(r, s)
<1>1. [x \in Requests |-> Seen(x)]' = [[x \in Requests |-> Seen(x)] EXCEPT ![r] = s]
  BY SeenAt
<1> QED
  BY <1>1 DEF Seen, Lifecycle!MoveTo

\* Every step is one of the lifecycle, or none it sees.
LEMMA LifecycleStep ==
  ASSUME IInv, [Next]_vars
  PROVE  [Lifecycle!Next]_(Lifecycle!lifecycleVars)
<1> USE DEF apiVars, loopVars, decodeVars
<1>0. /\ state \in [Requests -> RequestState] /\ count \in [Requests -> Nat]
      /\ reason \in [Requests -> FinishReason]
      /\ CurState /\ RoundsAreCounted /\ HandlerMatchesState
  BY DEF IInv, TypeOK, LoopTypeOK, ApiTypeOK
<1>1. CASE Unseen \/ LoopTop \/ NothingQueued \/ PopRequest \/ Generate \/ RoundOver \/ Finish
  <2>1. UNCHANGED <<state, count, reason>>
    BY <1>1
       DEF Unseen, LoopTop, NothingQueued, PopRequest, Generate, RoundOver, Finish, Release
  <2>2. ~(PutSentinel /\ UNCHANGED decodeVars) \/ out' = out
    BY <1>1 DEF Unseen, LoopTop, NothingQueued, PopRequest, Generate, InLoop, RoundOver,
                Finish, Release, PutSentinel
  <2>3. UNCHANGED [r \in Requests |-> Ended(r)]
    BY <2>2, EndedFrame DEF Ended
  <2>4. \A r \in Requests : Seen(r)' = Seen(r)
    BY <2>1 DEF Seen
  <2> QED
    BY <2>1, <2>3, <2>4, StutterStep
<1>2. CASE Prefill
  <2>1. /\ cur \in Requests /\ state[cur] = "PREFILLING" /\ count[cur] = 0
        /\ state' = [state EXCEPT ![cur] = "DECODING"] /\ UNCHANGED <<count, reason>>
    BY <1>0, <1>2, HeldRequest
       DEF Prefill, MoveTo, HoldingPc, DecodePc, CurState, RoundsAreCounted
  <2>2. \A r \in Requests : Seen(r)' = Seen(r)
    BY <1>0, <2>1 DEF Seen
  <2>3. UNCHANGED [r \in Requests |-> Ended(r)]
    BY <1>2, EndedFrame DEF Prefill, PutSentinel
  <2> QED
    BY <2>1, <2>2, <2>3, StutterStep
<1>3. CASE Begin /\ UNCHANGED decodeVars
  <2>1. /\ cur \in Requests /\ state[cur] = "ADMITTED"
        /\ state' = [state EXCEPT ![cur] = "PREFILLING"] /\ UNCHANGED <<count, reason>>
    BY <1>0, <1>3, HeldRequest DEF Begin, MoveTo, HoldingPc, CurState
  <2>2. PICK r \in Requests : r = cur
    BY <2>1
  <2>3. /\ \A x \in Requests \ {r} : Seen(x)' = Seen(x)
        /\ Seen(r) = "ADMITTED" /\ Seen(r)' = "PREFILLING"
    BY <1>0, <2>1, <2>2 DEF Seen
  <2>4. Lifecycle!MoveTo(r, "PREFILLING")
    BY <2>3, MoveStep DEF Lifecycle!Transitions
  <2>5. UNCHANGED [x \in Requests |-> Ended(x)]
    BY <1>3, EndedFrame DEF Begin, PutSentinel
  <2>6. Lifecycle!Start(r)
    BY <2>1, <2>4, <2>5 DEF Lifecycle!Start
  <2> QED
    BY <2>6 DEF Lifecycle!Next, Lifecycle!EngineStep
<1>4. CASE FirstToken
  <2>1. /\ cur \in Requests /\ Emit /\ state[cur] = "DECODING" /\ count[cur] = 0
        /\ UNCHANGED <<state, reason>>
    BY <1>0, <1>4, HeldRequest
       DEF FirstToken, HoldingPc, DecodePc, CurState, RoundsAreCounted
  <2>2. PICK r \in Requests : r = cur
    BY <2>1
  <2>3. count' = [count EXCEPT ![r] = 1]
    BY <1>0, <2>1, <2>2 DEF Emit
  <2>4. /\ \A x \in Requests \ {r} : Seen(x)' = Seen(x)
        /\ Seen(r) = "PREFILLING" /\ Seen(r)' = "DECODING"
    BY <1>0, <2>1, <2>2, <2>3 DEF Seen
  <2>5. Lifecycle!MoveTo(r, "DECODING")
    BY <2>4, MoveStep DEF Lifecycle!Transitions
  <2>6. UNCHANGED [x \in Requests |-> Ended(x)]
    BY <1>4, EndedFrame DEF FirstToken, PutSentinel
  <2>7. Lifecycle!FirstToken(r)
    BY <2>1, <2>3, <2>5, <2>6 DEF Lifecycle!FirstToken
  <2> QED
    BY <2>7 DEF Lifecycle!Next, Lifecycle!EngineStep
<1>5. CASE Deliver
  <2>1. /\ cur \in Requests /\ Emit /\ state[cur] = "DECODING" /\ pc = "put" /\ burst > 0
        /\ UNCHANGED <<state, reason>>
    BY <1>0, <1>5, HeldRequest DEF Deliver, HoldingPc, DecodePc, CurState
  <2>2. PICK r \in Requests : r = cur
    BY <2>1
  <2>3. count[r] >= 1 /\ count[r] + burst <= MaxTokens[r] /\ burst \in Nat /\ MaxTokens[r] \in Int
    BY <1>0, <2>1, <2>2, ApiAssumption, SingleStreamAssumption
       DEF RoundsAreCounted, IInv, TypeOK
  <2>4. count[r] < MaxTokens[r] + 0
    BY <1>0, <2>1, <2>3
  <2>5. count' = [count EXCEPT ![r] = count[r] + 1]
    BY <2>1, <2>2 DEF Emit
  <2>6. \A x \in Requests : Seen(x)' = Seen(x)
    BY <1>0, <2>1, <2>3, <2>5 DEF Seen
  <2>7. Seen(r) = "DECODING"
    BY <1>0, <2>1, <2>2, <2>3 DEF Seen
  <2>8. UNCHANGED [x \in Requests |-> Ended(x)]
    BY <1>5, EndedFrame DEF Deliver, PutSentinel
  <2>9. UNCHANGED [x \in Requests |-> Seen(x)]
    BY <2>6
  <2>10. Lifecycle!Produce(r)
    BY <2>1, <2>4, <2>5, <2>7, <2>8, <2>9 DEF Lifecycle!Produce, Seen
  <2> QED
    BY <2>10 DEF Lifecycle!Next, Lifecycle!EngineStep
<1>6. CASE PutSentinel /\ UNCHANGED decodeVars
  <2>1. /\ cur \in Requests /\ pc = "sentinel" /\ pc' = "release" /\ cur' = cur
        /\ state[cur] \in Terminal
        /\ UNCHANGED <<state, count, reason>>
    BY <1>0, <1>6, HeldRequest DEF PutSentinel, HoldingPc, FinallyPc, CurState
  <2>2. PICK r \in Requests : r = cur
    BY <2>1
  <2>3. EndsAgree /\ EndsAgree'
    BY StepInvariant, EndedIsClosed, PTL
  <2>4. ~Closed(r) /\ Closed(r)' /\ \A x \in Requests \ {r} : Closed(x)' <=> Closed(x)
    BY <2>1, <2>2 DEF Closed
  <2>5. ~Ended(r) /\ Ended(r)' /\ \A x \in Requests \ {r} : Ended(x)' <=> Ended(x)
    BY <2>3, <2>4 DEF EndsAgree
  <2>6. \A x \in Requests : Ended(x) \in BOOLEAN /\ Ended(x)' \in BOOLEAN
    BY DEF Ended
  <2>7. /\ Ended(r) = FALSE /\ Ended(r)' = TRUE
        /\ \A x \in Requests \ {r} : Ended(x)' = Ended(x)
    BY <2>5, <2>6
  <2>8. [x \in Requests |-> Ended(x)]' = [[x \in Requests |-> Ended(x)] EXCEPT ![r] = TRUE]
    BY <2>7
  <2>9. UNCHANGED [x \in Requests |-> Seen(x)]
    BY <2>1 DEF Seen
  <2>10. Seen(r) \in Lifecycle!Terminal
    BY <2>1, <2>2 DEF Seen, Terminal, Lifecycle!Terminal
  <2>11. Lifecycle!End(r)
    BY <2>1, <2>5, <2>8, <2>9, <2>10 DEF Lifecycle!End, Seen
  <2> QED
    BY <2>11 DEF Lifecycle!Next, Lifecycle!EngineStep
<1>7. ASSUME NEW s \in {"COMPLETED", "CANCELLED"}, NEW why \in FinishReason, Ending(s, why)
      PROVE  [Lifecycle!Next]_(Lifecycle!lifecycleVars)
  <2>1. /\ cur \in Requests /\ pc \in DecodePc /\ pc' = "sentinel"
        /\ state' = [state EXCEPT ![cur] = s] /\ reason' = [reason EXCEPT ![cur] = why]
        /\ count' = count /\ Justified(s, why)
        /\ s = "COMPLETED" => pc \in {"loop", "put"}
    BY <1>7, HeldRequest DEF Ending, EndAs, MoveTo, HoldingPc
  <2>2. PICK r \in Requests : r = cur
    BY <2>1
  <2>3. /\ state[r] \in {"PREFILLING", "DECODING"}
        /\ s = "COMPLETED" => state[r] = "DECODING" /\ count[r] # 0
    BY <1>0, <2>1, <2>2, SingleStreamAssumption
       DEF CurState, RoundsAreCounted, DecodePc, IInv, TypeOK
  <2>4. /\ \A x \in Requests \ {r} : Seen(x)' = Seen(x)
        /\ Seen(r)' = s
        /\ Seen(r) \in {"PREFILLING", "DECODING"}
        /\ s = "COMPLETED" => Seen(r) = "DECODING"
    BY <1>0, <2>1, <2>2, <2>3 DEF Seen
  <2>5. s \in Lifecycle!Transitions[Seen(r)]
    BY <2>4 DEF Lifecycle!Transitions
  <2>6. Lifecycle!MoveTo(r, s)
    BY <2>4, <2>5, MoveStep
  <2>7. UNCHANGED [x \in Requests |-> Ended(x)]
    BY <2>1, EndedFrame DEF PutSentinel, DecodePc
  <2>8. CASE s = "COMPLETED"
    <3>1. why \in {"stop", "length"} /\ (why = "length" => count[r] >= MaxTokens[r])
      BY <2>1, <2>2, <2>8 DEF Justified
    <3>2. Lifecycle!Complete(r)
      BY <2>1, <2>2, <2>6, <2>7, <2>8, <3>1 DEF Lifecycle!Complete
    <3> QED
      BY <3>2 DEF Lifecycle!Next, Lifecycle!EngineStep
  <2>9. CASE s = "CANCELLED"
    <3>1. why \in {"cancelled", "error"}
      BY <2>1, <2>9 DEF Justified
    <3>2. Lifecycle!Cancel(r)
      BY <2>1, <2>2, <2>6, <2>7, <2>9, <3>1 DEF Lifecycle!Cancel
    <3> QED
      BY <3>2 DEF Lifecycle!Next, Lifecycle!EngineStep
  <2> QED
    BY <2>8, <2>9
<1>8. ASSUME NEW r \in Requests, Accepts(r)
      PROVE  [Lifecycle!Next]_(Lifecycle!lifecycleVars)
  <2>1. /\ state[r] = "QUEUED" /\ state' = [state EXCEPT ![r] = "ADMITTED"]
        /\ UNCHANGED <<count, reason, out>>
    BY <1>0, <1>8 DEF Accepts, Accept, MoveTo, HandlerMatchesState
  <2>2. /\ \A x \in Requests \ {r} : Seen(x)' = Seen(x)
        /\ Seen(r) = "QUEUED" /\ Seen(r)' = "ADMITTED"
    BY <1>0, <2>1 DEF Seen
  <2>3. Lifecycle!MoveTo(r, "ADMITTED")
    BY <2>2, MoveStep DEF Lifecycle!Transitions
  <2>4. UNCHANGED [x \in Requests |-> Ended(x)]
    BY <2>1 DEF Ended
  <2>5. Lifecycle!Admit(r)
    BY <2>1, <2>3, <2>4 DEF Lifecycle!Admit
  <2> QED
    BY <2>5 DEF Lifecycle!Next
<1> HIDE DEF decodeVars
<1> QED
  BY StepCases, <1>1, <1>2, <1>3, <1>4, <1>5, <1>6, <1>7, <1>8 DEF ThreadMove

\* The engine does to each request what the lifecycle promises, and nothing
\* else: started once, tokens below the limit, a true outcome, one end of the
\* output, behind everything.
THEOREM LifecycleIsImplemented == Spec => ImplementsLifecycle
<1>1. IInv /\ [Next]_vars => [Lifecycle!Next]_(Lifecycle!lifecycleVars)
  BY LifecycleStep
<1> QED
  BY <1>1, LifecycleInit, Invariant, PTL
     DEF Spec, ImplementsLifecycle, Lifecycle!Spec
==============================================================================
