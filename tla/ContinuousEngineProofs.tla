------------------------ MODULE ContinuousEngineProofs ------------------------
(***************************************************************************)
(* Proofs about ContinuousEngine, for every set of requests, every limit,  *)
(* queue and channel depth: IInv of ContinuousEngineInv is inductive, and  *)
(* the safety properties of the engine follow from it.  There is a lemma   *)
(* for each conjunct of IInv, with a step for each action that changes a   *)
(* variable the conjunct reads.  The books of the KV memory, which the     *)
(* control does not look at, come after it (KvInv), and last the           *)
(* implementation of RequestLifecycle.                                     *)
(***************************************************************************)
EXTENDS ContinuousEngineInv, SumLemmas, FiniteSetTheorems, TLAPS

\* Arithmetic and cardinalities.
LEMMA ProductNat == \A m, n \in Nat : m * n \in Nat
  OBVIOUS

\* The smaller of two numbers.
LEMMA MinPair == ASSUME NEW a \in Int, NEW b \in Int
                 PROVE  Min({a, b}) = IF a <= b THEN a ELSE b
  BY DEF Min

\* The larger of two numbers.
LEMMA MaxPair == ASSUME NEW a \in Int, NEW b \in Int
                 PROVE  Max({a, b}) = IF a >= b THEN a ELSE b
  BY DEF Max

\* Where the code has a request at hand, cur is one.
LEMMA HeldRequest == ASSUME IInv, pc \in HoldingPc PROVE cur \in Requests
  BY DEF IInv, CurIsHeld

\* Delivering a token keeps the channels in their type.
LEMMA DeliverType == ASSUME TypeOK, NEW r \in Requests, Deliver(r)
                     PROVE  out' \in [Requests -> Seq({Tok, End})]
  BY DEF TypeOK, ApiTypeOK, Deliver, Put

\* So does counting it.
LEMMA CountType == ASSUME TypeOK, NEW r \in Requests, CountToken(r)
                   PROVE  /\ count' \in [Requests -> Nat]
                          /\ last' \in [Requests -> TokenKind]
<1>1. count' \in [Requests -> Nat]
  BY DEF TypeOK, TallyTypeOK, CountToken
<1>2. last' \in [Requests -> TokenKind]
  BY DEF TypeOK, TallyTypeOK, CountToken, KindsOf, TokenKind
<1> QED
  BY <1>1, <1>2

\* So does charging KV memory.
LEMMA ChargeType == ASSUME TypeOK, NEW r \in Requests, NEW bytes \in Nat,
                           Charge(r, bytes)
                    PROVE  /\ charged' \in [Requests -> Nat]
                           /\ kvUsed' \in Nat
  BY DEF TypeOK, TallyTypeOK, Charge

\* Leaving the decode pass resets what the pass kept.
LEMMA ToRetireType == ASSUME TypeOK, ToRetire, UNCHANGED <<running, slots, shutdown>>
                      PROVE  ThreadTypeOK'
<1>1. chunked' \in BOOLEAN
  BY DEF ToRetire
<1>2. round' \in 0..LoopBound /\ burst' \in 0..ChunkSize
  BY EngineAssumption DEF ToRetire
<1> QED
  BY <1>1, <1>2 DEF TypeOK, ThreadTypeOK, ToRetire, EnginePc

\* The running set is finite.
LEMMA RunningFinite == ASSUME TypeOK
                       PROVE  IsFiniteSet(running) /\ Cardinality(running) \in Nat
  BY ApiAssumption, FS_Subset, FS_CardinalityType DEF TypeOK, ThreadTypeOK

\* A set grows by at most one when an element is added.
LEMMA AddOne == ASSUME NEW S, IsFiniteSet(S), NEW x
                PROVE  /\ Cardinality(S \cup {x}) \in Nat
                       /\ Cardinality(S \cup {x}) <= Cardinality(S) + 1
<1>1. Cardinality(S) \in Nat
  BY FS_CardinalityType
<1>2. CASE x \in S
  <2>1. S \cup {x} = S
    BY <1>2
  <2> QED
    BY <1>1, <2>1
<1>3. CASE x \notin S
  BY <1>1, <1>3, FS_AddElement
<1> QED
  BY <1>2, <1>3

\* What a put does to a queue or a channel.
LEMMA AppendFacts == ASSUME NEW S, NEW q \in Seq(S), NEW x \in S
                     PROVE  /\ Len(q) \in Nat
                            /\ Len(Append(q, x)) = Len(q) + 1
                            /\ DOMAIN q = 1..Len(q)
                            /\ DOMAIN Append(q, x) = 1..Len(q) + 1
                            /\ \A i \in 1..Len(q) : Append(q, x)[i] = q[i]
                            /\ Append(q, x)[Len(q) + 1] = x
  OBVIOUS

\* The cap on the tokens of a request.
LEMMA TokenCapBounds == ASSUME NEW r \in Requests
                        PROVE  TokenCap(r) \in Nat /\ TokenCap(r) >= 1 /\ TokenCap(r) >= MaxTokens[r]
  BY ApiAssumption, MaxPair DEF TokenCap

\* What is left of a queue when its head is taken.
LEMMA TailFacts == ASSUME NEW S, NEW q \in Seq(S), q # <<>>
                   PROVE  /\ Len(Tail(q)) = Len(q) - 1
                          /\ Head(q) = q[1] /\ 1 \in DOMAIN q
                          /\ \A i \in DOMAIN Tail(q) :
                               /\ i + 1 \in DOMAIN q /\ i + 1 # 1 /\ i \in Nat
                               /\ Tail(q)[i] = q[i + 1]
  OBVIOUS

\* A burst is not empty and exceeds neither the chunk nor what is left.
LEMMA BurstFits == ASSUME NEW left \in Nat \ {0}
                   PROVE  /\ Min({ChunkSize, left}) \in Nat \ {0}
                          /\ Min({ChunkSize, left}) <= ChunkSize
                          /\ Min({ChunkSize, left}) <= left
  BY EngineAssumption, MinPair

------------------------------------------------------------------------------
\* The types.

\* The variables of the API boundary stay in their types.
LEMMA ApiStepType == ASSUME IInv, [Next]_vars PROVE ApiTypeOK'
<1> USE DEF IInv, TypeOK, ApiTypeOK, apiVars, boundary, loop, kv, engineVars
<1>1. CASE UNCHANGED <<events, handler, out, reason, snap, state, submitQ, taken>>
  BY <1>1
<1>2. CASE PopRequest
  BY <1>2 DEF PopRequest, NoSnap
<1>3. CASE InsertRequest
  <2>1. cur \in Requests
    BY <1>3, HeldRequest DEF InsertRequest, HoldingPc
  <2> QED
    BY <1>3, <2>1 DEF InsertRequest, MoveTo, RequestState
<1>4. CASE FirstCounted
  <2>1. cur \in Requests
    BY <1>4, HeldRequest DEF FirstCounted, HoldingPc
  <2> QED
    BY <1>4, <2>1 DEF FirstCounted, MoveTo, RequestState
<1>5. CASE SoloComplete
  <2>1. cur \in Requests
    BY <1>5, HeldRequest DEF SoloComplete, HoldingPc, SoloPc
  <2> QED
    BY <1>5, <2>1
       DEF SoloComplete, Complete, StopReason, MoveTo, RequestState,
           FinishReason
<1>6. CASE FirstToken \/ SoloPut \/ GroupPut
  <2>1. cur \in Requests
    BY <1>6, HeldRequest DEF FirstToken, SoloPut, GroupPut, HoldingPc, SoloPc
  <2> QED
    BY <1>6, <2>1, DeliverType DEF FirstToken, SoloPut, GroupPut
<1>7. CASE ChunkComplete
  <2>1. cur \in Requests
    BY <1>7, HeldRequest DEF ChunkComplete, HoldingPc, SoloPc
  <2> QED
    BY <1>7, <2>1
       DEF ChunkComplete, Complete, StopReason, MoveTo, RequestState,
           FinishReason
<1>8. ASSUME NEW r \in todo, GroupComplete(r)
      PROVE  ApiTypeOK'
  <2>1. r \in Requests
    BY DEF ThreadTypeOK
  <2> QED
    BY <1>8, <2>1
       DEF GroupComplete, Complete, StopReason, MoveTo, RequestState,
           FinishReason
<1>9. CASE SoloCounted \/ GroupCounted
  BY <1>1, <1>9 DEF SoloCounted, GroupCounted
<1>10. ASSUME NEW r \in todo, RetireVisit(r)
      PROVE  ApiTypeOK'
  <2>1. r \in Requests
    BY DEF ThreadTypeOK
  <2> QED
    BY <1>10, <2>1 DEF RetireVisit, MoveTo, RequestState, FinishReason
<1>11. CASE RetirePut
  <2>1. cur \in Requests
    BY <1>11, HeldRequest DEF RetirePut, HoldingPc
  <2> QED
    BY <1>11, <2>1 DEF RetirePut, Put
<1>12. ASSUME NEW r \in todo, CancelVisit(r)
      PROVE  ApiTypeOK'
  <2>1. r \in Requests
    BY DEF ThreadTypeOK
  <2> QED
    BY <1>12, <2>1 DEF CancelVisit, MoveTo, RequestState, FinishReason
<1>13. CASE CancelPut
  <2>1. cur \in Requests
    BY <1>13, HeldRequest DEF CancelPut, HoldingPc
  <2> QED
    BY <1>13, <2>1 DEF CancelPut, Put
<1>14. ASSUME NEW r \in Requests, ReadSnapshot(r, kvUsed, Cardinality(running)), UNCHANGED engineVars
      PROVE  ApiTypeOK'
  <2>1. Cardinality(running) \in Nat /\ kvUsed \in Nat
    BY RunningFinite DEF TallyTypeOK
  <2> QED
    BY <1>14, <2>1 DEF ReadSnapshot, ReadKvUsed, ReadRunning, Goto, Handler
<1>15. ASSUME NEW r \in Requests, Reject(r), UNCHANGED engineVars
      PROVE  ApiTypeOK'
  BY <1>15 DEF Reject, Goto, Handler, Event, NoSnap
<1>16. ASSUME NEW r \in Requests, Accept(r), UNCHANGED engineVars
      PROVE  ApiTypeOK'
  <2>1. submitQ' \in Seq(Requests)
    BY <1>16 DEF Accept
  <2>2. state' \in [Requests -> RequestState]
    BY <1>16 DEF Accept, MoveTo, RequestState
  <2> QED
    BY <1>16, <2>1, <2>2 DEF Accept, Goto, Handler, Event, NoSnap
<1>17. ASSUME NEW r \in Requests, OpenStream(r), UNCHANGED engineVars
      PROVE  ApiTypeOK'
  BY <1>17 DEF OpenStream, Goto, Handler, Event, NoSnap
<1>18. ASSUME NEW r \in Requests, Take(r), UNCHANGED engineVars
      PROVE  ApiTypeOK'
  <2>1. taken' \in [Requests -> Nat]
    BY <1>18 DEF Take
  <2>2. handler' \in [Requests -> Handler]
    BY <1>18 DEF Take, Goto, Handler
  <2> QED
    BY <1>18, <2>1, <2>2 DEF Take
<1>19. ASSUME NEW r \in Requests, Disconnect(r), UNCHANGED engineVars
      PROVE  ApiTypeOK'
  BY <1>19 DEF Disconnect, Goto, Handler, Event, NoSnap
<1>20. ASSUME NEW r \in Requests, DisconnectUnopened(r), UNCHANGED engineVars
      PROVE  ApiTypeOK'
  BY <1>20 DEF DisconnectUnopened, Goto, Handler, Event, NoSnap
<1>21. ASSUME NEW r \in Requests, Timeout(r), UNCHANGED engineVars
      PROVE  ApiTypeOK'
  BY <1>21 DEF Timeout, Goto, Handler, Event, NoSnap
<1>22. ASSUME NEW r \in Requests, Cancel(r), UNCHANGED engineVars
      PROVE  ApiTypeOK'
  BY <1>22 DEF Cancel, Goto, Handler, Event, NoSnap
<1>23. ASSUME NEW r \in Requests, Unregister(r), UNCHANGED engineVars
      PROVE  ApiTypeOK'
  BY <1>23 DEF Unregister, Goto, Handler, Event, NoSnap
<1>24. CASE UNCHANGED vars
  BY <1>1, <1>24 DEF vars
<1>25. ASSUME NEW r \in running, PickPrefill(r)
      PROVE  ApiTypeOK'
  BY <1>1, <1>25 DEF PickPrefill, Charge
<1>26. ASSUME NEW r \in todo, GroupGenerate(r)
      PROVE  ApiTypeOK'
  BY <1>1, <1>26 DEF GroupGenerate
<1>27. CASE LoopTop \/ AdmitDone \/ NoPrefill \/ NoDecode \/ StartSolo \/
           StartGroup \/ SoloCancelled \/ SoloGenerate \/ ChunkNext \/
           SoloLeave \/ SoloAgain \/ GroupDone \/ RetireRelease \/ RetireDone
           \/ CancelDone
  BY <1>1, <1>27
     DEF LoopTop, AdmitDone, NoPrefill, NoDecode, StartSolo, StartGroup,
         SoloCancelled, SoloGenerate, ChunkNext, SoloLeave, SoloAgain,
         GroupDone, RetireRelease, RetireDone, CancelDone, ToRetire, Charge,
         RoundOver
<1>28. CASE EngineStep
  BY <1>28, <1>2, <1>3, <1>4, <1>5, <1>6, <1>7, <1>8, <1>9, <1>10, <1>11, <1>12,
     <1>13, <1>25, <1>26, <1>27
     DEF EngineStep
<1>29. CASE ApiStep
  BY <1>29, <1>14, <1>15, <1>16, <1>17, <1>18, <1>19, <1>20, <1>21, <1>22, <1>23
     DEF ApiStep, HandlerStep, ClientFault
<1>30. CASE RequestShutdown
  BY <1>1, <1>30 DEF RequestShutdown
<1> QED
  BY <1>28, <1>29, <1>30, <1>24 DEF Next

\* So do those of the engine thread: no counter of its loop leaves its range.
LEMMA ThreadStep == ASSUME IInv, [Next]_vars PROVE ThreadTypeOK'
<1> USE DEF IInv, TypeOK, ThreadTypeOK, EnginePc, apiVars, boundary, loop, kv,
            engineVars
<1>1. CASE UNCHANGED <<burst, chunked, cur, pc, round, running, shutdown, slots, todo>>
  BY <1>1
<1>2. CASE LoopTop
  <2>1. slots' \in 0..MaxConcurrent
    BY <1>2, RunningFinite, AdmissionAssumption, MaxPair DEF LoopTop
  <2> QED
    BY <1>2, <2>1 DEF LoopTop
<1>3. CASE PopRequest
  <2>1. cur' \in Requests
    BY <1>3 DEF ApiTypeOK, PopRequest
  <2>2. slots' \in 0..MaxConcurrent
    BY <1>3, AdmissionAssumption DEF PopRequest
  <2> QED
    BY <1>3, <2>1, <2>2 DEF PopRequest
<1>4. CASE InsertRequest
  <2>1. cur \in Requests
    BY <1>4, HeldRequest DEF InsertRequest, HoldingPc
  <2> QED
    BY <1>4, <2>1 DEF InsertRequest
<1>5. CASE AdmitDone
  BY <1>5 DEF AdmitDone
<1>6. ASSUME NEW r \in running, PickPrefill(r)
      PROVE  ThreadTypeOK'
  BY <1>6 DEF PickPrefill, Charge
<1>7. CASE NoPrefill
  BY <1>7 DEF NoPrefill
<1>8. CASE FirstToken \/ FirstCounted
  BY <1>8 DEF FirstToken, FirstCounted, Deliver, CountToken, Charge, MoveTo, Put
<1>9. CASE NoDecode
  BY <1>9, ToRetireType DEF NoDecode
<1>10. CASE StartSolo
  <2>1. PICK r \in running, c \in BOOLEAN : cur' = r /\ chunked' = c
    BY <1>10 DEF StartSolo
  <2>2. chunked' \in BOOLEAN
    BY <2>1
  <2>3. round' \in 0..LoopBound
    BY <1>10, EngineAssumption DEF StartSolo
  <2> QED
    BY <1>10, <2>1, <2>2, <2>3 DEF StartSolo
<1>11. CASE StartGroup
  BY <1>11 DEF StartGroup, Decodable
<1>12. CASE SoloComplete
  BY <1>12, ToRetireType DEF SoloComplete
<1>13. CASE SoloCancelled
  BY <1>13, ToRetireType DEF SoloCancelled
<1>14. CASE SoloGenerate
  <2>1. cur \in Requests
    BY <1>14, HeldRequest DEF SoloGenerate, HoldingPc, SoloPc
  <2>2. MaxTokens[cur] - count[cur] \in Nat \ {0}
    BY <1>14, <2>1, ApiAssumption DEF TallyTypeOK, SoloGenerate, AtLimit
  <2>3. burst' \in 0..ChunkSize
    <3>1. burst' = 1 \/ burst' = Min({ChunkSize, MaxTokens[cur] - count[cur]})
      BY <1>14 DEF SoloGenerate
    <3> QED
      BY <2>2, <3>1, BurstFits, EngineAssumption
  <2> QED
    BY <1>14, <2>3 DEF SoloGenerate
<1>15. CASE SoloPut \/ SoloCounted
  <2>1. CASE SoloPut
    BY <2>1 DEF SoloPut
  <2>2. CASE SoloCounted
    <3>1. burst' \in 0..ChunkSize
      BY <2>2, EngineAssumption DEF SoloCounted, CountBounds
    <3> QED
      BY <2>2, <3>1 DEF SoloCounted
  <2> QED
    BY <1>15, <2>1, <2>2
<1>16. CASE ChunkComplete
  BY <1>16, ToRetireType DEF ChunkComplete
<1>17. CASE ChunkNext
  BY <1>17 DEF ChunkNext
<1>18. CASE SoloLeave
  BY <1>18, ToRetireType DEF SoloLeave
<1>19. CASE SoloAgain
  <2>1. round' \in 0..LoopBound
    BY <1>19, EngineAssumption DEF SoloAgain
  <2> QED
    BY <1>19, <2>1 DEF SoloAgain, RoundOver
<1>20. ASSUME NEW r \in todo, GroupComplete(r)
      PROVE  ThreadTypeOK'
  BY <1>20 DEF GroupComplete, Complete, MoveTo
<1>21. ASSUME NEW r \in todo, GroupGenerate(r)
      PROVE  ThreadTypeOK'
  BY <1>21 DEF GroupGenerate
<1>22. CASE GroupPut \/ GroupCounted
  BY <1>22 DEF GroupPut, GroupCounted, Deliver, CountToken, Charge, Put
<1>23. CASE GroupDone
  BY <1>23, ToRetireType DEF GroupDone
<1>24. ASSUME NEW r \in todo, RetireVisit(r)
      PROVE  ThreadTypeOK'
  BY <1>24 DEF RetireVisit, MoveTo
<1>25. CASE RetirePut
  BY <1>25 DEF RetirePut, Put
<1>26. CASE RetireRelease
  BY <1>26 DEF RetireRelease
<1>27. CASE RetireDone
  BY <1>27 DEF RetireDone
<1>28. ASSUME NEW r \in todo, CancelVisit(r)
      PROVE  ThreadTypeOK'
  BY <1>28 DEF CancelVisit, MoveTo
<1>29. CASE CancelPut
  BY <1>29 DEF CancelPut, Put
<1>30. CASE CancelDone
  BY <1>30 DEF CancelDone
<1>31. CASE RequestShutdown
  BY <1>31 DEF RequestShutdown
<1>32. CASE UNCHANGED vars
  BY <1>1, <1>32 DEF vars
<1>33. CASE EngineStep
  BY <1>33, <1>2, <1>3, <1>4, <1>5, <1>6, <1>7, <1>8, <1>9, <1>10, <1>11, <1>12,
     <1>13, <1>14, <1>15, <1>16, <1>17, <1>18, <1>19, <1>20, <1>21, <1>22,
     <1>23, <1>24, <1>25, <1>26, <1>27, <1>28, <1>29, <1>30
     DEF EngineStep
<1>34. CASE /\ \E r \in Requests :
                ReadSnapshot(r, kvUsed, Cardinality(running)) \/
                Reject(r) \/ Accept(r) \/ OpenStream(r) \/ Take(r) \/
                Disconnect(r) \/ DisconnectUnopened(r) \/ Timeout(r) \/
                Cancel(r) \/ Unregister(r)
           /\ UNCHANGED engineVars
  BY <1>1, <1>34
     DEF ReadSnapshot, ReadKvUsed, ReadRunning, Reject, Accept, OpenStream, Take, Disconnect,
         DisconnectUnopened, Timeout, Cancel, Unregister, Goto, MoveTo
<1>35. CASE ApiStep
  BY <1>35, <1>34 DEF ApiStep, HandlerStep, ClientFault
<1> QED
  BY <1>33, <1>35, <1>31, <1>32 DEF Next

\* So do the counters of tokens and of KV memory.
LEMMA TallyStep == ASSUME IInv, [Next]_vars PROVE TallyTypeOK'
<1> USE DEF IInv, TypeOK, TallyTypeOK, apiVars, boundary, loop, kv, engineVars
<1>1. CASE UNCHANGED <<charged, count, kvUsed, last>>
  BY <1>1
<1>2. ASSUME NEW r \in running, PickPrefill(r)
      PROVE  TallyTypeOK'
  <2>1. r \in Requests /\ Prompt[r] * BytesPerToken \in Nat
    BY ApiAssumption, AdmissionAssumption, ProductNat DEF ThreadTypeOK
  <2> QED
    BY <1>2, <2>1, ChargeType DEF PickPrefill
<1>3. CASE FirstCounted
  <2>1. cur \in Requests
    BY <1>3, HeldRequest DEF FirstCounted, HoldingPc, SoloPc
  <2> QED
    BY <1>3, <2>1, AdmissionAssumption, CountType, ChargeType DEF FirstCounted
<1>4. CASE SoloGenerate
  <2>1. cur \in Requests
    BY <1>4, HeldRequest DEF SoloGenerate, HoldingPc, SoloPc
  <2>2. ChunkSize * BytesPerToken \in Nat
    BY AdmissionAssumption, EngineAssumption, ProductNat
  <2> QED
    BY <1>4, <2>1, <2>2, ChargeType DEF SoloGenerate
<1>5. CASE SoloCounted
  <2>1. cur \in Requests
    BY <1>5, HeldRequest DEF SoloCounted, HoldingPc, SoloPc
  <2> QED
    BY <1>5, <2>1, AdmissionAssumption, CountType, ChargeType DEF SoloCounted
<1>6. CASE GroupCounted
  <2>1. cur \in Requests
    BY <1>6, HeldRequest DEF GroupCounted, HoldingPc, SoloPc
  <2> QED
    BY <1>6, <2>1, AdmissionAssumption, CountType, ChargeType DEF GroupCounted
<1>7. CASE RetireRelease
  <2>1. cur \in Requests
    BY <1>7, HeldRequest DEF RetireRelease, HoldingPc
  <2>2. kvUsed - charged[cur] \in Int
    BY <2>1
  <2> QED
    BY <1>7, <2>1, <2>2, MaxPair DEF RetireRelease
<1>8. CASE UNCHANGED vars
  BY <1>1, <1>8 DEF vars
<1>9. ASSUME NEW r \in todo, GroupComplete(r)
      PROVE  TallyTypeOK'
  BY <1>1, <1>9 DEF GroupComplete, Complete, MoveTo
<1>10. ASSUME NEW r \in todo, GroupGenerate(r)
      PROVE  TallyTypeOK'
  BY <1>1, <1>10 DEF GroupGenerate
<1>11. ASSUME NEW r \in todo, RetireVisit(r)
      PROVE  TallyTypeOK'
  BY <1>1, <1>11 DEF RetireVisit, MoveTo
<1>12. ASSUME NEW r \in todo, CancelVisit(r)
      PROVE  TallyTypeOK'
  BY <1>1, <1>12 DEF CancelVisit, MoveTo
<1>13. CASE LoopTop \/ PopRequest \/ InsertRequest \/ AdmitDone \/ NoPrefill
           \/ FirstToken \/ SoloPut \/ GroupPut \/ NoDecode \/ StartSolo \/ StartGroup \/ SoloComplete \/
           SoloCancelled \/ ChunkComplete \/ ChunkNext \/ SoloLeave \/
           SoloAgain \/ GroupDone \/ RetirePut \/ RetireDone \/ CancelPut \/
           CancelDone
  BY <1>1, <1>13
     DEF LoopTop, PopRequest, InsertRequest, AdmitDone, NoPrefill, FirstToken,
         SoloPut, GroupPut, Deliver, NoDecode,
         StartSolo, StartGroup, SoloComplete, SoloCancelled, ChunkComplete,
         ChunkNext, SoloLeave, SoloAgain, GroupDone, RetirePut, RetireDone,
         CancelPut, CancelDone, MoveTo, ToRetire, Complete, RoundOver, Put
<1>14. CASE EngineStep
  BY <1>14, <1>2, <1>3, <1>4, <1>5, <1>6, <1>7, <1>9, <1>10, <1>11, <1>12, <1>13
     DEF EngineStep
<1>15. CASE /\ \E r \in Requests :
                ReadSnapshot(r, kvUsed, Cardinality(running)) \/
                Reject(r) \/ Accept(r) \/ OpenStream(r) \/ Take(r) \/
                Disconnect(r) \/ DisconnectUnopened(r) \/ Timeout(r) \/
                Cancel(r) \/ Unregister(r)
           /\ UNCHANGED engineVars
  BY <1>1, <1>15
     DEF ReadSnapshot, ReadKvUsed, ReadRunning, Reject, Accept, OpenStream, Take, Disconnect,
         DisconnectUnopened, Timeout, Cancel, Unregister, Goto, MoveTo
<1>16. CASE ApiStep
  BY <1>16, <1>15 DEF ApiStep, HandlerStep, ClientFault
<1>17. CASE RequestShutdown
  BY <1>1, <1>17 DEF RequestShutdown
<1> QED
  BY <1>14, <1>16, <1>17, <1>8 DEF Next

------------------------------------------------------------------------------
\* Capacity.

\* max_new, computed once per iteration, is never more than the room left.
LEMMA CapacityStep == ASSUME IInv, [Next]_vars PROVE (CapacityRespected /\ SlotsInUse)'
<1> USE DEF IInv, TypeOK, ThreadTypeOK, CapacityRespected, SlotsInUse, Held,
            apiVars, boundary, loop, kv, engineVars
<1>1. CASE UNCHANGED <<pc, running, slots>>
  BY <1>1, RunningFinite, AdmissionAssumption
<1>2. CASE LoopTop
  <2>1. CASE ~shutdown
    BY <1>2, <2>1, RunningFinite, AdmissionAssumption, MaxPair DEF LoopTop
  <2>2. CASE shutdown
    BY <1>2, <2>2, RunningFinite, AdmissionAssumption DEF LoopTop
  <2> QED
    BY <2>1, <2>2
<1>3. CASE PopRequest
  BY <1>3, RunningFinite, AdmissionAssumption DEF PopRequest
<1>4. CASE InsertRequest
  <2>1. cur \in Requests
    BY <1>4, HeldRequest DEF InsertRequest, HoldingPc
  <2>2. /\ Cardinality(running') <= Cardinality(running) + 1
        /\ Cardinality(running') \in Nat
    BY <1>4, RunningFinite, AddOne DEF InsertRequest
  <2> QED
    BY <1>4, <2>2, RunningFinite, AdmissionAssumption DEF InsertRequest
<1>5. CASE AdmitDone
  BY <1>5, RunningFinite, AdmissionAssumption DEF AdmitDone
<1>6. ASSUME NEW r \in running, PickPrefill(r)
      PROVE  (CapacityRespected /\ SlotsInUse)'
  BY <1>6, RunningFinite, AdmissionAssumption DEF PickPrefill, Charge
<1>7. CASE NoPrefill
  BY <1>7, RunningFinite, AdmissionAssumption DEF NoPrefill
<1>8. CASE FirstToken \/ FirstCounted
  BY <1>8, RunningFinite, AdmissionAssumption
     DEF FirstToken, FirstCounted, Deliver, CountToken, Charge, MoveTo, Put
<1>9. CASE NoDecode
  BY <1>9, RunningFinite, AdmissionAssumption DEF NoDecode, ToRetire
<1>10. CASE StartSolo
  BY <1>10, RunningFinite, AdmissionAssumption DEF StartSolo
<1>11. CASE StartGroup
  BY <1>11, RunningFinite, AdmissionAssumption DEF StartGroup
<1>12. CASE SoloComplete
  BY <1>12, RunningFinite, AdmissionAssumption
     DEF SoloComplete, Complete, ToRetire, MoveTo
<1>13. CASE SoloCancelled
  BY <1>13, RunningFinite, AdmissionAssumption DEF SoloCancelled, ToRetire
<1>14. CASE SoloGenerate
  BY <1>14, RunningFinite, AdmissionAssumption DEF SoloGenerate, Charge
<1>15. CASE SoloPut \/ SoloCounted
  BY <1>15, RunningFinite, AdmissionAssumption DEF SoloPut, SoloCounted, Deliver, CountToken, Charge, Put
<1>16. CASE ChunkComplete
  BY <1>16, RunningFinite, AdmissionAssumption
     DEF ChunkComplete, Complete, ToRetire, MoveTo
<1>17. CASE ChunkNext
  BY <1>17, RunningFinite, AdmissionAssumption DEF ChunkNext
<1>18. CASE SoloLeave
  BY <1>18, RunningFinite, AdmissionAssumption
     DEF SoloLeave, ToRetire, RoundOver
<1>19. CASE SoloAgain
  BY <1>19, RunningFinite, AdmissionAssumption DEF SoloAgain, RoundOver
<1>20. ASSUME NEW r \in todo, GroupGenerate(r)
      PROVE  (CapacityRespected /\ SlotsInUse)'
  BY <1>20, RunningFinite, AdmissionAssumption DEF GroupGenerate
<1>21. CASE GroupPut \/ GroupCounted
  BY <1>21, RunningFinite, AdmissionAssumption DEF GroupPut, GroupCounted, Deliver, CountToken, Charge, Put
<1>22. CASE GroupDone
  BY <1>22, RunningFinite, AdmissionAssumption DEF GroupDone, ToRetire
<1>23. ASSUME NEW r \in todo, RetireVisit(r)
      PROVE  (CapacityRespected /\ SlotsInUse)'
  BY <1>23, RunningFinite, AdmissionAssumption DEF RetireVisit, MoveTo
<1>24. CASE RetirePut
  BY <1>24, RunningFinite, AdmissionAssumption DEF RetirePut, Put
<1>25. CASE RetireRelease
  BY <1>25, RunningFinite, AdmissionAssumption DEF RetireRelease
<1>26. CASE RetireDone
  <2>1. /\ Cardinality(running') <= Cardinality(running)
        /\ Cardinality(running') \in Nat
    <3>1. running' \subseteq running
      BY <1>26 DEF RetireDone
    <3> QED
      BY <3>1, RunningFinite, FS_Subset, FS_CardinalityType
  <2> QED
    BY <1>26, <2>1, RunningFinite, AdmissionAssumption DEF RetireDone
<1>27. ASSUME NEW r \in todo, CancelVisit(r)
      PROVE  (CapacityRespected /\ SlotsInUse)'
  BY <1>27, RunningFinite, AdmissionAssumption DEF CancelVisit, MoveTo
<1>28. CASE CancelPut
  BY <1>28, RunningFinite, AdmissionAssumption DEF CancelPut, Put
<1>29. CASE CancelDone
  <2>1. Cardinality(running') = 0
    BY <1>29, FS_EmptySet DEF CancelDone
  <2> QED
    BY <1>29, <2>1, RunningFinite, AdmissionAssumption DEF CancelDone
<1>30. CASE UNCHANGED vars
  BY <1>1, <1>30 DEF vars
<1>31. ASSUME NEW r \in todo, GroupComplete(r)
      PROVE  (CapacityRespected /\ SlotsInUse)'
  BY <1>1, <1>31 DEF GroupComplete, Complete, MoveTo
<1>32. CASE EngineStep
  BY <1>32, <1>2, <1>3, <1>4, <1>5, <1>6, <1>7, <1>8, <1>9, <1>10, <1>11, <1>12,
     <1>13, <1>14, <1>15, <1>16, <1>17, <1>18, <1>19, <1>20, <1>21, <1>22,
     <1>23, <1>24, <1>25, <1>26, <1>27, <1>28, <1>29, <1>31
     DEF EngineStep
<1>33. CASE /\ \E r \in Requests :
                ReadSnapshot(r, kvUsed, Cardinality(running)) \/
                Reject(r) \/ Accept(r) \/ OpenStream(r) \/ Take(r) \/
                Disconnect(r) \/ DisconnectUnopened(r) \/ Timeout(r) \/
                Cancel(r) \/ Unregister(r)
           /\ UNCHANGED engineVars
  BY <1>1, <1>33
     DEF ReadSnapshot, ReadKvUsed, ReadRunning, Reject, Accept, OpenStream, Take, Disconnect,
         DisconnectUnopened, Timeout, Cancel, Unregister, Goto, MoveTo
<1>34. CASE ApiStep
  BY <1>34, <1>33 DEF ApiStep, HandlerStep, ClientFault
<1>35. CASE RequestShutdown
  BY <1>1, <1>35 DEF RequestShutdown
<1> QED
  BY <1>32, <1>34, <1>35, <1>30 DEF Next

\* A request is accepted only while the queue alone is below the limit.
LEMMA QueueStep == ASSUME IInv, [Next]_vars PROVE (Len(submitQ) <= MaxConcurrent)'
<1> USE DEF IInv, TypeOK, ApiTypeOK, apiVars, boundary, loop, kv, engineVars
<1>1. CASE UNCHANGED <<submitQ>>
  BY <1>1
<1>2. CASE PopRequest
  <2>1. /\ submitQ \in Seq(Requests)
        /\ submitQ # <<>>
        /\ submitQ' = Tail(submitQ)
    BY <1>2 DEF PopRequest
  <2>2. Len(submitQ') = Len(submitQ) - 1
    BY <2>1, TailFacts
  <2> QED
    BY <2>1, <2>2, AdmissionAssumption
<1>3. ASSUME NEW r \in Requests, Accept(r), UNCHANGED engineVars
      PROVE  (Len(submitQ) <= MaxConcurrent)'
  <2>1. submitQ \in Seq(Requests) /\ snap.running \in Nat
    OBVIOUS
  <2>2. snap.running + Len(submitQ) < MaxConcurrent
    BY <1>3, <2>1, AdmissionAssumption DEF Accept, Decision, Decide
  <2>3. Len(submitQ') = Len(submitQ) + 1
    BY <1>3, <2>1 DEF Accept
  <2> QED
    BY <2>1, <2>2, <2>3, AdmissionAssumption
<1>4. CASE UNCHANGED vars
  BY <1>1, <1>4 DEF vars
<1>5. ASSUME NEW r \in running, PickPrefill(r)
      PROVE  (Len(submitQ) <= MaxConcurrent)'
  BY <1>1, <1>5 DEF PickPrefill, Charge
<1>6. ASSUME NEW r \in todo, GroupComplete(r)
      PROVE  (Len(submitQ) <= MaxConcurrent)'
  BY <1>1, <1>6 DEF GroupComplete, Complete, MoveTo
<1>7. ASSUME NEW r \in todo, GroupGenerate(r)
      PROVE  (Len(submitQ) <= MaxConcurrent)'
  BY <1>1, <1>7 DEF GroupGenerate
<1>8. ASSUME NEW r \in todo, RetireVisit(r)
      PROVE  (Len(submitQ) <= MaxConcurrent)'
  BY <1>1, <1>8 DEF RetireVisit, MoveTo
<1>9. ASSUME NEW r \in todo, CancelVisit(r)
      PROVE  (Len(submitQ) <= MaxConcurrent)'
  BY <1>1, <1>9 DEF CancelVisit, MoveTo
<1>10. CASE LoopTop \/ InsertRequest \/ AdmitDone \/ NoPrefill \/ FirstToken \/ FirstCounted
           \/ NoDecode \/ StartSolo \/ StartGroup \/ SoloComplete \/
           SoloCancelled \/ SoloGenerate \/ SoloPut \/ SoloCounted \/ ChunkComplete \/
           ChunkNext \/ SoloLeave \/ SoloAgain \/ GroupPut \/ GroupCounted \/ GroupDone \/
           RetirePut \/ RetireRelease \/ RetireDone \/ CancelPut \/
           CancelDone
  BY <1>1, <1>10
     DEF LoopTop, InsertRequest, AdmitDone, NoPrefill, FirstToken, FirstCounted, NoDecode,
         StartSolo, StartGroup, SoloComplete, SoloCancelled, SoloGenerate,
         SoloPut, SoloCounted, ChunkComplete, ChunkNext, SoloLeave, SoloAgain, GroupPut, GroupCounted,
         GroupDone, RetirePut, RetireRelease, RetireDone, CancelPut, CancelDone,
         MoveTo, Deliver, CountToken, Charge, Put, ToRetire, Complete, RoundOver
<1>11. CASE EngineStep
  BY <1>11, <1>2, <1>5, <1>6, <1>7, <1>8, <1>9, <1>10 DEF EngineStep
<1>12. CASE /\ \E r \in Requests :
                ReadSnapshot(r, kvUsed, Cardinality(running)) \/
                Reject(r) \/ OpenStream(r) \/ Take(r) \/ Disconnect(r)
                \/ DisconnectUnopened(r) \/ Timeout(r) \/ Cancel(r) \/
                Unregister(r)
           /\ UNCHANGED engineVars
  BY <1>1, <1>12
     DEF ReadSnapshot, ReadKvUsed, ReadRunning, Reject, OpenStream, Take, Disconnect, DisconnectUnopened,
         Timeout, Cancel, Unregister, Goto
<1>13. CASE ApiStep
  BY <1>13, <1>3, <1>12 DEF ApiStep, HandlerStep, ClientFault
<1>14. CASE RequestShutdown
  BY <1>1, <1>14 DEF RequestShutdown
<1> QED
  BY <1>11, <1>13, <1>14, <1>4 DEF Next

------------------------------------------------------------------------------
\* Where a request is.

\* The thread takes and drops the request at hand where its pc says so.
LEMMA HeldStep == ASSUME IInv, [Next]_vars PROVE CurIsHeld'
<1> USE DEF IInv, CurIsHeld, HoldingPc, SoloPc, TypeOK, ThreadTypeOK, ApiTypeOK,
            apiVars, boundary, loop, kv, engineVars
<1>1. CASE UNCHANGED <<cur, pc>>
  BY <1>1, EngineAssumption
<1>2. CASE LoopTop
  BY <1>2 DEF LoopTop
<1>3. CASE PopRequest
  BY <1>3 DEF PopRequest
<1>4. CASE InsertRequest
  BY <1>4, EngineAssumption DEF InsertRequest, MoveTo
<1>5. CASE AdmitDone
  BY <1>5 DEF AdmitDone
<1>6. ASSUME NEW r \in running, PickPrefill(r)
      PROVE  CurIsHeld'
  BY <1>6 DEF PickPrefill, Charge
<1>7. CASE NoPrefill
  BY <1>7 DEF NoPrefill
<1>8. CASE FirstToken \/ FirstCounted
  BY <1>8, EngineAssumption DEF FirstToken, FirstCounted, Deliver, CountToken, Charge, MoveTo, Put
<1>9. CASE NoDecode
  BY <1>9 DEF NoDecode, ToRetire
<1>10. CASE StartSolo
  BY <1>10 DEF StartSolo
<1>11. CASE StartGroup
  BY <1>11 DEF StartGroup
<1>12. CASE SoloComplete
  BY <1>12, EngineAssumption DEF SoloComplete, Complete, ToRetire, MoveTo
<1>13. CASE SoloCancelled
  BY <1>13, EngineAssumption DEF SoloCancelled, ToRetire
<1>14. CASE SoloGenerate
  BY <1>14 DEF SoloGenerate, Charge
<1>15. CASE SoloPut \/ SoloCounted
  BY <1>15 DEF SoloPut, SoloCounted, Deliver, CountToken, Charge, Put
<1>16. CASE ChunkComplete
  BY <1>16, EngineAssumption DEF ChunkComplete, Complete, ToRetire, MoveTo
<1>17. CASE ChunkNext
  BY <1>17 DEF ChunkNext
<1>18. CASE SoloLeave
  BY <1>18, EngineAssumption DEF SoloLeave, ToRetire, RoundOver
<1>19. CASE SoloAgain
  BY <1>19 DEF SoloAgain, RoundOver
<1>20. ASSUME NEW r \in todo, GroupGenerate(r)
      PROVE  CurIsHeld'
  BY <1>20 DEF GroupGenerate
<1>21. CASE GroupPut \/ GroupCounted
  BY <1>21, EngineAssumption DEF GroupPut, GroupCounted, Deliver, CountToken, Charge, Put
<1>22. CASE GroupDone
  BY <1>22 DEF GroupDone, ToRetire
<1>23. ASSUME NEW r \in todo, RetireVisit(r)
      PROVE  CurIsHeld'
  BY <1>23 DEF RetireVisit, MoveTo
<1>24. CASE RetirePut
  BY <1>24 DEF RetirePut, Put
<1>25. CASE RetireRelease
  BY <1>25, EngineAssumption DEF RetireRelease
<1>26. CASE RetireDone
  BY <1>26 DEF RetireDone
<1>27. ASSUME NEW r \in todo, CancelVisit(r)
      PROVE  CurIsHeld'
  BY <1>27 DEF CancelVisit, MoveTo
<1>28. CASE CancelPut
  BY <1>28, EngineAssumption DEF CancelPut, Put
<1>29. CASE CancelDone
  BY <1>29 DEF CancelDone
<1>30. CASE UNCHANGED vars
  BY <1>1, <1>30 DEF vars
<1>31. ASSUME NEW r \in todo, GroupComplete(r)
      PROVE  CurIsHeld'
  BY <1>1, <1>31 DEF GroupComplete, Complete, MoveTo
<1>32. CASE EngineStep
  BY <1>32, <1>2, <1>3, <1>4, <1>5, <1>6, <1>7, <1>8, <1>9, <1>10, <1>11, <1>12,
     <1>13, <1>14, <1>15, <1>16, <1>17, <1>18, <1>19, <1>20, <1>21, <1>22,
     <1>23, <1>24, <1>25, <1>26, <1>27, <1>28, <1>29, <1>31
     DEF EngineStep
<1>33. CASE /\ \E r \in Requests :
                ReadSnapshot(r, kvUsed, Cardinality(running)) \/
                Reject(r) \/ Accept(r) \/ OpenStream(r) \/ Take(r) \/
                Disconnect(r) \/ DisconnectUnopened(r) \/ Timeout(r) \/
                Cancel(r) \/ Unregister(r)
           /\ UNCHANGED engineVars
  BY <1>1, <1>33
     DEF ReadSnapshot, ReadKvUsed, ReadRunning, Reject, Accept, OpenStream, Take, Disconnect,
         DisconnectUnopened, Timeout, Cancel, Unregister, Goto, MoveTo
<1>34. CASE ApiStep
  BY <1>34, <1>33 DEF ApiStep, HandlerStep, ClientFault
<1>35. CASE RequestShutdown
  BY <1>1, <1>35 DEF RequestShutdown
<1> QED
  BY <1>32, <1>34, <1>35, <1>30 DEF Next

\* Whatever runs has been admitted; before the decode pass none has ended.
LEMMA RunningStatesStep == ASSUME IInv, [Next]_vars PROVE RunningStates'
<1> USE DEF IInv, RunningStates, BeforeDecodePc, Terminal, TypeOK, ThreadTypeOK,
            ApiTypeOK, apiVars, boundary, loop, kv, engineVars
<1>1. CASE UNCHANGED <<pc, running, state>>
  BY <1>1
<1>2. CASE LoopTop
  BY <1>2 DEF LoopTop
<1>3. CASE PopRequest
  BY <1>3 DEF PopRequest
<1>4. CASE InsertRequest
  <2>1. cur \in Requests
    BY <1>4, HeldRequest DEF InsertRequest, HoldingPc
  <2>2. \A r \in running : state[r] \in {"PREFILLING", "DECODING"}
    BY <1>4 DEF InsertRequest
  <2>3. \A r \in running' : state'[r] \in {"PREFILLING", "DECODING"}
    BY <1>4, <2>1, <2>2 DEF InsertRequest, MoveTo
  <2> QED
    BY <2>3
<1>5. CASE AdmitDone
  BY <1>5 DEF AdmitDone
<1>6. ASSUME NEW r \in running, PickPrefill(r)
      PROVE  RunningStates'
  BY <1>6 DEF PickPrefill, Charge
<1>7. CASE NoPrefill
  BY <1>7 DEF NoPrefill
<1>8. CASE FirstToken \/ FirstCounted
  BY <1>8 DEF FirstToken, FirstCounted, Deliver, CountToken, Charge, MoveTo, Put
<1>9. CASE NoDecode
  BY <1>9 DEF NoDecode, ToRetire
<1>10. CASE StartSolo
  BY <1>10 DEF StartSolo
<1>11. CASE StartGroup
  BY <1>11 DEF StartGroup
<1>12. CASE SoloComplete
  BY <1>12 DEF SoloComplete, Complete, ToRetire, MoveTo
<1>13. CASE SoloCancelled
  BY <1>13 DEF SoloCancelled, ToRetire
<1>14. CASE SoloGenerate
  BY <1>14 DEF SoloGenerate, Charge
<1>15. CASE SoloPut \/ SoloCounted
  BY <1>15 DEF SoloPut, SoloCounted, Deliver, CountToken, Charge, Put
<1>16. CASE ChunkComplete
  BY <1>16 DEF ChunkComplete, Complete, ToRetire, MoveTo
<1>17. CASE ChunkNext
  BY <1>17 DEF ChunkNext
<1>18. CASE SoloLeave
  BY <1>18 DEF SoloLeave, ToRetire, RoundOver
<1>19. CASE SoloAgain
  BY <1>19 DEF SoloAgain, RoundOver
<1>20. ASSUME NEW r \in todo, GroupComplete(r)
      PROVE  RunningStates'
  BY <1>20 DEF GroupComplete, Complete, MoveTo
<1>21. ASSUME NEW r \in todo, GroupGenerate(r)
      PROVE  RunningStates'
  BY <1>21 DEF GroupGenerate
<1>22. CASE GroupPut \/ GroupCounted
  BY <1>22 DEF GroupPut, GroupCounted, Deliver, CountToken, Charge, Put
<1>23. CASE GroupDone
  BY <1>23 DEF GroupDone, ToRetire
<1>24. ASSUME NEW r \in todo, RetireVisit(r)
      PROVE  RunningStates'
  BY <1>24 DEF RetireVisit, MoveTo
<1>25. CASE RetirePut
  BY <1>25 DEF RetirePut, Put
<1>26. CASE RetireRelease
  BY <1>26 DEF RetireRelease
<1>27. CASE RetireDone
  BY <1>27 DEF RetireDone
<1>28. ASSUME NEW r \in todo, CancelVisit(r)
      PROVE  RunningStates'
  BY <1>28 DEF CancelVisit, MoveTo
<1>29. CASE CancelPut
  BY <1>29 DEF CancelPut, Put
<1>30. CASE CancelDone
  BY <1>30 DEF CancelDone
<1>31. ASSUME NEW r \in Requests, Accept(r), UNCHANGED engineVars
      PROVE  RunningStates'
  BY <1>31 DEF Accept, MoveTo, Goto, HandlerMatchesState
<1>32. CASE UNCHANGED vars
  BY <1>1, <1>32 DEF vars
<1>33. CASE EngineStep
  BY <1>33, <1>2, <1>3, <1>4, <1>5, <1>6, <1>7, <1>8, <1>9, <1>10, <1>11, <1>12,
     <1>13, <1>14, <1>15, <1>16, <1>17, <1>18, <1>19, <1>20, <1>21, <1>22,
     <1>23, <1>24, <1>25, <1>26, <1>27, <1>28, <1>29, <1>30
     DEF EngineStep
<1>34. CASE /\ \E r \in Requests :
                ReadSnapshot(r, kvUsed, Cardinality(running)) \/
                Reject(r) \/ OpenStream(r) \/ Take(r) \/ Disconnect(r)
                \/ DisconnectUnopened(r) \/ Timeout(r) \/ Cancel(r) \/
                Unregister(r)
           /\ UNCHANGED engineVars
  BY <1>1, <1>34
     DEF ReadSnapshot, ReadKvUsed, ReadRunning, Reject, OpenStream, Take, Disconnect, DisconnectUnopened,
         Timeout, Cancel, Unregister, Goto
<1>35. CASE ApiStep
  BY <1>35, <1>31, <1>34 DEF ApiStep, HandlerStep, ClientFault
<1>36. CASE RequestShutdown
  BY <1>1, <1>36 DEF RequestShutdown
<1> QED
  BY <1>33, <1>35, <1>36, <1>32 DEF Next

\* The state of the request at hand, and of those the pass has left.
LEMMA CurStateStep == ASSUME IInv, [Next]_vars PROVE CurState'
<1> USE DEF IInv, CurState, SoloPc, HoldingPc, CurIsHeld, RunningStates,
            Terminal, BeforeDecodePc, TypeOK, ThreadTypeOK, ApiTypeOK, apiVars,
            boundary, loop, kv, engineVars
<1>1. CASE UNCHANGED <<cur, pc, running, state, todo>>
  BY <1>1, EngineAssumption
<1>2. CASE LoopTop
  BY <1>2 DEF LoopTop
<1>3. CASE PopRequest
  BY <1>3 DEF PopRequest
<1>4. CASE InsertRequest
  BY <1>4 DEF InsertRequest, MoveTo
<1>5. CASE AdmitDone
  BY <1>5 DEF AdmitDone
<1>6. ASSUME NEW r \in running, PickPrefill(r)
      PROVE  CurState'
  BY <1>6 DEF PickPrefill, Charge, Prefillable
<1>7. CASE NoPrefill
  BY <1>7 DEF NoPrefill
<1>8. CASE FirstToken \/ FirstCounted
  BY <1>8 DEF FirstToken, FirstCounted, Deliver, CountToken, Charge, MoveTo, Put
<1>9. CASE NoDecode
  BY <1>9 DEF NoDecode, ToRetire
<1>10. CASE StartSolo
  BY <1>10 DEF StartSolo, SoloEligible, Decodable
<1>11. CASE StartGroup
  BY <1>11 DEF StartGroup, Decodable
<1>12. CASE SoloComplete
  BY <1>12 DEF SoloComplete, Complete, ToRetire, MoveTo
<1>13. CASE SoloCancelled
  BY <1>13 DEF SoloCancelled, ToRetire
<1>14. CASE SoloGenerate
  BY <1>14 DEF SoloGenerate, Charge
<1>15. CASE SoloPut \/ SoloCounted
  BY <1>15 DEF SoloPut, SoloCounted, Deliver, CountToken, Charge, Put
<1>16. CASE ChunkComplete
  BY <1>16 DEF ChunkComplete, Complete, ToRetire, MoveTo
<1>17. CASE ChunkNext
  BY <1>17 DEF ChunkNext
<1>18. CASE SoloLeave
  BY <1>18 DEF SoloLeave, ToRetire, RoundOver
<1>19. CASE SoloAgain
  BY <1>19 DEF SoloAgain, RoundOver
<1>20. ASSUME NEW r \in todo, GroupComplete(r)
      PROVE  CurState'
  BY <1>20 DEF GroupComplete, Complete, MoveTo
<1>21. ASSUME NEW r \in todo, GroupGenerate(r)
      PROVE  CurState'
  BY <1>21 DEF GroupGenerate
<1>22. CASE GroupPut \/ GroupCounted
  BY <1>22 DEF GroupPut, GroupCounted, Deliver, CountToken, Charge, Put
<1>23. CASE GroupDone
  BY <1>23 DEF GroupDone, ToRetire
<1>24. ASSUME NEW r \in todo, RetireVisit(r)
      PROVE  CurState'
  BY <1>24 DEF RetireVisit, MoveTo
<1>25. CASE RetirePut
  BY <1>25 DEF RetirePut, Put
<1>26. CASE RetireRelease
  BY <1>26 DEF RetireRelease
<1>27. CASE RetireDone
  BY <1>27 DEF RetireDone
<1>28. ASSUME NEW r \in todo, CancelVisit(r)
      PROVE  CurState'
  BY <1>28 DEF CancelVisit, MoveTo
<1>29. CASE CancelPut
  BY <1>29 DEF CancelPut, Put
<1>30. CASE CancelDone
  BY <1>30 DEF CancelDone
<1>31. ASSUME NEW r \in Requests, Accept(r), UNCHANGED engineVars
      PROVE  CurState'
  BY <1>31 DEF Accept, MoveTo, Goto, HandlerMatchesState
<1>32. CASE UNCHANGED vars
  BY <1>1, <1>32 DEF vars
<1>33. CASE EngineStep
  BY <1>33, <1>2, <1>3, <1>4, <1>5, <1>6, <1>7, <1>8, <1>9, <1>10, <1>11, <1>12,
     <1>13, <1>14, <1>15, <1>16, <1>17, <1>18, <1>19, <1>20, <1>21, <1>22,
     <1>23, <1>24, <1>25, <1>26, <1>27, <1>28, <1>29, <1>30
     DEF EngineStep
<1>34. CASE /\ \E r \in Requests :
                ReadSnapshot(r, kvUsed, Cardinality(running)) \/
                Reject(r) \/ OpenStream(r) \/ Take(r) \/ Disconnect(r)
                \/ DisconnectUnopened(r) \/ Timeout(r) \/ Cancel(r) \/
                Unregister(r)
           /\ UNCHANGED engineVars
  BY <1>1, <1>34
     DEF ReadSnapshot, ReadKvUsed, ReadRunning, Reject, OpenStream, Take, Disconnect, DisconnectUnopened,
         Timeout, Cancel, Unregister, Goto
<1>35. CASE ApiStep
  BY <1>35, <1>31, <1>34 DEF ApiStep, HandlerStep, ClientFault
<1>36. CASE RequestShutdown
  BY <1>1, <1>36 DEF RequestShutdown
<1> QED
  BY <1>33, <1>35, <1>36, <1>32 DEF Next

\* Only the handler creates a Request, and nothing takes it back to QUEUED.
LEMMA HandlerStateStep == ASSUME IInv, [Next]_vars PROVE HandlerMatchesState'
<1> USE DEF IInv, HandlerMatchesState, CurState, RunningStates,
            QueuedAreAdmitted, HoldingPc, CurIsHeld, SoloPc, TypeOK,
            ThreadTypeOK, ApiTypeOK, apiVars, boundary, loop, kv, engineVars
<1>1. CASE UNCHANGED <<handler, state>>
  BY <1>1
<1>2. CASE InsertRequest
  BY <1>2 DEF InsertRequest, MoveTo
<1>3. CASE FirstToken \/ FirstCounted
  BY <1>3 DEF FirstToken, FirstCounted, Deliver, CountToken, Charge, MoveTo, Put
<1>4. CASE SoloComplete
  BY <1>4 DEF SoloComplete, Complete, ToRetire, MoveTo
<1>5. CASE ChunkComplete
  BY <1>5 DEF ChunkComplete, Complete, ToRetire, MoveTo
<1>6. ASSUME NEW r \in todo, GroupComplete(r)
      PROVE  HandlerMatchesState'
  BY <1>6 DEF GroupComplete, Complete, MoveTo
<1>7. ASSUME NEW r \in todo, RetireVisit(r)
      PROVE  HandlerMatchesState'
  BY <1>7 DEF RetireVisit, MoveTo
<1>8. ASSUME NEW r \in todo, CancelVisit(r)
      PROVE  HandlerMatchesState'
  BY <1>8 DEF CancelVisit, MoveTo
<1>9. ASSUME NEW r \in Requests, ReadSnapshot(r, kvUsed, Cardinality(running)), UNCHANGED engineVars
      PROVE  HandlerMatchesState'
  BY <1>9 DEF ReadSnapshot, ReadKvUsed, ReadRunning, Goto
<1>10. ASSUME NEW r \in Requests, Reject(r), UNCHANGED engineVars
      PROVE  HandlerMatchesState'
  BY <1>10 DEF Reject, Goto
<1>11. ASSUME NEW r \in Requests, Accept(r), UNCHANGED engineVars
      PROVE  HandlerMatchesState'
  BY <1>11 DEF Accept, MoveTo, Goto
<1>12. ASSUME NEW r \in Requests, OpenStream(r), UNCHANGED engineVars
      PROVE  HandlerMatchesState'
  BY <1>12 DEF OpenStream, Goto
<1>13. ASSUME NEW r \in Requests, Take(r), UNCHANGED engineVars
      PROVE  HandlerMatchesState'
  BY <1>13 DEF Take, Goto
<1>14. ASSUME NEW r \in Requests, Disconnect(r), UNCHANGED engineVars
      PROVE  HandlerMatchesState'
  BY <1>14 DEF Disconnect, Goto
<1>15. ASSUME NEW r \in Requests, DisconnectUnopened(r), UNCHANGED engineVars
      PROVE  HandlerMatchesState'
  BY <1>15 DEF DisconnectUnopened, Goto
<1>16. ASSUME NEW r \in Requests, Timeout(r), UNCHANGED engineVars
      PROVE  HandlerMatchesState'
  BY <1>16 DEF Timeout, Goto
<1>17. ASSUME NEW r \in Requests, Cancel(r), UNCHANGED engineVars
      PROVE  HandlerMatchesState'
  BY <1>17 DEF Cancel, Goto
<1>18. ASSUME NEW r \in Requests, Unregister(r), UNCHANGED engineVars
      PROVE  HandlerMatchesState'
  BY <1>18 DEF Unregister, Goto
<1>19. CASE UNCHANGED vars
  BY <1>1, <1>19 DEF vars
<1>20. ASSUME NEW r \in running, PickPrefill(r)
      PROVE  HandlerMatchesState'
  BY <1>1, <1>20 DEF PickPrefill, Charge
<1>21. ASSUME NEW r \in todo, GroupGenerate(r)
      PROVE  HandlerMatchesState'
  BY <1>1, <1>21 DEF GroupGenerate
<1>22. CASE LoopTop \/ PopRequest \/ AdmitDone \/ NoPrefill \/ NoDecode \/
           StartSolo \/ StartGroup \/ SoloCancelled \/ SoloGenerate \/
           SoloPut \/ SoloCounted \/ ChunkNext \/ SoloLeave \/ SoloAgain \/ GroupPut \/
           GroupCounted \/ GroupDone \/ RetirePut \/ RetireRelease \/ RetireDone \/ CancelPut
           \/ CancelDone
  BY <1>1, <1>22
     DEF LoopTop, PopRequest, AdmitDone, NoPrefill, NoDecode, StartSolo,
         StartGroup, SoloCancelled, SoloGenerate, SoloPut, SoloCounted, ChunkNext, SoloLeave,
         SoloAgain, GroupPut, GroupCounted, GroupDone, RetirePut, RetireRelease, RetireDone,
         CancelPut, CancelDone, ToRetire, Charge, Deliver, CountToken, Put, RoundOver
<1>23. CASE EngineStep
  BY <1>23, <1>2, <1>3, <1>4, <1>5, <1>6, <1>7, <1>8, <1>20, <1>21, <1>22
     DEF EngineStep
<1>24. CASE ApiStep
  BY <1>24, <1>9, <1>10, <1>11, <1>12, <1>13, <1>14, <1>15, <1>16, <1>17, <1>18
     DEF ApiStep, HandlerStep, ClientFault
<1>25. CASE RequestShutdown
  BY <1>1, <1>25 DEF RequestShutdown
<1> QED
  BY <1>23, <1>24, <1>25, <1>19 DEF Next

\* A queued request is ADMITTED, queued once, and not in the thread's hand.
LEMMA QueuedStep == ASSUME IInv, [Next]_vars PROVE QueuedAreAdmitted'
<1> USE DEF IInv, TypeOK, ThreadTypeOK, ApiTypeOK, apiVars, boundary, loop, kv,
            engineVars
<1>1. CASE UNCHANGED <<cur, pc, state, submitQ>>
  BY <1>1
     DEF QueuedAreAdmitted, HandlerMatchesState, CurState, RunningStates,
         CurIsHeld, HoldingPc, SoloPc
<1>2. CASE LoopTop
  BY <1>2 DEF QueuedAreAdmitted, LoopTop
<1>3. CASE PopRequest
  <2>1. /\ submitQ \in Seq(Requests) /\ submitQ # <<>>
        /\ cur' = Head(submitQ) /\ submitQ' = Tail(submitQ)
    BY <1>3 DEF PopRequest
  <2>2. cur' = submitQ[1] /\ 1 \in DOMAIN submitQ
    BY <2>1, TailFacts
  <2>3. \A i \in DOMAIN submitQ' :
          /\ i + 1 \in DOMAIN submitQ /\ i + 1 # 1 /\ i \in Nat
          /\ submitQ'[i] = submitQ[i + 1]
    BY <2>1, TailFacts
  <2>4. state' = state
    BY <1>3 DEF PopRequest
  <2>5. \A i \in DOMAIN submitQ' : state'[submitQ'[i]] = "ADMITTED" /\ submitQ'[i] # cur'
    BY <2>2, <2>3, <2>4 DEF QueuedAreAdmitted
  <2>6. \A i, j \in DOMAIN submitQ' : submitQ'[i] = submitQ'[j] => i = j
    BY <2>3 DEF QueuedAreAdmitted
  <2>7. state'[cur'] = "ADMITTED"
    BY <2>2, <2>4 DEF QueuedAreAdmitted
  <2> QED
    BY <2>5, <2>6, <2>7 DEF QueuedAreAdmitted
<1>4. CASE InsertRequest
  BY <1>4 DEF QueuedAreAdmitted, InsertRequest, MoveTo
<1>5. CASE AdmitDone
  BY <1>5 DEF QueuedAreAdmitted, AdmitDone
<1>6. ASSUME NEW r \in running, PickPrefill(r)
      PROVE  QueuedAreAdmitted'
  BY <1>6 DEF QueuedAreAdmitted, PickPrefill, Charge
<1>7. CASE NoPrefill
  BY <1>7 DEF QueuedAreAdmitted, NoPrefill
<1>8. CASE FirstToken \/ FirstCounted
  BY <1>8
     DEF QueuedAreAdmitted, CurState, SoloPc, FirstToken, FirstCounted, Deliver, CountToken, Charge, MoveTo,
         Put
<1>9. CASE NoDecode
  BY <1>9 DEF QueuedAreAdmitted, NoDecode, ToRetire
<1>10. CASE StartSolo
  BY <1>10 DEF QueuedAreAdmitted, StartSolo
<1>11. CASE StartGroup
  BY <1>11 DEF QueuedAreAdmitted, StartGroup
<1>12. CASE SoloComplete
  BY <1>12
     DEF QueuedAreAdmitted, CurState, SoloPc, SoloComplete, Complete, ToRetire,
         MoveTo
<1>13. CASE SoloCancelled
  BY <1>13 DEF QueuedAreAdmitted, SoloCancelled, ToRetire
<1>14. CASE SoloGenerate
  BY <1>14 DEF QueuedAreAdmitted, SoloGenerate, Charge
<1>15. CASE SoloPut \/ SoloCounted
  BY <1>15 DEF QueuedAreAdmitted, SoloPut, SoloCounted, Deliver, CountToken, Charge, Put
<1>16. CASE ChunkComplete
  BY <1>16
     DEF QueuedAreAdmitted, CurState, SoloPc, ChunkComplete, Complete, ToRetire,
         MoveTo
<1>17. CASE ChunkNext
  BY <1>17 DEF QueuedAreAdmitted, ChunkNext
<1>18. CASE SoloLeave
  BY <1>18 DEF QueuedAreAdmitted, SoloLeave, ToRetire, RoundOver
<1>19. CASE SoloAgain
  BY <1>19 DEF QueuedAreAdmitted, SoloAgain, RoundOver
<1>20. ASSUME NEW r \in todo, GroupComplete(r)
      PROVE  QueuedAreAdmitted'
  BY <1>20
     DEF QueuedAreAdmitted, CurState, SoloPc, GroupComplete, Complete, MoveTo
<1>21. ASSUME NEW r \in todo, GroupGenerate(r)
      PROVE  QueuedAreAdmitted'
  BY <1>21 DEF QueuedAreAdmitted, GroupGenerate
<1>22. CASE GroupPut \/ GroupCounted
  BY <1>22 DEF QueuedAreAdmitted, GroupPut, GroupCounted, Deliver, CountToken, Charge, Put
<1>23. CASE GroupDone
  BY <1>23 DEF QueuedAreAdmitted, GroupDone, ToRetire
<1>24. ASSUME NEW r \in todo, RetireVisit(r)
      PROVE  QueuedAreAdmitted'
  BY <1>24 DEF QueuedAreAdmitted, RetireVisit, MoveTo
<1>25. CASE RetirePut
  BY <1>25 DEF QueuedAreAdmitted, RetirePut, Put
<1>26. CASE RetireRelease
  BY <1>26 DEF QueuedAreAdmitted, RetireRelease
<1>27. CASE RetireDone
  BY <1>27 DEF QueuedAreAdmitted, RetireDone
<1>28. ASSUME NEW r \in todo, CancelVisit(r)
      PROVE  QueuedAreAdmitted'
  BY <1>28 DEF QueuedAreAdmitted, CancelVisit, MoveTo
<1>29. CASE CancelPut
  BY <1>29 DEF QueuedAreAdmitted, CancelPut, Put
<1>30. CASE CancelDone
  BY <1>30 DEF QueuedAreAdmitted, CancelDone
<1>31. ASSUME NEW r \in Requests, Accept(r), UNCHANGED engineVars
      PROVE  QueuedAreAdmitted'
  <2>0. /\ DOMAIN submitQ' = 1..Len(submitQ) + 1
        /\ \A i \in 1..Len(submitQ) : submitQ'[i] = submitQ[i]
        /\ submitQ'[Len(submitQ) + 1] = r
    <3>1. submitQ \in Seq(Requests) /\ submitQ' = Append(submitQ, r)
      BY <1>31 DEF Accept
    <3> QED
      BY <3>1, AppendFacts
  <2>1. submitQ \in Seq(Requests) /\ Len(submitQ) \in Nat /\ DOMAIN submitQ = 1..Len(submitQ)
    OBVIOUS
  <2>2. \A i \in DOMAIN submitQ' :
          \/ i \in DOMAIN submitQ /\ submitQ'[i] = submitQ[i]
          \/ i = Len(submitQ) + 1 /\ submitQ'[i] = r
    <3>1. TAKE i \in DOMAIN submitQ'
    <3>2. i \in 1..Len(submitQ) \/ i = Len(submitQ) + 1
      BY <2>0, <2>1
    <3> QED
      BY <2>0, <2>1, <3>2
  <2>3. state[r] = "QUEUED"
    BY <1>31 DEF HandlerMatchesState, Accept
  <2>4. \A i \in DOMAIN submitQ : state[submitQ[i]] = "ADMITTED" /\ submitQ[i] # r
    BY <2>3 DEF QueuedAreAdmitted
  <2>5. /\ state' = [state EXCEPT ![r] = "ADMITTED"]
        /\ pc' = pc /\ cur' = cur
    BY <1>31 DEF Accept, MoveTo
  <2>6. \A i \in DOMAIN submitQ' : state'[submitQ'[i]] = "ADMITTED"
    BY <2>2, <2>4, <2>5
  <2>7. \A i, j \in DOMAIN submitQ' : submitQ'[i] = submitQ'[j] => i = j
    BY <2>1, <2>2, <2>4 DEF QueuedAreAdmitted
  <2>8. ASSUME pc = "insert"
        PROVE  state'[cur] = "ADMITTED" /\ \A i \in DOMAIN submitQ' : submitQ'[i] # cur
    <3>1. cur \in Requests
      BY <2>8, HeldRequest DEF HoldingPc
    <3>2. cur # r /\ state[cur] = "ADMITTED"
      BY <2>3, <2>8 DEF QueuedAreAdmitted
    <3> QED
      BY <2>2, <2>5, <2>8, <3>1, <3>2 DEF QueuedAreAdmitted
  <2> QED
    BY <2>5, <2>6, <2>7, <2>8 DEF QueuedAreAdmitted
<1>32. CASE UNCHANGED vars
  BY <1>1, <1>32 DEF vars
<1>33. CASE EngineStep
  BY <1>33, <1>2, <1>3, <1>4, <1>5, <1>6, <1>7, <1>8, <1>9, <1>10, <1>11, <1>12,
     <1>13, <1>14, <1>15, <1>16, <1>17, <1>18, <1>19, <1>20, <1>21, <1>22,
     <1>23, <1>24, <1>25, <1>26, <1>27, <1>28, <1>29, <1>30
     DEF EngineStep
<1>34. CASE /\ \E r \in Requests :
                ReadSnapshot(r, kvUsed, Cardinality(running)) \/
                Reject(r) \/ OpenStream(r) \/ Take(r) \/ Disconnect(r)
                \/ DisconnectUnopened(r) \/ Timeout(r) \/ Cancel(r) \/
                Unregister(r)
           /\ UNCHANGED engineVars
  BY <1>1, <1>34
     DEF ReadSnapshot, ReadKvUsed, ReadRunning, Reject, OpenStream, Take, Disconnect, DisconnectUnopened,
         Timeout, Cancel, Unregister, Goto
<1>35. CASE ApiStep
  BY <1>35, <1>31, <1>34 DEF ApiStep, HandlerStep, ClientFault
<1>36. CASE RequestShutdown
  BY <1>1, <1>36 DEF RequestShutdown
<1> QED
  BY <1>33, <1>35, <1>36, <1>32 DEF Next

------------------------------------------------------------------------------
\* What a request was given.

\* Whoever's sentinel is put has all its tokens counted.
LEMMA DeliveredType == ASSUME IInv, NEW r \in Requests
                       PROVE  Delivered(r) \in Nat /\ (Closed(r) => Delivered(r) = count[r])
<1>1. count[r] \in Nat
  BY DEF IInv, TypeOK, TallyTypeOK
<1>2. ASSUME r = cur, pc \in CountPc PROVE ~Closed(r)
  BY <1>2 DEF CountPc, IInv, CurState, SoloPc, Closed, Terminal
<1> QED
  BY <1>1, <1>2 DEF Delivered, Uncounted

\* A step that delivers and takes nothing and closes nothing keeps the channels.
LEMMA ChannelFrame == ASSUME IInv, UNCHANGED <<out, taken>>,
                             \A r \in Requests : Delivered(r)' = Delivered(r),
                             \A r \in Requests : Closed(r)' <=> Closed(r)
                      PROVE  ChannelContents'
  BY DEF IInv, ChannelContents

\* One token more on the channel of a request whose sentinel is not there yet.
LEMMA TokenAppended ==
  ASSUME IInv, NEW r \in Requests, Put(r, Tok), ~Closed(r), UNCHANGED taken,
         Delivered(r)' = Delivered(r) + 1,
         \A x \in Requests \ {r} : Delivered(x)' = Delivered(x),
         \A x \in Requests : Closed(x)' <=> Closed(x)
  PROVE  ChannelContents'
<1>1. /\ out[r] \in Seq({Tok, End})
      /\ Delivered(r) \in Nat /\ taken[r] \in Nat
      /\ out' = [out EXCEPT ![r] = Append(out[r], Tok)]
  BY DeliveredType DEF IInv, TypeOK, ApiTypeOK, Put
<1>2. /\ out'[r] = Append(out[r], Tok)
      /\ \A x \in Requests \ {r} : out'[x] = out[x]
  BY <1>1 DEF IInv, TypeOK, ApiTypeOK
<1>3. /\ Len(out'[r]) = Len(out[r]) + 1
      /\ DOMAIN out'[r] = 1..Len(out[r]) + 1
      /\ \A i \in 1..Len(out[r]) : out'[r][i] = out[r][i]
      /\ out'[r][Len(out[r]) + 1] = Tok
      /\ DOMAIN out[r] = 1..Len(out[r])
  BY <1>1, <1>2, AppendFacts
<1>4. Len(out[r]) = Delivered(r) /\ taken[r] <= Len(out[r])
  BY <1>1 DEF IInv, ChannelContents
<1>5. \A i \in DOMAIN out'[r] : out'[r][i] = IF i <= Delivered(r)' THEN Tok ELSE End
  BY <1>1, <1>2, <1>3, <1>4 DEF IInv, ChannelContents
<1>6. taken'[r] <= Len(out'[r]) /\ Len(out'[r]) = Delivered(r)'
  BY <1>1, <1>2, <1>3, <1>4
<1>7. ASSUME NEW x \in Requests
      PROVE  /\ Len(out'[x]) = Delivered(x)' + (IF Closed(x)' THEN 1 ELSE 0)
             /\ \A i \in DOMAIN out'[x] : out'[x][i] = IF i <= Delivered(x)' THEN Tok ELSE End
             /\ taken'[x] <= Len(out'[x])
  <2>1. CASE x = r
    BY <2>1, <1>1, <1>2, <1>5, <1>6
  <2>2. CASE x # r
    BY <2>2, <1>2 DEF IInv, ChannelContents
  <2> QED
    BY <2>1, <2>2
<1> QED
  BY <1>7 DEF ChannelContents

\* The sentinel, behind the last token.
LEMMA SentinelAppended ==
  ASSUME IInv, NEW r \in Requests, Put(r, End), UNCHANGED taken,
         \A x \in Requests : Delivered(x)' = Delivered(x),
         ~Closed(r), Closed(r)',
         \A x \in Requests \ {r} : Closed(x)' <=> Closed(x)
  PROVE  ChannelContents'
<1>1. /\ out[r] \in Seq({Tok, End})
      /\ Delivered(r) \in Nat /\ taken[r] \in Nat
      /\ out' = [out EXCEPT ![r] = Append(out[r], End)]
  BY DeliveredType DEF IInv, TypeOK, ApiTypeOK, Put
<1>2. /\ out'[r] = Append(out[r], End)
      /\ \A x \in Requests \ {r} : out'[x] = out[x]
  BY <1>1 DEF IInv, TypeOK, ApiTypeOK
<1>3. /\ Len(out'[r]) = Len(out[r]) + 1
      /\ DOMAIN out'[r] = 1..Len(out[r]) + 1
      /\ \A i \in 1..Len(out[r]) : out'[r][i] = out[r][i]
      /\ out'[r][Len(out[r]) + 1] = End
      /\ DOMAIN out[r] = 1..Len(out[r])
  BY <1>1, <1>2, AppendFacts
<1>4. Len(out[r]) = Delivered(r) /\ taken[r] <= Len(out[r])
  BY <1>1 DEF IInv, ChannelContents
<1>5. \A i \in DOMAIN out'[r] : out'[r][i] = IF i <= Delivered(r) THEN Tok ELSE End
  BY <1>1, <1>2, <1>3, <1>4 DEF IInv, ChannelContents
<1>6. taken[r] <= Len(out'[r]) /\ Len(out'[r]) = Delivered(r) + 1
  BY <1>1, <1>2, <1>3, <1>4
<1>7. ASSUME NEW x \in Requests
      PROVE  /\ Len(out'[x]) = Delivered(x)' + (IF Closed(x)' THEN 1 ELSE 0)
             /\ \A i \in DOMAIN out'[x] : out'[x][i] = IF i <= Delivered(x)' THEN Tok ELSE End
             /\ taken'[x] <= Len(out'[x])
  <2>1. CASE x = r
    BY <2>1, <1>1, <1>2, <1>5, <1>6
  <2>2. CASE x # r
    BY <2>2, <1>2 DEF IInv, ChannelContents
  <2> QED
    BY <2>1, <2>2
<1> QED
  BY <1>7 DEF ChannelContents

\* Tokens, then one sentinel: no step breaks the order on a channel.
LEMMA ChannelStep == ASSUME IInv, [Next]_vars PROVE ChannelContents'
<1> USE DEF IInv, TypeOK, ThreadTypeOK, ApiTypeOK, TallyTypeOK, apiVars,
            boundary, loop, kv, engineVars, Delivered, Uncounted, CountPc
<1>1. CASE UNCHANGED <<count, cur, out, pc, running, state, taken, todo>>
  BY <1>1 DEF ChannelContents, Closed
<1>2. CASE LoopTop
  <2>1. \A x \in Requests : Closed(x)' <=> Closed(x)
    BY <1>2 DEF Closed, RetirePc, LoopTop
  <2> QED
    BY <1>2, <2>1, ChannelFrame DEF LoopTop
<1>3. CASE PopRequest
  <2>1. \A x \in Requests : Closed(x)' <=> Closed(x)
    BY <1>3 DEF Closed, RetirePc, PopRequest
  <2> QED
    BY <1>3, <2>1, ChannelFrame DEF PopRequest
<1>4. CASE InsertRequest
  <2>1. \A x \in Requests : Closed(x)' <=> Closed(x)
    BY <1>4, EngineAssumption
       DEF Closed, RetirePc, Terminal, CurState, RunningStates, BeforeDecodePc,
           SoloPc, HoldingPc, CurIsHeld, HandlerMatchesState, QueuedAreAdmitted,
           InsertRequest, MoveTo
  <2> QED
    BY <1>4, <2>1, ChannelFrame DEF InsertRequest
<1>5. CASE AdmitDone
  <2>1. \A x \in Requests : Closed(x)' <=> Closed(x)
    BY <1>5 DEF Closed, RetirePc, AdmitDone
  <2> QED
    BY <1>5, <2>1, ChannelFrame DEF AdmitDone
<1>6. ASSUME NEW r \in running, PickPrefill(r)
      PROVE  ChannelContents'
  <2>1. \A x \in Requests : Closed(x)' <=> Closed(x)
    BY <1>6 DEF Closed, RetirePc, PickPrefill, Charge
  <2> QED
    BY <1>6, <2>1, ChannelFrame DEF PickPrefill
<1>7. CASE NoPrefill
  <2>1. \A x \in Requests : Closed(x)' <=> Closed(x)
    BY <1>7 DEF Closed, RetirePc, NoPrefill
  <2> QED
    BY <1>7, <2>1, ChannelFrame DEF NoPrefill
<1>8. CASE FirstToken \/ FirstCounted
  <2>1. PICK r \in Requests : r = cur
    BY <1>8, HeldRequest DEF FirstToken, FirstCounted, HoldingPc, SoloPc
  <2>2. \A x \in Requests : Closed(x)' <=> Closed(x)
    BY <1>8, <2>1, EngineAssumption
       DEF Closed, RetirePc, Terminal, CurState, SoloPc, FirstToken, FirstCounted, MoveTo
  <2>3. CASE FirstToken
    <3>1. ~Closed(r)
      BY <2>1, <2>3 DEF CurState, SoloPc, Closed, Terminal, FirstToken
    <3>2. /\ Delivered(r)' = Delivered(r) + 1
          /\ \A x \in Requests \ {r} : Delivered(x)' = Delivered(x)
      BY <2>1, <2>3 DEF FirstToken
    <3>3. Put(r, Tok) /\ UNCHANGED taken
      BY <2>1, <2>3 DEF FirstToken, Deliver
    <3> HIDE DEF Delivered, Uncounted, CountPc, IInv
    <3> QED
      BY <2>1, <2>2, <3>1, <3>2, <3>3, TokenAppended
  <2>4. CASE FirstCounted
    <3>1. \A x \in Requests : Delivered(x)' = Delivered(x)
      BY <2>1, <2>4, EngineAssumption DEF FirstCounted, CountToken
    <3>2. UNCHANGED <<out, taken>>
      BY <2>4 DEF FirstCounted
    <3> QED
      BY <2>2, <3>1, <3>2, ChannelFrame
  <2> QED
    BY <1>8, <2>3, <2>4
<1>9. CASE NoDecode
  <2>1. \A x \in Requests : Closed(x)' <=> Closed(x)
    BY <1>9 DEF Closed, RetirePc, NoDecode, ToRetire
  <2> QED
    BY <1>9, <2>1, ChannelFrame DEF NoDecode, ToRetire
<1>10. CASE StartSolo
  <2>1. \A x \in Requests : Closed(x)' <=> Closed(x)
    BY <1>10 DEF Closed, RetirePc, StartSolo
  <2> QED
    BY <1>10, <2>1, ChannelFrame DEF StartSolo
<1>11. CASE StartGroup
  <2>1. \A x \in Requests : Closed(x)' <=> Closed(x)
    BY <1>11 DEF Closed, RetirePc, StartGroup
  <2> QED
    BY <1>11, <2>1, ChannelFrame DEF StartGroup
<1>12. CASE SoloComplete
  <2>1. \A x \in Requests : Closed(x)' <=> Closed(x)
    BY <1>12
       DEF Closed, RetirePc, CurState, SoloPc, Terminal, SoloComplete, Complete,
           ToRetire, MoveTo
  <2> QED
    BY <1>12, <2>1, ChannelFrame DEF SoloComplete, ToRetire
<1>13. CASE SoloCancelled
  <2>1. \A x \in Requests : Closed(x)' <=> Closed(x)
    BY <1>13 DEF Closed, RetirePc, SoloCancelled, ToRetire
  <2> QED
    BY <1>13, <2>1, ChannelFrame DEF SoloCancelled, ToRetire
<1>14. CASE SoloGenerate
  <2>1. \A x \in Requests : Closed(x)' <=> Closed(x)
    BY <1>14 DEF Closed, RetirePc, SoloGenerate, Charge
  <2> QED
    BY <1>14, <2>1, ChannelFrame DEF SoloGenerate
<1>15. CASE SoloPut \/ SoloCounted
  <2>1. PICK r \in Requests : r = cur
    BY <1>15, HeldRequest DEF SoloPut, SoloCounted, HoldingPc, SoloPc
  <2>2. \A x \in Requests : Closed(x)' <=> Closed(x)
    BY <1>15, <2>1, EngineAssumption
       DEF Closed, RetirePc, Terminal, CurState, SoloPc, SoloPut, SoloCounted, MoveTo
  <2>3. CASE SoloPut
    <3>1. ~Closed(r)
      BY <2>1, <2>3 DEF CurState, SoloPc, Closed, Terminal, SoloPut
    <3>2. /\ Delivered(r)' = Delivered(r) + 1
          /\ \A x \in Requests \ {r} : Delivered(x)' = Delivered(x)
      BY <2>1, <2>3 DEF SoloPut
    <3>3. Put(r, Tok) /\ UNCHANGED taken
      BY <2>1, <2>3 DEF SoloPut, Deliver
    <3> HIDE DEF Delivered, Uncounted, CountPc, IInv
    <3> QED
      BY <2>1, <2>2, <3>1, <3>2, <3>3, TokenAppended
  <2>4. CASE SoloCounted
    <3>1. \A x \in Requests : Delivered(x)' = Delivered(x)
      BY <2>1, <2>4, EngineAssumption DEF SoloCounted, CountToken
    <3>2. UNCHANGED <<out, taken>>
      BY <2>4 DEF SoloCounted
    <3> QED
      BY <2>2, <3>1, <3>2, ChannelFrame
  <2> QED
    BY <1>15, <2>3, <2>4
<1>16. CASE ChunkComplete
  <2>1. \A x \in Requests : Closed(x)' <=> Closed(x)
    BY <1>16
       DEF Closed, RetirePc, CurState, SoloPc, Terminal, ChunkComplete,
           Complete, ToRetire, MoveTo
  <2> QED
    BY <1>16, <2>1, ChannelFrame DEF ChunkComplete, ToRetire
<1>17. CASE ChunkNext
  <2>1. \A x \in Requests : Closed(x)' <=> Closed(x)
    BY <1>17 DEF Closed, RetirePc, ChunkNext
  <2> QED
    BY <1>17, <2>1, ChannelFrame DEF ChunkNext
<1>18. CASE SoloLeave
  <2>1. \A x \in Requests : Closed(x)' <=> Closed(x)
    BY <1>18 DEF Closed, RetirePc, SoloLeave, ToRetire, RoundOver
  <2> QED
    BY <1>18, <2>1, ChannelFrame DEF SoloLeave, ToRetire, RoundOver
<1>19. CASE SoloAgain
  <2>1. \A x \in Requests : Closed(x)' <=> Closed(x)
    BY <1>19 DEF Closed, RetirePc, SoloAgain, RoundOver
  <2> QED
    BY <1>19, <2>1, ChannelFrame DEF SoloAgain, RoundOver
<1>20. ASSUME NEW r \in todo, GroupComplete(r)
      PROVE  ChannelContents'
  <2>1. \A x \in Requests : Closed(x)' <=> Closed(x)
    BY <1>20 DEF Closed, RetirePc, GroupComplete, Complete, MoveTo
  <2> QED
    BY <1>20, <2>1, ChannelFrame DEF GroupComplete
<1>21. ASSUME NEW r \in todo, GroupGenerate(r)
      PROVE  ChannelContents'
  <2>1. \A x \in Requests : Closed(x)' <=> Closed(x)
    BY <1>21 DEF Closed, RetirePc, GroupGenerate
  <2> QED
    BY <1>21, <2>1, ChannelFrame DEF GroupGenerate
<1>22. CASE GroupPut \/ GroupCounted
  <2>1. PICK r \in Requests : r = cur
    BY <1>22, HeldRequest DEF GroupPut, GroupCounted, HoldingPc, SoloPc
  <2>2. \A x \in Requests : Closed(x)' <=> Closed(x)
    BY <1>22, <2>1, EngineAssumption
       DEF Closed, RetirePc, Terminal, CurState, SoloPc, GroupPut, GroupCounted, MoveTo
  <2>3. CASE GroupPut
    <3>1. ~Closed(r)
      BY <2>1, <2>3 DEF CurState, SoloPc, Closed, Terminal, GroupPut
    <3>2. /\ Delivered(r)' = Delivered(r) + 1
          /\ \A x \in Requests \ {r} : Delivered(x)' = Delivered(x)
      BY <2>1, <2>3 DEF GroupPut
    <3>3. Put(r, Tok) /\ UNCHANGED taken
      BY <2>1, <2>3 DEF GroupPut, Deliver
    <3> HIDE DEF Delivered, Uncounted, CountPc, IInv
    <3> QED
      BY <2>1, <2>2, <3>1, <3>2, <3>3, TokenAppended
  <2>4. CASE GroupCounted
    <3>1. \A x \in Requests : Delivered(x)' = Delivered(x)
      BY <2>1, <2>4, EngineAssumption DEF GroupCounted, CountToken
    <3>2. UNCHANGED <<out, taken>>
      BY <2>4 DEF GroupCounted
    <3> QED
      BY <2>2, <3>1, <3>2, ChannelFrame
  <2> QED
    BY <1>22, <2>3, <2>4
<1>23. CASE GroupDone
  <2>1. \A x \in Requests : Closed(x)' <=> Closed(x)
    BY <1>23 DEF Closed, RetirePc, GroupDone, ToRetire
  <2> QED
    BY <1>23, <2>1, ChannelFrame DEF GroupDone, ToRetire
<1>24. ASSUME NEW r \in todo, RetireVisit(r)
      PROVE  ChannelContents'
  <2>1. pc = "retire" /\ cur \notin Requests /\ r \in running /\ running' = running
    BY <1>24 DEF RetireVisit, CurIsHeld, HoldingPc, SoloPc
  <2>2. /\ todo' = todo \ {r}
        /\ \A x \in Requests \ {r} : state'[x] = state[x]
        /\ \/ pc' = "retire_put" /\ cur' = r
           \/ pc' = "retire" /\ cur' = cur /\ state'[r] \notin Terminal
    BY <1>24, <2>1 DEF RetireVisit, MoveTo
  <2>3. \A x \in Requests : Closed(x)' <=> Closed(x)
    <3> HIDE DEF IInv, TypeOK, CapacityRespected
    <3>1. ~Closed(r) /\ ~Closed(r)'
      BY <1>24, <2>1, <2>2 DEF Closed
    <3>2. \A x \in Requests \ {r} : Closed(x)' <=> Closed(x)
      BY <2>1, <2>2 DEF Closed, RetirePc
    <3> QED
      BY <3>1, <3>2
  <2> QED
    BY <1>24, <2>3, ChannelFrame DEF RetireVisit
<1>25. CASE RetirePut
  <2>1. PICK r \in Requests : r = cur
    BY <1>25, HeldRequest DEF RetirePut, HoldingPc
  <2>2. \A x \in Requests \ {r} : Closed(x)' <=> Closed(x)
    BY <1>25, <2>1, EngineAssumption DEF Closed, RetirePc, CurState, RetirePut
  <2>3. ~Closed(r) /\ Closed(r)'
    BY <1>25, <2>1, EngineAssumption DEF CurState, Closed, RetirePc, RetirePut
  <2> QED
    BY <1>25, <2>1, <2>2, <2>3, SentinelAppended DEF RetirePut
<1>26. CASE RetireRelease
  <2>1. \A x \in Requests : Closed(x)' <=> Closed(x)
    BY <1>26, EngineAssumption
       DEF Closed, RetirePc, Terminal, CurState, RunningStates, BeforeDecodePc,
           SoloPc, HoldingPc, CurIsHeld, HandlerMatchesState, QueuedAreAdmitted,
           RetireRelease
  <2> QED
    BY <1>26, <2>1, ChannelFrame DEF RetireRelease
<1>27. CASE RetireDone
  <2>1. \A x \in Requests : Closed(x)' <=> Closed(x)
    BY <1>27, EngineAssumption
       DEF Closed, RetirePc, Terminal, CurState, RunningStates, BeforeDecodePc,
           SoloPc, HoldingPc, CurIsHeld, HandlerMatchesState, QueuedAreAdmitted,
           RetireDone
  <2> QED
    BY <1>27, <2>1, ChannelFrame DEF RetireDone
<1>28. ASSUME NEW r \in todo, CancelVisit(r)
      PROVE  ChannelContents'
  <2>1. \A x \in Requests : Closed(x)' <=> Closed(x)
    BY <1>28, EngineAssumption
       DEF Closed, RetirePc, Terminal, CurState, RunningStates, BeforeDecodePc,
           SoloPc, HoldingPc, CurIsHeld, HandlerMatchesState, QueuedAreAdmitted,
           CancelVisit, MoveTo
  <2> QED
    BY <1>28, <2>1, ChannelFrame DEF CancelVisit
<1>29. CASE CancelPut
  <2>1. PICK r \in Requests : r = cur
    BY <1>29, HeldRequest DEF CancelPut, HoldingPc
  <2>2. \A x \in Requests \ {r} : Closed(x)' <=> Closed(x)
    BY <1>29, <2>1, EngineAssumption DEF Closed, RetirePc, CurState, CancelPut
  <2>3. ~Closed(r) /\ Closed(r)'
    BY <1>29, <2>1, EngineAssumption DEF CurState, Closed, RetirePc, CancelPut
  <2> QED
    BY <1>29, <2>1, <2>2, <2>3, SentinelAppended DEF CancelPut
<1>30. CASE CancelDone
  <2>1. \A x \in Requests : Closed(x)' <=> Closed(x)
    BY <1>30, EngineAssumption
       DEF Closed, RetirePc, Terminal, CurState, RunningStates, BeforeDecodePc,
           SoloPc, HoldingPc, CurIsHeld, HandlerMatchesState, QueuedAreAdmitted,
           CancelDone
  <2> QED
    BY <1>30, <2>1, ChannelFrame DEF CancelDone
<1>31. ASSUME NEW r \in Requests, Accept(r), UNCHANGED engineVars
      PROVE  ChannelContents'
  <2>1. \A x \in Requests : Closed(x)' <=> Closed(x)
    BY <1>31, EngineAssumption
       DEF Closed, RetirePc, Terminal, CurState, RunningStates, BeforeDecodePc,
           SoloPc, HoldingPc, CurIsHeld, HandlerMatchesState, QueuedAreAdmitted,
           Accept, MoveTo, Goto
  <2> QED
    BY <1>31, <2>1, ChannelFrame DEF Accept
<1>32. ASSUME NEW r \in Requests, Take(r), UNCHANGED engineVars
      PROVE  ChannelContents'
  <2>1. \A x \in Requests : Closed(x)' <=> Closed(x)
    BY <1>32 DEF Closed, Take
  <2>2. out' = out /\ \A x \in Requests : Delivered(x)' = Delivered(x)
    BY <1>32 DEF Take
  <2>3. taken[r] + 1 <= Len(out[r])
    BY <1>32 DEF Take, Pending
  <2>4. \A x \in Requests : taken'[x] = IF x = r THEN taken[r] + 1 ELSE taken[x]
    BY <1>32 DEF Take
  <2> QED
    BY <2>1, <2>2, <2>3, <2>4 DEF ChannelContents
<1>33. CASE UNCHANGED vars
  BY <1>1, <1>33 DEF vars
<1>34. CASE EngineStep
  BY <1>34, <1>2, <1>3, <1>4, <1>5, <1>6, <1>7, <1>8, <1>9, <1>10, <1>11, <1>12,
     <1>13, <1>14, <1>15, <1>16, <1>17, <1>18, <1>19, <1>20, <1>21, <1>22,
     <1>23, <1>24, <1>25, <1>26, <1>27, <1>28, <1>29, <1>30
     DEF EngineStep
<1>35. CASE /\ \E r \in Requests :
                ReadSnapshot(r, kvUsed, Cardinality(running)) \/
                Reject(r) \/ OpenStream(r) \/ Disconnect(r) \/
                DisconnectUnopened(r) \/ Timeout(r) \/ Cancel(r) \/
                Unregister(r)
           /\ UNCHANGED engineVars
  BY <1>1, <1>35
     DEF ReadSnapshot, ReadKvUsed, ReadRunning, Reject, OpenStream, Disconnect, DisconnectUnopened,
         Timeout, Cancel, Unregister, Goto
<1>36. CASE ApiStep
  BY <1>36, <1>31, <1>32, <1>35 DEF ApiStep, HandlerStep, ClientFault
<1>37. CASE RequestShutdown
  BY <1>1, <1>37 DEF RequestShutdown
<1> QED
  BY <1>34, <1>36, <1>37, <1>33 DEF Next

\* No decode path passes the limit, the chunked one included.
LEMMA CountStep == ASSUME IInv, [Next]_vars PROVE CountBounds'
<1> USE DEF IInv, TypeOK, ThreadTypeOK, ApiTypeOK, TallyTypeOK, apiVars,
            boundary, loop, kv, engineVars
<1>1. CASE UNCHANGED <<burst, count, cur, pc, state>>
  BY <1>1
     DEF CountBounds, CurState, RunningStates, HandlerMatchesState,
         QueuedAreAdmitted, SoloPc
<1>2. CASE LoopTop
  BY <1>2 DEF CountBounds, LoopTop
<1>3. CASE PopRequest
  BY <1>3 DEF CountBounds, PopRequest
<1>4. CASE InsertRequest
  BY <1>4, HeldRequest, TokenCapBounds
     DEF CountBounds, CurState, RunningStates, HandlerMatchesState,
         QueuedAreAdmitted, SoloPc, InsertRequest, MoveTo
<1>5. CASE AdmitDone
  BY <1>5 DEF CountBounds, AdmitDone
<1>6. ASSUME NEW r \in running, PickPrefill(r)
      PROVE  CountBounds'
  BY <1>6 DEF CountBounds, PickPrefill, Charge
<1>7. CASE NoPrefill
  BY <1>7 DEF CountBounds, NoPrefill
<1>8. CASE FirstCounted
  <2>1. cur \in Requests
    BY <1>8, HeldRequest DEF FirstCounted, HoldingPc
  <2>2. count[cur] = 0
    BY <1>8, <2>1 DEF CurState, CountBounds, FirstCounted
  <2>3. \A r \in Requests : /\ count'[r] = IF r = cur THEN 1 ELSE count[r]
                            /\ state'[r] = IF r = cur THEN "DECODING" ELSE state[r]
    BY <1>8, <2>1, <2>2 DEF FirstCounted, CountToken, MoveTo
  <2>4. pc' = "decode"
    BY <1>8 DEF FirstCounted
  <2> QED
    BY <2>3, <2>4, TokenCapBounds DEF CountBounds
<1>8a. CASE FirstToken \/ SoloPut \/ GroupPut
  BY <1>8a DEF CountBounds, FirstToken, SoloPut, GroupPut
<1>9. CASE NoDecode
  BY <1>9 DEF CountBounds, NoDecode, ToRetire
<1>10. CASE StartSolo
  BY <1>10 DEF CountBounds, StartSolo
<1>11. CASE StartGroup
  BY <1>11 DEF CountBounds, StartGroup
<1>12. CASE SoloComplete
  BY <1>12 DEF CountBounds, SoloComplete, Complete, ToRetire, MoveTo
<1>13. CASE SoloCancelled
  BY <1>13 DEF CountBounds, SoloCancelled, ToRetire
<1>14. CASE SoloGenerate
  <2>1. cur \in Requests
    BY <1>14, HeldRequest DEF SoloGenerate, HoldingPc, SoloPc
  <2>2. /\ MaxTokens[cur] \in Int /\ count[cur] \in Nat
        /\ MaxTokens[cur] - count[cur] \in Nat \ {0}
    BY <1>14, <2>1, ApiAssumption DEF SoloGenerate, AtLimit
  <2>3. burst' >= 1 /\ count[cur] + burst' <= MaxTokens[cur]
    <3> DEFINE chunk == Min({ChunkSize, MaxTokens[cur] - count[cur]})
    <3>1. burst' = 1 \/ burst' = chunk
      BY <1>14 DEF SoloGenerate
    <3>2. chunk \in Nat \ {0} /\ chunk <= MaxTokens[cur] - count[cur]
      BY <2>2, BurstFits
    <3> HIDE DEF chunk
    <3> QED
      BY <2>2, <3>1, <3>2
  <2>4. count' = count /\ state' = state /\ cur' = cur /\ pc' = "solo_put"
    BY <1>14 DEF SoloGenerate
  <2>5. /\ \A r \in Requests : count'[r] <= TokenCap(r)
        /\ \A r \in Requests :
             state'[r] \in {"QUEUED", "ADMITTED", "PREFILLING"} => count'[r] = 0
    BY <2>4 DEF CountBounds
  <2> HIDE DEF IInv, TypeOK, CapacityRespected
  <2> QED
    BY <2>3, <2>4, <2>5 DEF CountBounds, TokenCap
<1>15. CASE SoloCounted
  <2>1. cur \in Requests /\ MaxTokens[cur] \in Int /\ count[cur] \in Nat /\ burst \in Nat
    BY <1>15, HeldRequest, ApiAssumption, EngineAssumption
       DEF SoloCounted, HoldingPc, SoloPc
  <2>2. burst >= 1 /\ count[cur] + burst <= MaxTokens[cur] /\ state[cur] = "DECODING"
    BY <1>15 DEF CountBounds, CurState, SoloCounted, SoloPc
  <2>3. \A r \in Requests : count'[r] = IF r = cur THEN count[cur] + 1 ELSE count[r]
    BY <1>15, <2>1 DEF SoloCounted, CountToken
  <2>4. state' = state /\ cur' = cur /\ pc' = "solo_after" /\ burst' = burst - 1
    BY <1>15 DEF SoloCounted
  <2>5. count[cur] + 1 <= TokenCap(cur)
    BY <2>1, <2>2, TokenCapBounds
  <2>6. \A r \in Requests : count'[r] <= TokenCap(r)
    BY <2>3, <2>5 DEF CountBounds
  <2>7. count'[cur'] + burst' <= MaxTokens[cur']
    BY <2>1, <2>2, <2>3, <2>4
  <2> QED
    BY <2>1, <2>2, <2>3, <2>4, <2>6, <2>7 DEF CountBounds
<1>16. CASE ChunkComplete
  <2>1. cur \in Requests
    BY <1>16, HeldRequest DEF ChunkComplete, HoldingPc, SoloPc
  <2>2. count' = count /\ pc' = "retire"
    BY <1>16 DEF ChunkComplete, ToRetire
  <2>3. \A r \in Requests : state'[r] = IF r = cur THEN "COMPLETED" ELSE state[r]
    BY <1>16, <2>1 DEF ChunkComplete, Complete, MoveTo
  <2> QED
    BY <2>2, <2>3 DEF CountBounds, TokenCap
<1>17. CASE ChunkNext
  BY <1>17 DEF CountBounds, ChunkNext
<1>18. CASE SoloLeave
  BY <1>18 DEF CountBounds, SoloLeave, ToRetire, RoundOver
<1>19. CASE SoloAgain
  BY <1>19 DEF CountBounds, SoloAgain, RoundOver
<1>20. ASSUME NEW r \in todo, GroupComplete(r)
      PROVE  CountBounds'
  BY <1>20 DEF CountBounds, GroupComplete, Complete, MoveTo
<1>21. ASSUME NEW r \in todo, GroupGenerate(r)
      PROVE  CountBounds'
  <2>1. r \in Requests /\ MaxTokens[r] \in Int /\ count[r] \in Nat
    BY ApiAssumption
  <2>2. count[r] < MaxTokens[r]
    BY <1>21, <2>1 DEF GroupGenerate, AtLimit
  <2>3. count' = count /\ state' = state /\ cur' = r /\ pc' = "group_put"
    BY <1>21 DEF GroupGenerate
  <2> QED
    BY <2>2, <2>3 DEF CountBounds, TokenCap
<1>22. CASE GroupCounted
  <2>1. cur \in Requests /\ MaxTokens[cur] \in Int /\ count[cur] \in Nat
    BY <1>22, HeldRequest, ApiAssumption DEF GroupCounted, HoldingPc
  <2>2. count[cur] < MaxTokens[cur] /\ state[cur] = "DECODING"
    BY <1>22 DEF CountBounds, CurState, GroupCounted
  <2>3. \A r \in Requests : count'[r] = IF r = cur THEN count[cur] + 1 ELSE count[r]
    BY <1>22, <2>1 DEF GroupCounted, CountToken
  <2>4. state' = state /\ pc' = "group"
    BY <1>22 DEF GroupCounted
  <2>5. count[cur] + 1 <= TokenCap(cur)
    BY <2>1, <2>2, TokenCapBounds
  <2> QED
    BY <2>1, <2>2, <2>3, <2>4, <2>5 DEF CountBounds
<1>23. CASE GroupDone
  BY <1>23 DEF CountBounds, GroupDone, ToRetire
<1>24. ASSUME NEW r \in todo, RetireVisit(r)
      PROVE  CountBounds'
  BY <1>24 DEF CountBounds, RetireVisit, MoveTo
<1>25. CASE RetirePut
  BY <1>25 DEF CountBounds, RetirePut, Put
<1>26. CASE RetireRelease
  BY <1>26 DEF CountBounds, RetireRelease
<1>27. CASE RetireDone
  BY <1>27 DEF CountBounds, RetireDone
<1>28. ASSUME NEW r \in todo, CancelVisit(r)
      PROVE  CountBounds'
  BY <1>28 DEF CountBounds, CancelVisit, MoveTo
<1>29. CASE CancelPut
  BY <1>29 DEF CountBounds, CancelPut, Put
<1>30. CASE CancelDone
  BY <1>30 DEF CountBounds, CancelDone
<1>31. ASSUME NEW r \in Requests, Accept(r), UNCHANGED engineVars
      PROVE  CountBounds'
  BY <1>31, HeldRequest, TokenCapBounds
     DEF CountBounds, CurState, RunningStates, HandlerMatchesState,
         QueuedAreAdmitted, SoloPc, Accept, MoveTo, Goto
<1>32. CASE UNCHANGED vars
  BY <1>1, <1>32 DEF vars
<1>33. CASE EngineStep
  BY <1>33, <1>2, <1>3, <1>4, <1>5, <1>6, <1>7, <1>8, <1>9, <1>10, <1>11, <1>12,
     <1>13, <1>14, <1>15, <1>16, <1>17, <1>18, <1>19, <1>20, <1>21, <1>22,
     <1>23, <1>24, <1>25, <1>26, <1>27, <1>28, <1>29, <1>30, <1>8a
     DEF EngineStep
<1>34. CASE /\ \E r \in Requests :
                ReadSnapshot(r, kvUsed, Cardinality(running)) \/
                Reject(r) \/ OpenStream(r) \/ Take(r) \/ Disconnect(r)
                \/ DisconnectUnopened(r) \/ Timeout(r) \/ Cancel(r) \/
                Unregister(r)
           /\ UNCHANGED engineVars
  BY <1>1, <1>34
     DEF ReadSnapshot, ReadKvUsed, ReadRunning, Reject, OpenStream, Take, Disconnect, DisconnectUnopened,
         Timeout, Cancel, Unregister, Goto
<1>35. CASE ApiStep
  BY <1>35, <1>31, <1>34 DEF ApiStep, HandlerStep, ClientFault
<1>36. CASE RequestShutdown
  BY <1>1, <1>36 DEF RequestShutdown
<1> QED
  BY <1>33, <1>35, <1>36, <1>32 DEF Next

\* A finish reason is set once, with the state, and stays true.
LEMMA ReasonStep == ASSUME IInv, [Next]_vars PROVE (ReasonMatchesState /\ ReasonIsTrue)'
<1> USE DEF IInv, TypeOK, ThreadTypeOK, ApiTypeOK, TallyTypeOK, apiVars,
            boundary, loop, kv, engineVars
<1>1. CASE UNCHANGED <<count, last, reason, state>>
  BY <1>1
     DEF ReasonMatchesState, ReasonIsTrue, Terminal, NoReason, AtLimit, Stopped,
         StopReason, CurState, RunningStates, SoloPc, HandlerMatchesState,
         QueuedAreAdmitted
<1>2. CASE InsertRequest
  BY <1>2, HeldRequest
     DEF ReasonMatchesState, ReasonIsTrue, Terminal, NoReason, AtLimit, Stopped,
         StopReason, CurState, RunningStates, SoloPc, HandlerMatchesState,
         QueuedAreAdmitted, InsertRequest, MoveTo
<1>3. CASE FirstCounted
  <2>1. cur \in Requests
    BY <1>3, HeldRequest DEF FirstCounted, HoldingPc
  <2>2. state[cur] \notin Terminal
    BY <1>3 DEF CurState, Terminal, FirstCounted
  <2>3. reason[cur] = NoReason
    BY <2>1, <2>2 DEF ReasonMatchesState
  <2>4. reason' = reason
    BY <1>3 DEF FirstCounted
  <2>5. state'[cur] \notin Terminal
    BY <1>3, <2>1, <2>2 DEF Terminal, FirstCounted, MoveTo
  <2>6. \A r \in Requests \ {cur} :
          count'[r] = count[r] /\ last'[r] = last[r] /\ state'[r] = state[r]
    BY <1>3, <2>1 DEF CountToken, FirstCounted, MoveTo
  <2> QED
    BY <2>1, <2>3, <2>4, <2>5, <2>6
       DEF ReasonMatchesState, ReasonIsTrue, AtLimit, Stopped, NoReason,
           Terminal
<1>4. CASE SoloComplete
  BY <1>4
     DEF ReasonMatchesState, ReasonIsTrue, Terminal, NoReason, AtLimit, Stopped,
         StopReason, SoloComplete, Complete, ToRetire, MoveTo
<1>5. CASE SoloCounted
  <2>1. cur \in Requests
    BY <1>5, HeldRequest DEF SoloCounted, HoldingPc, SoloPc
  <2>2. state[cur] \notin Terminal
    BY <1>5 DEF CurState, Terminal, SoloCounted, SoloPc
  <2>3. reason[cur] = NoReason
    BY <2>1, <2>2 DEF ReasonMatchesState
  <2>4. reason' = reason
    BY <1>5 DEF SoloCounted
  <2>5. state'[cur] \notin Terminal
    BY <1>5, <2>1, <2>2 DEF Terminal, SoloCounted
  <2>6. \A r \in Requests \ {cur} :
          count'[r] = count[r] /\ last'[r] = last[r] /\ state'[r] = state[r]
    BY <1>5, <2>1 DEF CountToken, SoloCounted
  <2> QED
    BY <2>1, <2>3, <2>4, <2>5, <2>6
       DEF ReasonMatchesState, ReasonIsTrue, AtLimit, Stopped, NoReason,
           Terminal
<1>6. CASE ChunkComplete
  <2>1. cur \in Requests
    BY <1>6, HeldRequest DEF ChunkComplete, HoldingPc, SoloPc
  <2>2. count' = count /\ last' = last
    BY <1>6 DEF ChunkComplete
  <2>3. state'[cur] = "COMPLETED"
    BY <1>6, <2>1 DEF ChunkComplete, Complete, MoveTo
  <2>4. \/ reason'[cur] = "stop" /\ Stopped(cur)
        \/ reason'[cur] = "length" /\ AtLimit(cur)
    BY <1>6, <2>1 DEF ChunkComplete, Complete, Stopped
  <2>5. \A r \in Requests \ {cur} : state'[r] = state[r] /\ reason'[r] = reason[r]
    BY <1>6, <2>1 DEF ChunkComplete, Complete, MoveTo
  <2> QED
    BY <2>1, <2>2, <2>3, <2>4, <2>5
       DEF ReasonMatchesState, ReasonIsTrue, AtLimit, Stopped, NoReason,
           Terminal
<1>7. ASSUME NEW r \in todo, GroupComplete(r)
      PROVE  (ReasonMatchesState /\ ReasonIsTrue)'
  BY <1>7
     DEF ReasonMatchesState, ReasonIsTrue, Terminal, NoReason, AtLimit, Stopped,
         StopReason, GroupComplete, Complete, MoveTo
<1>8. CASE GroupCounted
  <2>1. cur \in Requests
    BY <1>8, HeldRequest DEF GroupCounted, HoldingPc
  <2>2. state[cur] \notin Terminal
    BY <1>8 DEF CurState, Terminal, GroupCounted
  <2>3. reason[cur] = NoReason
    BY <2>1, <2>2 DEF ReasonMatchesState
  <2>4. reason' = reason
    BY <1>8 DEF GroupCounted
  <2>5. state'[cur] \notin Terminal
    BY <1>8, <2>1, <2>2 DEF Terminal, GroupCounted
  <2>6. \A r \in Requests \ {cur} :
          count'[r] = count[r] /\ last'[r] = last[r] /\ state'[r] = state[r]
    BY <1>8, <2>1 DEF CountToken, GroupCounted
  <2> QED
    BY <2>1, <2>3, <2>4, <2>5, <2>6
       DEF ReasonMatchesState, ReasonIsTrue, AtLimit, Stopped, NoReason,
           Terminal
<1>9. ASSUME NEW r \in todo, RetireVisit(r)
      PROVE  (ReasonMatchesState /\ ReasonIsTrue)'
  <2>1. r \in Requests
    OBVIOUS
  <2>2. count' = count /\ last' = last
    BY <1>9 DEF RetireVisit
  <2>3. CASE state[r] = "DECODING" /\ IsCancelled(r)
    <3>1. state'[r] = "CANCELLED" /\ reason'[r] = "cancelled"
      BY <1>9, <2>1, <2>3 DEF RetireVisit, MoveTo
    <3>2. \A x \in Requests \ {r} : state'[x] = state[x] /\ reason'[x] = reason[x]
      BY <1>9, <2>1, <2>3 DEF RetireVisit, MoveTo
    <3> QED
      BY <2>1, <2>2, <3>1, <3>2
         DEF ReasonMatchesState, ReasonIsTrue, AtLimit, Stopped, NoReason,
             Terminal
  <2>4. CASE ~(state[r] = "DECODING" /\ IsCancelled(r))
    <3>1. state' = state /\ reason' = reason
      BY <1>9, <2>4 DEF RetireVisit
    <3> QED
      BY <2>2, <3>1 DEF ReasonMatchesState, ReasonIsTrue, AtLimit, Stopped
  <2> QED
    BY <2>3, <2>4
<1>10. ASSUME NEW r \in todo, CancelVisit(r)
      PROVE  (ReasonMatchesState /\ ReasonIsTrue)'
  <2>1. r \in Requests
    OBVIOUS
  <2>2. count' = count /\ last' = last
    BY <1>10 DEF CancelVisit
  <2>3. CASE state[r] \in {"PREFILLING", "DECODING"}
    <3>1. state'[r] = "CANCELLED" /\ reason'[r] = "cancelled"
      BY <1>10, <2>1, <2>3 DEF CancelVisit, MoveTo
    <3>2. \A x \in Requests \ {r} : state'[x] = state[x] /\ reason'[x] = reason[x]
      BY <1>10, <2>1, <2>3 DEF CancelVisit, MoveTo
    <3> QED
      BY <2>1, <2>2, <3>1, <3>2
         DEF ReasonMatchesState, ReasonIsTrue, AtLimit, Stopped, NoReason,
             Terminal
  <2>4. CASE ~(state[r] \in {"PREFILLING", "DECODING"})
    <3>1. state' = state /\ reason' = reason
      BY <1>10, <2>4 DEF CancelVisit
    <3> QED
      BY <2>2, <3>1 DEF ReasonMatchesState, ReasonIsTrue, AtLimit, Stopped
  <2> QED
    BY <2>3, <2>4
<1>11. ASSUME NEW r \in Requests, Accept(r), UNCHANGED engineVars
      PROVE  (ReasonMatchesState /\ ReasonIsTrue)'
  <2>1. state[r] = "QUEUED" /\ reason' = reason /\ UNCHANGED <<count, last>>
    BY <1>11 DEF HandlerMatchesState, Accept
  <2>2. \A x \in Requests : \/ state'[x] = state[x]
                            \/ state[x] = "QUEUED" /\ state'[x] = "ADMITTED"
    BY <1>11, <2>1 DEF Accept, MoveTo, Goto
  <2> QED
    BY <2>1, <2>2
       DEF ReasonMatchesState, ReasonIsTrue, Terminal, AtLimit, Stopped
<1>12. CASE UNCHANGED vars
  BY <1>1, <1>12 DEF vars
<1>13. ASSUME NEW r \in running, PickPrefill(r)
      PROVE  (ReasonMatchesState /\ ReasonIsTrue)'
  BY <1>1, <1>13 DEF PickPrefill, Charge
<1>14. ASSUME NEW r \in todo, GroupGenerate(r)
      PROVE  (ReasonMatchesState /\ ReasonIsTrue)'
  BY <1>1, <1>14 DEF GroupGenerate
<1>15. CASE LoopTop \/ PopRequest \/ AdmitDone \/ NoPrefill \/ FirstToken \/
           SoloPut \/ GroupPut \/ NoDecode \/
           StartSolo \/ StartGroup \/ SoloCancelled \/ SoloGenerate \/
           ChunkNext \/ SoloLeave \/ SoloAgain \/ GroupDone \/ RetirePut \/
           RetireRelease \/ RetireDone \/ CancelPut \/ CancelDone
  BY <1>1, <1>15
     DEF LoopTop, PopRequest, AdmitDone, NoPrefill, FirstToken, SoloPut,
         GroupPut, NoDecode, StartSolo,
         StartGroup, SoloCancelled, SoloGenerate, ChunkNext, SoloLeave,
         SoloAgain, GroupDone, RetirePut, RetireRelease, RetireDone, CancelPut,
         CancelDone, ToRetire, Charge, RoundOver, Put
<1>16. CASE EngineStep
  BY <1>16, <1>2, <1>3, <1>4, <1>5, <1>6, <1>7, <1>8, <1>9, <1>10, <1>13, <1>14,
     <1>15
     DEF EngineStep
<1>17. CASE /\ \E r \in Requests :
                ReadSnapshot(r, kvUsed, Cardinality(running)) \/
                Reject(r) \/ OpenStream(r) \/ Take(r) \/ Disconnect(r)
                \/ DisconnectUnopened(r) \/ Timeout(r) \/ Cancel(r) \/
                Unregister(r)
           /\ UNCHANGED engineVars
  BY <1>1, <1>17
     DEF ReadSnapshot, ReadKvUsed, ReadRunning, Reject, OpenStream, Take, Disconnect, DisconnectUnopened,
         Timeout, Cancel, Unregister, Goto
<1>18. CASE ApiStep
  BY <1>18, <1>11, <1>17 DEF ApiStep, HandlerStep, ClientFault
<1>19. CASE RequestShutdown
  BY <1>1, <1>19 DEF RequestShutdown
<1> QED
  BY <1>16, <1>18, <1>19, <1>12 DEF Next

\* Every change of a state is one that Request.transition accepts.
LEMMA LegalStep == ASSUME IInv, [Next]_vars PROVE LegalMoves
<1> USE DEF IInv, TypeOK, ThreadTypeOK, ApiTypeOK, apiVars, boundary, loop, kv,
            engineVars
<1>1. CASE UNCHANGED <<state>>
  BY <1>1
     DEF LegalMoves, Transitions, CurState, RunningStates, QueuedAreAdmitted,
         SoloPc
<1>2. CASE InsertRequest
  BY <1>2
     DEF LegalMoves, Transitions, CurState, RunningStates, QueuedAreAdmitted,
         HandlerMatchesState, SoloPc, InsertRequest, MoveTo
<1>3. CASE FirstToken \/ FirstCounted
  BY <1>3
     DEF LegalMoves, Transitions, CurState, RunningStates, SoloPc, FirstToken, FirstCounted,
         Deliver, CountToken, Charge, MoveTo, Put
<1>4. CASE SoloComplete
  BY <1>4
     DEF LegalMoves, Transitions, CurState, RunningStates, SoloPc, SoloComplete,
         Complete, ToRetire, MoveTo
<1>5. CASE ChunkComplete
  BY <1>5
     DEF LegalMoves, Transitions, CurState, RunningStates, SoloPc,
         ChunkComplete, Complete, ToRetire, MoveTo
<1>6. ASSUME NEW r \in todo, GroupComplete(r)
      PROVE  LegalMoves
  BY <1>6
     DEF LegalMoves, Transitions, CurState, RunningStates, SoloPc,
         GroupComplete, Complete, MoveTo
<1>7. ASSUME NEW r \in todo, RetireVisit(r)
      PROVE  LegalMoves
  BY <1>7 DEF LegalMoves, Transitions, RetireVisit, MoveTo
<1>8. ASSUME NEW r \in todo, CancelVisit(r)
      PROVE  LegalMoves
  BY <1>8 DEF LegalMoves, Transitions, CancelVisit, MoveTo
<1>9. ASSUME NEW r \in Requests, Accept(r), UNCHANGED engineVars
      PROVE  LegalMoves
  BY <1>9
     DEF LegalMoves, Transitions, CurState, RunningStates, QueuedAreAdmitted,
         HandlerMatchesState, SoloPc, Accept, MoveTo, Goto
<1>10. CASE UNCHANGED vars
  BY <1>1, <1>10 DEF vars
<1>11. ASSUME NEW r \in running, PickPrefill(r)
      PROVE  LegalMoves
  BY <1>1, <1>11 DEF PickPrefill, Charge
<1>12. ASSUME NEW r \in todo, GroupGenerate(r)
      PROVE  LegalMoves
  BY <1>1, <1>12 DEF GroupGenerate
<1>13. CASE LoopTop \/ PopRequest \/ AdmitDone \/ NoPrefill \/ NoDecode \/
           StartSolo \/ StartGroup \/ SoloCancelled \/ SoloGenerate \/
           SoloPut \/ SoloCounted \/ ChunkNext \/ SoloLeave \/ SoloAgain \/ GroupPut \/
           GroupCounted \/ GroupDone \/ RetirePut \/ RetireRelease \/ RetireDone \/ CancelPut
           \/ CancelDone
  BY <1>1, <1>13
     DEF LoopTop, PopRequest, AdmitDone, NoPrefill, NoDecode, StartSolo,
         StartGroup, SoloCancelled, SoloGenerate, SoloPut, SoloCounted, ChunkNext, SoloLeave,
         SoloAgain, GroupPut, GroupCounted, GroupDone, RetirePut, RetireRelease, RetireDone,
         CancelPut, CancelDone, ToRetire, Charge, Deliver, CountToken, Put, RoundOver
<1>14. CASE EngineStep
  BY <1>14, <1>2, <1>3, <1>4, <1>5, <1>6, <1>7, <1>8, <1>11, <1>12, <1>13
     DEF EngineStep
<1>15. CASE /\ \E r \in Requests :
                ReadSnapshot(r, kvUsed, Cardinality(running)) \/
                Reject(r) \/ OpenStream(r) \/ Take(r) \/ Disconnect(r)
                \/ DisconnectUnopened(r) \/ Timeout(r) \/ Cancel(r) \/
                Unregister(r)
           /\ UNCHANGED engineVars
  BY <1>1, <1>15
     DEF ReadSnapshot, ReadKvUsed, ReadRunning, Reject, OpenStream, Take, Disconnect, DisconnectUnopened,
         Timeout, Cancel, Unregister, Goto
<1>16. CASE ApiStep
  BY <1>16, <1>9, <1>15 DEF ApiStep, HandlerStep, ClientFault
<1>17. CASE RequestShutdown
  BY <1>1, <1>17 DEF RequestShutdown
<1> QED
  BY <1>14, <1>16, <1>17, <1>10 DEF Next

------------------------------------------------------------------------------
\* The inductive invariant.

\* It holds in the initial state.
LEMMA InitInvariant == Init => IInv
<1> SUFFICES ASSUME Init PROVE IInv
  OBVIOUS
<1>1. ApiTypeOK
  BY DEF Init, ApiInit, ApiTypeOK, RequestState, FinishReason, Handler, NoSnap, Event
<1>2. ThreadTypeOK /\ TallyTypeOK
  <2>1. slots \in 0..MaxConcurrent /\ round \in 0..LoopBound /\ burst \in 0..ChunkSize
    BY AdmissionAssumption, EngineAssumption DEF Init
  <2>2. chunked \in BOOLEAN /\ shutdown \in BOOLEAN
    BY DEF Init
  <2>3. /\ count \in [Requests -> Nat] /\ last \in [Requests -> TokenKind]
        /\ charged \in [Requests -> Nat] /\ kvUsed \in Nat
    BY DEF Init, TokenKind
  <2> QED
    BY <2>1, <2>2, <2>3 DEF Init, ThreadTypeOK, TallyTypeOK, EnginePc
<1>3. CapacityRespected /\ SlotsInUse
  BY FS_EmptySet, AdmissionAssumption DEF Init, CapacityRespected, SlotsInUse, Held
<1>4. Len(submitQ) <= MaxConcurrent
  BY AdmissionAssumption DEF Init, ApiInit
<1>5. CurIsHeld
  BY EngineAssumption DEF Init, CurIsHeld, HoldingPc, SoloPc
<1>6. HandlerMatchesState
  BY DEF Init, ApiInit, HandlerMatchesState
<1>7. QueuedAreAdmitted
  BY DEF Init, ApiInit, QueuedAreAdmitted
<1>8. RunningStates /\ CurState
  BY DEF Init, RunningStates, CurState, SoloPc
<1>9. ChannelContents
  BY DEF Init, ApiInit, ChannelContents, Closed, Terminal, Delivered, Uncounted, CountPc
<1>10. CountBounds
  BY TokenCapBounds DEF Init, CountBounds
<1>11. ReasonMatchesState /\ ReasonIsTrue
  BY DEF Init, ApiInit, ReasonMatchesState, ReasonIsTrue, Terminal, NoReason
<1> QED
  BY <1>1, <1>2, <1>3, <1>4, <1>5, <1>6, <1>7, <1>8, <1>9, <1>10, <1>11
     DEF IInv, TypeOK

\* Every step keeps it.
LEMMA StepInvariant == IInv /\ [Next]_vars => IInv'
<1> SUFFICES ASSUME IInv, [Next]_vars PROVE IInv'
  OBVIOUS
<1>1. TypeOK'
  BY ApiStepType, ThreadStep, TallyStep DEF TypeOK
<1>2. CapacityRespected' /\ SlotsInUse' /\ (Len(submitQ) <= MaxConcurrent)'
  BY CapacityStep, QueueStep
<1>3. CurIsHeld' /\ RunningStates' /\ CurState'
  BY HeldStep, RunningStatesStep, CurStateStep
<1>4. HandlerMatchesState' /\ QueuedAreAdmitted'
  BY HandlerStateStep, QueuedStep
<1>5. ChannelContents' /\ CountBounds' /\ ReasonMatchesState' /\ ReasonIsTrue'
  BY ChannelStep, CountStep, ReasonStep
<1> QED
  BY <1>1, <1>2, <1>3, <1>4, <1>5 DEF IInv

\* Every reachable state satisfies the inductive invariant: whatever the
\* handlers, the clients and shutdown() do between two steps of the engine
\* thread, a request is where the code expects it and its channel in order.
THEOREM Invariant == Spec => []IInv
  BY InitInvariant, StepInvariant, PTL DEF Spec

------------------------------------------------------------------------------
\* What follows from it.

\* No variable leaves its type.
THEOREM TypesAreRespected == Spec => []TypeOK
<1>1. IInv => TypeOK
  BY DEF IInv
<1> QED
  BY <1>1, Invariant, PTL

\* The running set never outgrows max_concurrent_requests, however the
\* submissions fall between the computation of max_new and the gets.
THEOREM CapacityIsRespected == Spec => []CapacityRespected
<1>1. IInv => CapacityRespected
  BY DEF IInv
<1> QED
  BY <1>1, Invariant, PTL

\* submit_async never waits: admission keeps the queue below its bound.
THEOREM SubmissionsFit == Spec => []SubmitFits
<1>1. IInv => SubmitFits
  BY ApiAssumption, AdmissionAssumption DEF IInv, TypeOK, ApiTypeOK, SubmitFits
<1> QED
  BY <1>1, Invariant, PTL

\* The sentinel is put once, last, and for a finished request only.
THEOREM SentinelComesLast == Spec => []SentinelIsLast
<1>1. ASSUME IInv, NEW r \in Requests, NEW i \in DOMAIN out[r], out[r][i] = End
      PROVE  i = Len(out[r]) /\ state[r] \in Terminal
  <2>1. /\ out[r] \in Seq({Tok, End}) /\ Delivered(r) \in Nat
        /\ Len(out[r]) = Delivered(r) + (IF Closed(r) THEN 1 ELSE 0)
        /\ out[r][i] = IF i <= Delivered(r) THEN Tok ELSE End
    BY <1>1, DeliveredType DEF IInv, TypeOK, ApiTypeOK, ChannelContents
  <2>2. i \in 1..Len(out[r]) /\ ~(i <= Delivered(r))
    BY <1>1, <2>1 DEF Tok, End
  <2>3. Closed(r) /\ i = Len(out[r])
    BY <2>1, <2>2
  <2> QED
    BY <2>3 DEF Closed
<1>2. IInv => SentinelIsLast
  BY <1>1 DEF SentinelIsLast
<1> QED
  BY <1>2, Invariant, PTL

\* A handler that got the sentinel got every token that was counted, and reads
\* a finish reason.
THEOREM AnswersAreWhole == Spec => []AnswerIsWhole
<1>1. ASSUME IInv, NEW r \in Requests, Answered(r)
      PROVE  taken[r] = Len(out[r]) /\ count[r] = taken[r] - 1 /\ reason[r] # NoReason
  <2>1. /\ out[r] \in Seq({Tok, End}) /\ Delivered(r) \in Nat /\ taken[r] \in Nat
        /\ Len(out[r]) = Delivered(r) + (IF Closed(r) THEN 1 ELSE 0)
        /\ taken[r] <= Len(out[r])
        /\ \A i \in DOMAIN out[r] : out[r][i] = IF i <= Delivered(r) THEN Tok ELSE End
    BY <1>1, DeliveredType DEF IInv, TypeOK, ApiTypeOK, ChannelContents
  <2>2. taken[r] > 0 /\ out[r][taken[r]] = End
    BY <1>1 DEF Answered
  <2>3. taken[r] \in DOMAIN out[r]
    BY <2>1, <2>2
  <2>4. ~(taken[r] <= Delivered(r))
    BY <2>1, <2>2, <2>3 DEF Tok, End
  <2>5. Len(out[r]) = Delivered(r) + 1 /\ taken[r] = Len(out[r])
    BY <2>1, <2>4
  <2>6. Closed(r)
    BY <2>1, <2>5
  <2>7. count[r] = taken[r] - 1
    BY <1>1, <2>1, <2>5, <2>6, DeliveredType
  <2> QED
    BY <1>1, <2>5, <2>6, <2>7 DEF IInv, ReasonMatchesState, Closed
<1>2. IInv => AnswerIsWhole
  BY <1>1 DEF AnswerIsWhole
<1> QED
  BY <1>2, Invariant, PTL

\* Request.transition never raises ValueError in the engine thread.
THEOREM TransitionsAreNeverIllegal == Spec => TransitionsAreLegal
  BY Invariant, LegalStep, PTL DEF Spec, TransitionsAreLegal

\* The finish reason tells the truth on every decode path.
THEOREM ReasonsAreTrue == Spec => []ReasonIsTrue
<1>1. IInv => ReasonIsTrue
  BY DEF IInv
<1> QED
  BY <1>1, Invariant, PTL

\* No path delivers more tokens than the limit, but for the first one.
THEOREM LimitsHold == Spec => []WithinTokenLimit
<1>1. IInv => WithinTokenLimit
  BY DEF IInv, CountBounds, WithinTokenLimit
<1> QED
  BY <1>1, Invariant, PTL

\* Channels deep enough for an answer and its sentinel make every put of the
\* engine thread immediate, whatever the clients do.
THEOREM EngineIsNeverBlocked == Spec => []EngineNeverWaits
<1>1. ASSUME IInv, Blocked, \A r \in Requests : ChannelDepth > TokenCap(r)
      PROVE  FALSE
  <2>1. cur \in Requests
    BY <1>1, HeldRequest DEF Blocked, HoldingPc, SoloPc
  <2>2. ~Closed(cur)
    BY <1>1 DEF IInv, Blocked, CurState, Closed, SoloPc, Terminal
  <2>3. /\ Len(out[cur]) = count[cur] /\ count[cur] <= TokenCap(cur)
        /\ count[cur] \in Nat /\ taken[cur] \in Nat
    BY <1>1, <2>1, <2>2
       DEF IInv, TypeOK, ApiTypeOK, TallyTypeOK, ChannelContents, CountBounds,
           Delivered, Uncounted, CountPc, Blocked
  <2>4. Len(out[cur]) - taken[cur] < ChannelDepth
    BY <1>1, <2>1, <2>3, TokenCapBounds, ApiAssumption
  <2> QED
    BY <1>1, <2>4 DEF Blocked, Room, Pending
<1>2. IInv => EngineNeverWaits
  BY <1>1 DEF EngineNeverWaits
<1> QED
  BY <1>2, Invariant, PTL

------------------------------------------------------------------------------
\* The books of the KV memory.

\* The bytes of tokens taken together, and of fewer tokens.
LEMMA Distributes == ASSUME NEW a \in Int, NEW b \in Int, NEW c \in Int
                     PROVE  (a + b) * c = a * c + b * c
  OBVIOUS

LEMMA ProductGrows == ASSUME NEW a \in Nat, NEW b \in Nat, NEW c \in Nat, a <= b
                      PROVE  a * c <= b * c /\ a * c \in Nat /\ b * c \in Nat
<1>1. b - a \in Nat /\ b = a + (b - a)
  OBVIOUS
<1>2. b * c = a * c + (b - a) * c
  BY <1>1, Distributes
<1>3. a * c \in Nat /\ (b - a) * c \in Nat /\ b * c \in Nat
  BY <1>1, ProductNat
<1> QED
  BY <1>2, <1>3

\* What is owed is a number of tokens.
LEMMA OwedType == ASSUME IInv, NEW r \in Requests
                  PROVE  /\ Prompt[r] \in Nat /\ count[r] \in Nat
                         /\ Ahead(r) \in Nat /\ Owed(r) \in Nat
                         /\ charged[r] \in Nat /\ BytesPerToken \in Nat
<1>1. /\ Prompt[r] \in Nat /\ count[r] \in Nat /\ charged[r] \in Nat
      /\ BytesPerToken \in Nat /\ burst \in Nat
  BY ApiAssumption, AdmissionAssumption, EngineAssumption
     DEF IInv, TypeOK, TallyTypeOK, ThreadTypeOK
<1>2. Ahead(r) \in Nat
  BY <1>1 DEF Ahead
<1> QED
  BY <1>1, <1>2 DEF Owed

\* A step that pays for no less than it adds keeps a request covered.
LEMMA StaysCovered ==
  ASSUME IInv, ChargesKeepUp, NEW r \in running, HasCache(r),
         NEW more \in Nat, Owed(r)' \in Nat, Owed(r)' <= Owed(r) + more,
         NEW paid \in Nat, paid >= more * BytesPerToken, charged'[r] = charged[r] + paid
  PROVE  charged'[r] >= Owed(r)' * BytesPerToken
<1> DEFINE c == BytesPerToken
           o == Owed(r)
           n == Owed(r)'
<1>1. o \in Nat /\ c \in Nat /\ charged[r] \in Nat /\ n \in Nat
  BY OwedType DEF IInv, TypeOK, ThreadTypeOK
<1>2. charged[r] >= o * c
  BY DEF ChargesKeepUp
<1>3. n <= o + more
  OBVIOUS
<1>6. paid >= more * c
  OBVIOUS
<1> HIDE DEF c, o, n
<1>4. n * c <= (o + more) * c /\ (o + more) * c = o * c + more * c
  BY <1>1, <1>3, ProductGrows, Distributes
<1>5. n * c \in Nat /\ o * c \in Nat /\ more * c \in Nat
  BY <1>1, ProductNat
<1>7. charged[r] + paid >= n * c
  BY <1>1, <1>2, <1>4, <1>5, <1>6
<1> QED
  BY <1>7 DEF c, n

\* So does one that neither pays nor adds.
LEMMA StaysCoveredUnpaid ==
  ASSUME IInv, ChargesKeepUp, NEW r \in running, HasCache(r),
         count'[r] = count[r], charged'[r] = charged[r],
         Ahead(r)' \in {0, Ahead(r)}
  PROVE  charged'[r] >= Owed(r)' * BytesPerToken
<1>1. r \in Requests
  BY DEF IInv, TypeOK, ThreadTypeOK
<1>2. Owed(r)' \in Nat /\ Owed(r)' <= Owed(r) + 0
  BY <1>1, OwedType DEF Owed
<1>3. charged'[r] = charged[r] + 0 /\ 0 >= 0 * BytesPerToken
  BY <1>1, OwedType
<1> QED
  BY <1>2, <1>3, StaysCovered

\* ChargesKeepUp: the prompt is charged at prefill, a token with its entry in
\* the count, a chunk whole before its first token is delivered.
LEMMA ChargesKeepUpStep == ASSUME IInv, IInv', ChargesKeepUp, [Next]_vars
                          PROVE  ChargesKeepUp'
<1> SUFFICES ASSUME NEW r \in running', HasCache(r)'
             PROVE  charged'[r] >= Owed(r)' * BytesPerToken
  BY DEF ChargesKeepUp
<1> USE DEF apiVars, boundary, loop, kv, engineVars
<1> DEFINE Kept == /\ r \in running /\ HasCache(r)
                   /\ count'[r] = count[r] /\ charged'[r] = charged[r]
                   /\ Ahead(r)' \in {0, Ahead(r)}
<1>0. Kept => charged'[r] >= Owed(r)' * BytesPerToken
  BY StaysCoveredUnpaid
<1>1. r \in Requests /\ running \subseteq Requests /\ todo \subseteq running
  BY DEF IInv, TypeOK, ThreadTypeOK
<1>2. CASE InsertRequest
  <2>1. cur \in Requests
    BY <1>2, HeldRequest DEF InsertRequest, HoldingPc
  <2>2. r # cur
    BY <1>2, <2>1 DEF InsertRequest, MoveTo, HasCache, IInv, TypeOK, ApiTypeOK
  <2> QED
    BY <1>0, <1>2, <2>2 DEF InsertRequest, MoveTo, HasCache, Ahead
<1>3. ASSUME NEW q \in running, PickPrefill(q)
      PROVE  charged'[r] >= Owed(r)' * BytesPerToken
  <2>1. CASE r # q
    <3>1. Kept
      BY <1>3, <2>1 DEF PickPrefill, Charge, HasCache, Ahead
    <3> QED
      BY <1>0, <3>1
  <2>2. CASE r = q
    <3>1. count[r] = 0 /\ count'[r] = 0 /\ Ahead(r)' = 0
      BY <1>1, <1>3, <2>2
         DEF PickPrefill, Prefillable, Ahead, IInv, CountBounds
    <3>2. charged'[r] = charged[r] + Prompt[r] * BytesPerToken
      BY <1>1, <1>3, <2>2 DEF PickPrefill, Charge, IInv, TypeOK, TallyTypeOK
    <3>3. Owed(r)' = Prompt[r]
      BY <1>1, <3>1, OwedType DEF Owed
    <3>4. charged[r] \in Nat /\ Prompt[r] * BytesPerToken \in Nat
      BY <1>1, OwedType, ProductNat
    <3> QED
      BY <3>2, <3>3, <3>4
  <2> QED
    BY <2>1, <2>2
<1>4. CASE FirstCounted
  <2>1. cur \in Requests /\ cur \in running
    BY <1>4, HeldRequest DEF FirstCounted, HoldingPc, IInv, CurState
  <2>2. CASE r # cur
    <3>1. Kept
      BY <1>4, <2>1, <2>2
         DEF FirstCounted, CountToken, Charge, MoveTo, HasCache, Ahead, IInv, TypeOK,
             ApiTypeOK
    <3> QED
      BY <1>0, <3>1
  <2>3. CASE r = cur
    <3>1. HasCache(r) /\ Ahead(r)' = 0 /\ Ahead(r) = 0
      BY <1>4, <2>3 DEF FirstCounted, HasCache, Ahead
    <3>2. count'[r] = count[r] + 1 /\ charged'[r] = charged[r] + BytesPerToken
      BY <1>4, <2>1, <2>3
         DEF FirstCounted, CountToken, Charge, IInv, TypeOK, TallyTypeOK
    <3>3. Owed(r)' \in Nat /\ Owed(r)' <= Owed(r) + 1
      BY <1>1, <3>1, <3>2, OwedType DEF Owed
    <3>4. BytesPerToken \in Nat /\ BytesPerToken >= 1 * BytesPerToken
      BY AdmissionAssumption
    <3> QED
      BY <2>1, <2>3, <3>1, <3>2, <3>3, <3>4, StaysCovered
  <2> QED
    BY <2>2, <2>3
<1>5. CASE SoloGenerate
  <2>1. cur \in Requests /\ cur \in running /\ state[cur] = "DECODING"
    BY <1>5, HeldRequest DEF SoloGenerate, HoldingPc, SoloPc, IInv, CurState
  <2>2. CASE r # cur \/ ~chunked
    <3>1. /\ UNCHANGED <<state, running, cur, count, chunked>>
          /\ pc = "solo" /\ pc' = "solo_put"
      BY <1>5 DEF SoloGenerate
    <3>2. charged'[r] = charged[r]
      BY <1>1, <1>5, <2>1, <2>2 DEF SoloGenerate, Charge, IInv, TypeOK, TallyTypeOK
    <3>3. Ahead(r)' = 0 /\ HasCache(r)
      BY <2>2, <3>1 DEF Ahead, HasCache
    <3> QED
      BY <1>0, <3>1, <3>2, <3>3
  <2>3. CASE r = cur /\ chunked
    <3>1. HasCache(r) /\ count'[r] = count[r] /\ Ahead(r) = 0
      BY <1>5, <2>1, <2>3 DEF SoloGenerate, HasCache, Ahead
    <3>2. charged'[r] = charged[r] + ChunkSize * BytesPerToken
      BY <1>5, <2>1, <2>3 DEF SoloGenerate, Charge, IInv, TypeOK, TallyTypeOK
    <3>3. Ahead(r)' = burst' /\ burst' \in 0..ChunkSize
      BY <1>5, <2>3 DEF SoloGenerate, Ahead, IInv, TypeOK, ThreadTypeOK
    <3>4. ChunkSize \in Nat /\ ChunkSize * BytesPerToken \in Nat
      BY EngineAssumption, AdmissionAssumption, ProductNat
    <3>5. Owed(r)' \in Nat /\ Owed(r)' <= Owed(r) + ChunkSize
      BY <1>1, <3>1, <3>3, <3>4, OwedType DEF Owed
    <3>6. ChunkSize * BytesPerToken >= ChunkSize * BytesPerToken
      BY <3>4
    <3> QED
      BY <2>1, <2>3, <3>1, <3>2, <3>4, <3>5, <3>6, StaysCovered
  <2> QED
    BY <2>2, <2>3
<1>6. CASE SoloCounted
  <2>1. cur \in Requests /\ cur \in running /\ state[cur] = "DECODING"
    BY <1>6, HeldRequest DEF SoloCounted, HoldingPc, SoloPc, IInv, CurState
  <2>2. CASE r # cur
    <3>1. UNCHANGED <<state, running, cur>> /\ pc = "solo_count" /\ pc' = "solo_after"
      BY <1>6 DEF SoloCounted
    <3>2. charged'[r] = charged[r]
      BY <1>1, <1>6, <2>1, <2>2 DEF SoloCounted, Charge, IInv, TypeOK, TallyTypeOK
    <3>3. count'[r] = count[r]
      BY <1>1, <1>6, <2>1, <2>2 DEF SoloCounted, CountToken, IInv, TypeOK, TallyTypeOK
    <3>4. Ahead(r)' = 0 /\ HasCache(r)
      BY <2>2, <3>1 DEF Ahead, HasCache
    <3> QED
      BY <1>0, <3>1, <3>2, <3>3, <3>4
  <2>3. CASE r = cur /\ chunked
    <3>1. HasCache(r) /\ count'[r] = count[r] + 1 /\ charged'[r] = charged[r]
      BY <1>6, <2>1, <2>3 DEF SoloCounted, CountToken, HasCache, IInv, TypeOK, TallyTypeOK
    <3>2. Ahead(r) = burst /\ Ahead(r)' = burst - 1 /\ burst - 1 \in Nat
      <4>1. burst \in Nat /\ burst >= 1
        BY <1>6, EngineAssumption DEF SoloCounted, IInv, CountBounds, TypeOK, ThreadTypeOK
      <4>2. /\ pc = "solo_count" /\ pc' = "solo_after" /\ cur' = cur
            /\ (chunked' <=> chunked) /\ burst' = burst - 1
        BY <1>6 DEF SoloCounted
      <4>3. Ahead(r) = burst /\ Ahead(r)' = burst'
        BY <2>3, <4>2 DEF Ahead
      <4> QED
        BY <4>1, <4>2, <4>3
    <3>3. Owed(r)' \in Nat /\ Owed(r)' <= Owed(r) + 0
      BY <1>1, <3>1, <3>2, OwedType DEF Owed
    <3>4. charged'[r] = charged[r] + 0 /\ 0 >= 0 * BytesPerToken
      BY <1>1, <3>1, OwedType
    <3> QED
      BY <2>1, <2>3, <3>1, <3>3, <3>4, StaysCovered
  <2>4. CASE r = cur /\ ~chunked
    <3>1. HasCache(r) /\ Ahead(r)' = 0 /\ Ahead(r) = 0
      BY <1>6, <2>1, <2>4 DEF SoloCounted, HasCache, Ahead
    <3>2. count'[r] = count[r] + 1 /\ charged'[r] = charged[r] + BytesPerToken
      BY <1>6, <2>1, <2>4 DEF SoloCounted, CountToken, Charge, IInv, TypeOK, TallyTypeOK
    <3>3. Owed(r)' \in Nat /\ Owed(r)' <= Owed(r) + 1
      BY <1>1, <3>1, <3>2, OwedType DEF Owed
    <3>4. BytesPerToken \in Nat /\ BytesPerToken >= 1 * BytesPerToken
      BY AdmissionAssumption
    <3> QED
      BY <2>1, <2>4, <3>1, <3>2, <3>3, <3>4, StaysCovered
  <2> QED
    BY <2>2, <2>3, <2>4
<1>7. CASE GroupCounted
  <2>1. cur \in Requests /\ cur \in running /\ state[cur] = "DECODING"
    BY <1>7, HeldRequest DEF GroupCounted, HoldingPc, IInv, CurState
  <2>2. CASE r # cur
    <3>1. Kept
      BY <1>7, <2>1, <2>2
         DEF GroupCounted, CountToken, Charge, HasCache, Ahead, IInv, TypeOK, TallyTypeOK
    <3> QED
      BY <1>0, <3>1
  <2>3. CASE r = cur
    <3>1. HasCache(r) /\ Ahead(r)' = 0 /\ Ahead(r) = 0
      BY <1>7, <2>1, <2>3 DEF GroupCounted, HasCache, Ahead
    <3>2. count'[r] = count[r] + 1 /\ charged'[r] = charged[r] + BytesPerToken
      BY <1>7, <2>1, <2>3 DEF GroupCounted, CountToken, Charge, IInv, TypeOK, TallyTypeOK
    <3>3. Owed(r)' \in Nat /\ Owed(r)' <= Owed(r) + 1
      BY <1>1, <3>1, <3>2, OwedType DEF Owed
    <3>4. BytesPerToken \in Nat /\ BytesPerToken >= 1 * BytesPerToken
      BY AdmissionAssumption
    <3> QED
      BY <2>1, <2>3, <3>1, <3>2, <3>3, <3>4, StaysCovered
  <2> QED
    BY <2>2, <2>3
<1>7a. CASE FirstToken \/ SoloPut \/ GroupPut
  BY <1>0, <1>7a DEF FirstToken, SoloPut, GroupPut, HasCache, Ahead
<1>8. CASE RetireRelease
  <2>1. cur \in Requests /\ state[cur] \in Terminal
    BY <1>8, HeldRequest DEF RetireRelease, HoldingPc, IInv, CurState
  <2>2. r # cur
    BY <1>8, <2>1 DEF RetireRelease, HasCache, Terminal
  <2>3. Kept
    BY <1>8, <2>1, <2>2
       DEF RetireRelease, HasCache, Ahead, IInv, TypeOK, TallyTypeOK
  <2> QED
    BY <1>0, <2>3
<1>9. CASE SoloComplete \/ ChunkComplete
  <2>1. cur \in Requests
    BY <1>9, HeldRequest DEF SoloComplete, ChunkComplete, HoldingPc, SoloPc
  <2>2. /\ UNCHANGED <<running, count, charged>> /\ pc' = "retire"
        /\ state' = [state EXCEPT ![cur] = "COMPLETED"]
    BY <1>9 DEF SoloComplete, ChunkComplete, Complete, MoveTo, ToRetire
  <2>3. r # cur /\ Ahead(r)' = 0
    BY <2>1, <2>2 DEF HasCache, Ahead, IInv, TypeOK, ApiTypeOK
  <2> QED
    BY <1>0, <1>1, <2>2, <2>3 DEF HasCache, IInv, TypeOK, ApiTypeOK
<1>10. ASSUME NEW q \in todo, GroupComplete(q) \/ GroupGenerate(q) \/ RetireVisit(q) \/ CancelVisit(q)
       PROVE  charged'[r] >= Owed(r)' * BytesPerToken
  <2>1. CASE GroupComplete(q)
    BY <1>0, <1>1, <2>1
       DEF GroupComplete, Complete, MoveTo, HasCache, Ahead, IInv, TypeOK, ApiTypeOK
  <2>2. CASE GroupGenerate(q)
    BY <1>0, <2>2 DEF GroupGenerate, HasCache, Ahead
  <2>3. CASE RetireVisit(q)
    BY <1>0, <1>1, <2>3
       DEF RetireVisit, MoveTo, HasCache, Ahead, IInv, TypeOK, ApiTypeOK
  <2>4. CASE CancelVisit(q)
    BY <1>0, <1>1, <2>4
       DEF CancelVisit, MoveTo, HasCache, Ahead, IInv, TypeOK, ApiTypeOK
  <2> QED
    BY <1>10, <2>1, <2>2, <2>3, <2>4
<1>11. CASE StartSolo
  <2>1. PICK q \in running, c \in BOOLEAN : cur' = q /\ chunked' = c
    BY <1>11 DEF StartSolo
  <2> QED
    BY <1>0, <1>11 DEF StartSolo, HasCache, Ahead
<1>12. CASE LoopTop \/ PopRequest \/ AdmitDone \/ NoPrefill \/ StartGroup \/ RetirePut
            \/ RetireDone \/ CancelPut \/ CancelDone
  BY <1>0, <1>12
     DEF LoopTop, PopRequest, AdmitDone, NoPrefill, StartGroup, RetirePut, RetireDone,
         CancelPut, CancelDone, HasCache, Ahead
<1>13. CASE NoDecode \/ SoloCancelled \/ SoloLeave \/ GroupDone
  BY <1>0, <1>13
     DEF NoDecode, SoloCancelled, SoloLeave, GroupDone, ToRetire, HasCache, Ahead
<1>14. CASE ChunkNext \/ SoloAgain
  BY <1>0, <1>14 DEF ChunkNext, SoloAgain, RoundOver, HasCache, Ahead
<1>15. CASE ApiStep
  <2>1. UNCHANGED engineVars
    BY <1>15 DEF ApiStep
  <2>2. state'[r] = state[r] \/ state'[r] = "ADMITTED"
    BY <1>1, <1>15
       DEF ApiStep, HandlerStep, ClientFault, ReadSnapshot, ReadKvUsed, ReadRunning, Reject, Accept, OpenStream, Take,
           Disconnect, DisconnectUnopened, Timeout, Cancel, Unregister, MoveTo, IInv, TypeOK,
           ApiTypeOK
  <2> QED
    BY <1>0, <2>1, <2>2 DEF HasCache, Ahead
<1>16. CASE RequestShutdown \/ UNCHANGED vars
  BY <1>0, <1>16 DEF RequestShutdown, vars, HasCache, Ahead
<1>17. CASE EngineStep
  BY <1>17, <1>2, <1>3, <1>4, <1>5, <1>6, <1>7, <1>7a, <1>8, <1>9, <1>10, <1>11, <1>12, <1>13, <1>14
     DEF EngineStep
<1> QED
  BY <1>15, <1>16, <1>17 DEF Next

\* A step that charges charges the request the thread is about, one that runs.
\* All others leave the tallies alone, but for the one that clears one.
LEMMA ChargingSteps ==
  ASSUME IInv, [Next]_vars
  PROVE  \/ UNCHANGED <<charged, kvUsed>>
         \/ \E r \in running, bytes \in Nat :
              /\ Charge(r, bytes) /\ state[r] \in {"PREFILLING", "DECODING"}
              /\ running' = running
              /\ pc \notin RetirePc \cup {"stopped"} /\ pc' \notin RetirePc \cup {"stopped"}
         \/ RetireRelease
<1> USE DEF apiVars, boundary, loop, kv, engineVars
<1> DEFINE P == \/ UNCHANGED <<charged, kvUsed>>
                \/ \E r \in running, bytes \in Nat :
                     /\ Charge(r, bytes) /\ state[r] \in {"PREFILLING", "DECODING"}
                     /\ running' = running
                     /\ pc \notin RetirePc \cup {"stopped"}
                     /\ pc' \notin RetirePc \cup {"stopped"}
                \/ RetireRelease
<1> SUFFICES P
  OBVIOUS
<1>1. running \subseteq Requests /\ BytesPerToken \in Nat
  BY AdmissionAssumption DEF IInv, TypeOK, ThreadTypeOK
<1>2. ASSUME NEW r \in running, PickPrefill(r)
      PROVE  P
  <2>1. Prompt[r] * BytesPerToken \in Nat
    BY <1>1, ApiAssumption, ProductNat
  <2>2. state[r] = "PREFILLING" /\ running' = running /\ pc = "prefill" /\ pc' = "first_token"
    BY <1>2 DEF PickPrefill, Prefillable
  <2> QED
    BY <1>2, <2>1, <2>2 DEF PickPrefill, RetirePc
<1>3. CASE FirstCounted
  BY <1>1, <1>3 DEF FirstCounted, IInv, CurState, RetirePc
<1>4. CASE SoloGenerate
  <2>1. cur \in running /\ state[cur] = "DECODING"
    BY <1>4 DEF SoloGenerate, IInv, CurState, SoloPc
  <2>2. ChunkSize * BytesPerToken \in Nat
    BY <1>1, EngineAssumption, ProductNat
  <2> QED
    BY <1>4, <2>1, <2>2 DEF SoloGenerate, RetirePc
<1>5. CASE SoloCounted
  BY <1>1, <1>5 DEF SoloCounted, IInv, CurState, SoloPc, RetirePc
<1>6. CASE GroupCounted
  BY <1>1, <1>6 DEF GroupCounted, IInv, CurState, RetirePc
<1>7. ASSUME NEW q \in todo,
             GroupComplete(q) \/ GroupGenerate(q) \/ RetireVisit(q) \/ CancelVisit(q)
      PROVE  P
  BY <1>7 DEF GroupComplete, GroupGenerate, RetireVisit, CancelVisit
<1>8. CASE LoopTop \/ PopRequest \/ InsertRequest \/ AdmitDone \/ NoPrefill \/ NoDecode
           \/ FirstToken \/ SoloPut \/ GroupPut
           \/ StartSolo \/ StartGroup \/ SoloComplete \/ SoloCancelled \/ ChunkComplete
           \/ ChunkNext \/ SoloLeave \/ SoloAgain \/ GroupDone \/ RetirePut \/ RetireDone
           \/ CancelPut \/ CancelDone
  BY <1>8
     DEF LoopTop, PopRequest, InsertRequest, AdmitDone, NoPrefill, NoDecode, StartSolo,
         FirstToken, SoloPut, GroupPut,
         StartGroup, SoloComplete, SoloCancelled, ChunkComplete, ChunkNext, SoloLeave,
         SoloAgain, GroupDone, RetirePut, RetireDone, CancelPut, CancelDone
<1>9. CASE EngineStep
  BY <1>2, <1>3, <1>4, <1>5, <1>6, <1>7, <1>8, <1>9 DEF EngineStep
<1> QED
  BY <1>9 DEF Next, ApiStep, RequestShutdown, vars

\* How the states and the running set change where nothing is charged.
LEMMA WaitingStep ==
  ASSUME IInv, [Next]_vars, NEW r \in Requests, state'[r] \in {"QUEUED", "ADMITTED"}
  PROVE  state[r] \in {"QUEUED", "ADMITTED"}
<1>1. state[r] \in RequestState
  BY DEF IInv, TypeOK, ApiTypeOK
<1>2. state'[r] = state[r] \/ state'[r] \in Transitions[state[r]]
  BY LegalStep DEF LegalMoves
<1>3. \A s \in RequestState \ {"QUEUED", "ADMITTED"} :
        "QUEUED" \notin Transitions[s] /\ "ADMITTED" \notin Transitions[s]
  BY DEF RequestState, Transitions
<1> QED
  BY <1>1, <1>2, <1>3

\* NothingOutstanding: a request waits uncharged, the retire pass gives back
\* what it ends before it goes on.
LEMMA NothingOutstandingStep == ASSUME IInv, NothingOutstanding, [Next]_vars
                                PROVE  NothingOutstanding'
<1> USE DEF apiVars, boundary, loop, kv, engineVars
<1>0. /\ running \subseteq Requests /\ todo \subseteq running
      /\ charged \in [Requests -> Nat] /\ state \in [Requests -> RequestState]
  BY DEF IInv, TypeOK, ThreadTypeOK, TallyTypeOK, ApiTypeOK
<1>1. ASSUME NEW r \in Requests, state'[r] \in {"QUEUED", "ADMITTED"}
      PROVE  charged'[r] = 0
  <2>1. state[r] \in {"QUEUED", "ADMITTED"} /\ charged[r] = 0
    BY <1>1, WaitingStep DEF NothingOutstanding
  <2>2. CASE UNCHANGED <<charged, kvUsed>>
    BY <2>1, <2>2
  <2>3. ASSUME NEW q \in running, NEW bytes \in Nat, Charge(q, bytes),
               state[q] \in {"PREFILLING", "DECODING"}
        PROVE  charged'[r] = 0
    <3>1. r # q
      BY <2>1, <2>3
    <3> QED
      BY <1>0, <2>1, <2>3, <3>1 DEF Charge
  <2>4. CASE RetireRelease
    BY <1>0, <2>1, <2>4 DEF RetireRelease
  <2> QED
    BY <2>2, <2>3, <2>4, ChargingSteps
<1> DEFINE Passed == {"retire", "retire_put", "retire_release"}
<1>2. ASSUME pc' \in Passed, NEW r \in running', r \notin todo', state'[r] \in Terminal,
             r # cur'
      PROVE  charged'[r] = 0
  <2>0. /\ todo' \subseteq running' /\ pc' # "decode" /\ pc' # "top"
    BY <1>2, ThreadStep DEF ThreadTypeOK
  <2> DEFINE Old == /\ pc \in Passed /\ r \in running /\ r \notin todo
                    /\ state[r] \in Terminal /\ r # cur
  <2>1. Old => charged[r] = 0
    BY DEF NothingOutstanding
  <2>2. CASE RetireRelease
    <3>1. r = cur \/ Old
      BY <1>2, <2>2 DEF RetireRelease
    <3>2. cur \in Requests
      BY <2>2, HeldRequest DEF RetireRelease, HoldingPc
    <3> QED
      BY <1>0, <2>1, <2>2, <3>1, <3>2 DEF RetireRelease
  <2>3. CASE RetirePut
    <3>1. Old /\ charged'[r] = charged[r]
      BY <1>2, <2>3 DEF RetirePut
    <3> QED
      BY <2>1, <3>1
  <2>4. ASSUME NEW q \in todo, RetireVisit(q)
        PROVE  charged'[r] = 0
    <3>1. r # q
      BY <1>2, <2>4 DEF RetireVisit
    <3>2. pc = "retire" /\ cur \notin Requests /\ UNCHANGED <<charged, running>>
      BY <2>4 DEF RetireVisit, IInv, CurIsHeld, HoldingPc, SoloPc
    <3>3. r \notin todo
      BY <1>2, <2>4, <3>1 DEF RetireVisit
    <3>4. state'[r] = state[r]
      BY <1>0, <2>4, <3>1 DEF RetireVisit, MoveTo
    <3>5. Old
      BY <1>0, <1>2, <3>2, <3>3, <3>4
    <3> QED
      BY <2>1, <3>2, <3>5
  <2>5. CASE ToRetire /\ running' = running
    BY <1>2, <2>5 DEF ToRetire
  <2>6. CASE UNCHANGED <<pc, running, todo, cur, charged>>
    <3>1. state'[r] = state[r] \/ state'[r] \notin Terminal \/ pc \notin Passed
      <4>1. CASE pc \in Passed
        <5>1. ~EngineStep \/ \E q \in todo : RetireVisit(q)
          BY <2>6, <4>1
             DEF EngineStep, LoopTop, PopRequest, InsertRequest, AdmitDone, PickPrefill, NoPrefill,
                 FirstToken, FirstCounted, NoDecode, StartSolo, StartGroup, SoloComplete, SoloCancelled,
                 SoloGenerate, SoloPut, SoloCounted, ChunkComplete, ChunkNext, SoloLeave, SoloAgain,
                 RoundOver, GroupComplete, GroupGenerate, GroupPut, GroupCounted, GroupDone, RetirePut,
                 RetireRelease, RetireDone, CancelVisit, CancelPut, CancelDone
        <5>2. ~\E q \in todo : RetireVisit(q)
          BY <2>6 DEF RetireVisit
        <5> QED
          BY <1>0, <1>2, <5>1, <5>2
             DEF Next, ApiStep, HandlerStep, ClientFault, ReadSnapshot, ReadKvUsed, ReadRunning, Reject, Accept,
                 OpenStream, Take, Disconnect, DisconnectUnopened, Timeout, Cancel,
                 Unregister, MoveTo, RequestShutdown, vars, Terminal
      <4> QED
        BY <4>1
    <3>2. Old
      BY <1>2, <2>6, <3>1
    <3> QED
      BY <2>1, <2>6, <3>2
  <2>7. CASE EngineStep
    <3>1. CASE ~\E q \in todo : RetireVisit(q)
      BY <1>2, <2>2, <2>3, <2>5, <2>7, <3>1
         DEF EngineStep, LoopTop, PopRequest, InsertRequest, AdmitDone, PickPrefill, NoPrefill,
             FirstToken, FirstCounted, NoDecode, StartSolo, StartGroup, SoloComplete, SoloCancelled,
             SoloGenerate, SoloPut, SoloCounted, ChunkComplete, ChunkNext, SoloLeave, SoloAgain,
             GroupComplete, GroupGenerate, GroupPut, GroupCounted, GroupDone, RetireDone, CancelVisit,
             CancelPut, CancelDone
    <3> QED
      BY <2>4, <3>1
  <2> QED
    BY <2>6, <2>7 DEF Next, ApiStep, RequestShutdown, vars
<1> QED
  BY <1>1, <1>2 DEF NothingOutstanding

\* The counter is a sum over the running set.
LEMMA KvSum == KvConserved <=> (pc # "stopped" => kvUsed = SumOf(charged, running))
  BY DEF KvConserved, SumOf

LEMMA KvSumNext ==
  KvConserved' <=> (pc' # "stopped" => kvUsed' = SumOf(charged', running'))
  BY DEF KvConserved, SumOf, MapThenSumSet, MapThenFoldSet

\* KvConserved: every charge goes to both books, what is given back was in the
\* sum, and who comes or goes has nothing charged.
LEMMA KvConservedStep == ASSUME IInv, IInv', NothingOutstanding, KvConserved, [Next]_vars
                         PROVE  KvConserved'
<1> USE DEF apiVars, boundary, loop, kv, engineVars
<1>0. /\ running \subseteq Requests /\ IsFiniteSet(running)
      /\ charged \in [Requests -> Nat] /\ kvUsed \in Nat
      /\ running' \subseteq Requests /\ charged' \in [Requests -> Nat]
  BY RunningFinite DEF IInv, TypeOK, ThreadTypeOK, TallyTypeOK
<1>1. pc # "stopped" => kvUsed = SumOf(charged, running)
  BY KvSum
<1>2. ASSUME NEW r \in running, NEW bytes \in Nat, Charge(r, bytes), running' = running,
             pc # "stopped"
      PROVE  KvConserved'
  <2>1. charged'[r] = charged[r] + bytes /\ \A q \in running : q # r => charged[q] = charged'[q]
    BY <1>0, <1>2 DEF Charge
  <2>2. SumOf(charged', running) = SumOf(charged, running) + (charged'[r] - charged[r])
    BY <1>0, <2>1, SumUpdate
  <2>3. charged[r] \in Nat /\ kvUsed' = kvUsed + bytes /\ SumOf(charged, running) = kvUsed
    BY <1>0, <1>1, <1>2 DEF Charge
  <2>4. kvUsed' = SumOf(charged', running')
    BY <1>0, <1>2, <2>1, <2>2, <2>3
  <2> QED
    BY <2>4, KvSumNext
<1>3. CASE RetireRelease
  <2>1. cur \in running /\ running' = running /\ pc # "stopped"
    BY <1>3 DEF RetireRelease, IInv, CurState
  <2>2. charged'[cur] = 0 /\ \A q \in running : q # cur => charged[q] = charged'[q]
    BY <1>0, <1>3, <2>1 DEF RetireRelease
  <2>3. SumOf(charged', running) = SumOf(charged, running) + (charged'[cur] - charged[cur])
    BY <1>0, <2>1, <2>2, SumUpdate
  <2>4. charged[cur] \in Nat /\ charged[cur] <= kvUsed /\ kvUsed = SumOf(charged, running)
    BY <1>0, <1>1, <2>1, SumNat
  <2>5. kvUsed' = kvUsed - charged[cur]
    <3>1. kvUsed' = Max({0, kvUsed - charged[cur]})
      BY <1>3 DEF RetireRelease
    <3> QED
      BY <1>0, <2>4, <3>1, MaxPair
  <2>6. kvUsed' = SumOf(charged', running')
    BY <1>0, <2>1, <2>2, <2>3, <2>4, <2>5
  <2> QED
    BY <2>6, KvSumNext
<1>4. CASE UNCHANGED <<charged, kvUsed>>
  <2>1. CASE InsertRequest
    <3>1. /\ running' = running \cup {cur} /\ pc = "insert" /\ cur \in Requests
          /\ state[cur] = "ADMITTED"
      BY <2>1, HeldRequest DEF InsertRequest, HoldingPc, IInv, QueuedAreAdmitted
    <3>2. charged[cur] = 0
      BY <3>1 DEF NothingOutstanding
    <3>3. IsFiniteSet(running') /\ running \in SUBSET running'
      BY <1>0, <3>1, FS_AddElement
    <3>4. /\ \A q \in running' : charged[q] \in Int
          /\ \A q \in running' \ running : charged[q] = 0
      BY <1>0, <3>1, <3>2
    <3>5. SumOf(charged, running) = SumOf(charged, running')
      BY <3>3, <3>4, SumDropZeros
    <3> QED
      BY <1>1, <1>4, <3>1, <3>5, KvSumNext
  <2>2. CASE RetireDone
    <3>1. /\ running' = {r \in running : state[r] \notin Terminal} /\ pc = "retire" /\ todo = {}
          /\ cur \notin Requests
      BY <2>2 DEF RetireDone, IInv, CurIsHeld, HoldingPc, SoloPc
    <3>2. \A q \in running \ running' : charged[q] = 0
      BY <1>0, <3>1 DEF NothingOutstanding
    <3>3. running' \in SUBSET running /\ \A q \in running : charged[q] \in Int
      BY <1>0, <3>1
    <3>4. SumOf(charged, running') = SumOf(charged, running)
      BY <1>0, <3>2, <3>3, SumDropZeros
    <3> QED
      BY <1>1, <1>4, <3>1, <3>4, KvSumNext
  <2>3. CASE pc' = "stopped"
    BY <2>3, KvSumNext
  <2>4. CASE running' = running /\ pc # "stopped"
    BY <1>1, <1>4, <2>4, KvSumNext
  <2>5. ASSUME ~InsertRequest, ~RetireDone, pc' # "stopped"
        PROVE  running' = running /\ pc # "stopped"
    BY <2>5
       DEF Next, ApiStep, RequestShutdown, vars, EngineStep, LoopTop, PopRequest, AdmitDone,
           PickPrefill, NoPrefill, FirstToken, FirstCounted, NoDecode, StartSolo, StartGroup, SoloComplete,
           SoloCancelled, SoloGenerate, SoloPut, SoloCounted, ChunkComplete, ChunkNext, SoloLeave, SoloAgain,
           RoundOver, GroupComplete, GroupGenerate, GroupPut, GroupCounted, GroupDone, RetireVisit, RetirePut,
           RetireRelease, CancelVisit, CancelPut, CancelDone
  <2> QED
    BY <2>1, <2>2, <2>3, <2>4, <2>5
<1> QED
  BY <1>2, <1>3, <1>4, ChargingSteps

\* The books are kept along with the control.
LEMMA InitBooks == Init => KvInv
<1> SUFFICES ASSUME Init PROVE KvInv
  OBVIOUS
<1>1. ChargesKeepUp /\ NothingOutstanding
  BY DEF Init, ChargesKeepUp, NothingOutstanding
<1>2. kvUsed = SumOf(charged, running)
  BY SumEmpty DEF Init
<1> QED
  BY <1>1, <1>2, KvSum DEF KvInv

LEMMA StepBooks == IInv /\ IInv' /\ KvInv /\ [Next]_vars => KvInv'
  BY ChargesKeepUpStep, NothingOutstandingStep, KvConservedStep DEF KvInv

\* In every reachable state the control is in order and the books are right.
THEOREM ControlAndBooks == Spec => []Inv
  BY InitInvariant, StepInvariant, InitBooks, StepBooks, PTL DEF Spec, Inv

\* The counter admission reads is the sum of what the running requests were
\* charged, on every decode path, until the thread has stopped.
THEOREM KvIsConserved == Spec => []KvConserved
<1>1. Inv => KvConserved
  BY DEF Inv, KvInv
<1> QED
  BY <1>1, ControlAndBooks, PTL

\* An unfinished request that was sent tokens has the prompt and all of them
\* charged, but for the one the thread has not counted yet.
LEMMA SentIsCharged ==
  ASSUME Inv, NEW r \in running, out[r] # <<>>, state[r] \notin Terminal
  PROVE  Sent[r] <= charged[r] + Uncounted(r) * BytesPerToken
<1>1. r \in Requests /\ state[r] \in {"PREFILLING", "DECODING"} /\ ~Closed(r)
  BY DEF Inv, IInv, TypeOK, ThreadTypeOK, RunningStates, Closed
<1>2. /\ Prompt[r] \in Nat /\ count[r] \in Nat /\ charged[r] \in Nat
      /\ BytesPerToken \in Nat /\ Ahead(r) \in Nat /\ Owed(r) \in Nat
  BY <1>1, OwedType DEF Inv
<1>3. Uncounted(r) \in {0, 1} /\ Len(out[r]) = count[r] + Uncounted(r)
  BY <1>1, <1>2 DEF Inv, IInv, ChannelContents, Delivered, Uncounted
<1>4. HasCache(r)
  <2>1. CASE state[r] = "PREFILLING"
    <3>1. Len(out[r]) # 0
      BY <1>1 DEF Inv, IInv, TypeOK, ApiTypeOK
    <3>2. count[r] = 0
      BY <1>1, <2>1 DEF Inv, IInv, CountBounds
    <3>3. r = cur /\ pc \in CountPc
      BY <1>3, <3>1, <3>2 DEF Uncounted
    <3> QED
      BY <2>1, <3>3 DEF CountPc, HasCache, Inv, IInv, CurState, SoloPc
  <2> QED
    BY <1>1, <2>1 DEF HasCache
<1>5. charged[r] >= Owed(r) * BytesPerToken
  BY <1>4 DEF Inv, KvInv, ChargesKeepUp
<1> DEFINE n == Prompt[r] + Len(out[r])
           c == BytesPerToken
           o == Owed(r)
           u == Uncounted(r)
<1>6. n \in Nat /\ o \in Nat /\ u \in Nat /\ c \in Nat /\ n <= o + u
  <2>1. u \in Nat /\ n = Prompt[r] + count[r] + u
    BY <1>2, <1>3
  <2>2. o = Prompt[r] + count[r] + Ahead(r)
    BY DEF Owed
  <2> HIDE DEF n, c, o, u
  <2>3. o \in Nat /\ c \in Nat
    BY <1>2 DEF o, c
  <2> QED
    BY <1>2, <2>1, <2>2, <2>3
<1>7. Sent[r] = n * c
  BY <1>1 DEF Sent
<1>8. charged[r] >= o * c
  BY <1>5
<1> SUFFICES n * c <= charged[r] + u * c
  BY <1>7
<1> HIDE DEF n, c, o, u
<1>9. n * c <= (o + u) * c /\ (o + u) * c = o * c + u * c
  BY <1>6, ProductGrows, Distributes
<1>10. n * c \in Nat /\ o * c \in Nat /\ u * c \in Nat
  BY <1>6, ProductNat
<1> QED
  BY <1>2, <1>8, <1>9, <1>10

\* Sent is a number of bytes for each request.
LEMMA SentType == ASSUME IInv, NEW r \in Requests PROVE Sent[r] \in Nat
<1>1. Prompt[r] \in Nat /\ Len(out[r]) \in Nat /\ BytesPerToken \in Nat
  BY ApiAssumption, AdmissionAssumption DEF IInv, TypeOK, ApiTypeOK
<1>2. (Prompt[r] + Len(out[r])) * BytesPerToken \in Nat
  BY <1>1, ProductNat
<1> QED
  BY <1>2 DEF Sent

\* Whenever snapshot() reads it, the counter covers the prompts and all the
\* tokens the clients of unfinished requests were sent, one token put and not yet
\* charged excepted, whatever paths they are decoded on.
THEOREM KvIsCovered == Spec => []KvCoversTokens
<1> DEFINE T == {r \in running : out[r] # <<>> /\ state[r] \notin Terminal}
           bill == [r \in Requests |-> charged[r] + Uncounted(r) * BytesPerToken]
           lag == IF pc \in CountPc THEN BytesPerToken ELSE 0
<1>1. ASSUME Inv, pc # "stopped"
      PROVE  SumOf(Sent, T) <= kvUsed + lag
  <2>0. /\ running \subseteq Requests /\ IsFiniteSet(running) /\ T \in SUBSET running
        /\ charged \in [Requests -> Nat] /\ kvUsed \in Nat /\ BytesPerToken \in Nat
    BY <1>1, RunningFinite, AdmissionAssumption
       DEF Inv, IInv, TypeOK, ThreadTypeOK, TallyTypeOK
  <2>1. kvUsed = SumOf(charged, running)
    BY <1>1, KvSum DEF Inv, KvInv
  <2>2. \A r \in running : Sent[r] \in Nat /\ bill[r] \in Nat
    <3> SUFFICES ASSUME NEW r \in running PROVE Sent[r] \in Nat /\ bill[r] \in Nat
      OBVIOUS
    <3>1. Uncounted(r) * BytesPerToken \in Nat
      BY <2>0, ProductNat DEF Uncounted
    <3> QED
      BY <1>1, <2>0, <3>1, SentType DEF Inv
  <2>3. \A r \in T : Sent[r] <= bill[r]
    BY <1>1, <2>0, SentIsCharged
  <2>4. SumOf(Sent, T) <= SumOf(bill, running)
    BY <2>0, <2>2, <2>3, SumBelow
  <2>5. SumOf(bill, running) = SumOf(charged, running) + lag
    <3>1. CASE pc \in CountPc
      <4>1. cur \in running
        BY <1>1, <3>1 DEF CountPc, Inv, IInv, CurState, SoloPc
      <4>2. bill[cur] = charged[cur] + BytesPerToken
        BY <2>0, <3>1, <4>1 DEF Uncounted
      <4>3. \A r \in running : r # cur => charged[r] = bill[r]
        BY <2>0 DEF Uncounted
      <4>4. SumOf(bill, running) = SumOf(charged, running) + (bill[cur] - charged[cur])
        <5>1. \A r \in running : charged[r] \in Int /\ bill[r] \in Int
          BY <2>0, <2>2
        <5> HIDE DEF bill
        <5> QED
          BY <2>0, <4>1, <4>3, <5>1, SumUpdate
      <4> QED
        BY <2>0, <3>1, <4>1, <4>2, <4>4
    <3>2. CASE pc \notin CountPc
      <4>1. \A r \in running : bill[r] = charged[r]
        BY <2>0, <3>2 DEF Uncounted
      <4>2. SumOf(bill, running) = SumOf(charged, running)
        BY <2>0, <4>1, SumSame
      <4> QED
        BY <2>0, <2>1, <3>2, <4>2
    <3> QED
      BY <3>1, <3>2
  <2> QED
    BY <2>1, <2>4, <2>5
<1>2. Inv => KvCoversTokens
  <2> HIDE DEF lag
  <2>1. Inv /\ pc # "stopped" => SumOf(Sent, T) <= kvUsed + lag
    BY <1>1
  <2> QED
    BY <2>1 DEF KvCoversTokens, SumOf, lag
<1> QED
  BY <1>2, ControlAndBooks, PTL

------------------------------------------------------------------------------
\* The engine implements RequestLifecycle, for every set of requests and every
\* limit, queue and channel depth: each step is one of the lifecycle, or is not
\* seen by it.

\* The sentinel is on a channel exactly when the invariant says so.
EndsAgree == \A r \in Requests : Ended(r) <=> Closed(r)

\* By the contents of the channels, it is.
LEMMA EndedIsClosed == IInv => EndsAgree
<1> SUFFICES ASSUME IInv, NEW r \in Requests PROVE Ended(r) <=> Closed(r)
  BY DEF EndsAgree
<1>1. /\ out[r] \in Seq({Tok, End}) /\ Delivered(r) \in Nat
      /\ Len(out[r]) = Delivered(r) + (IF Closed(r) THEN 1 ELSE 0)
      /\ \A i \in DOMAIN out[r] : out[r][i] = IF i <= Delivered(r) THEN Tok ELSE End
  BY DeliveredType DEF IInv, TypeOK, ApiTypeOK, ChannelContents
<1>2. DOMAIN out[r] = 1..Len(out[r]) /\ Len(out[r]) \in Nat
  BY <1>1
<1>3. ASSUME Closed(r) PROVE Ended(r)
  <2>1. Delivered(r) + 1 \in DOMAIN out[r] /\ ~(Delivered(r) + 1 <= Delivered(r))
    BY <1>1, <1>2, <1>3
  <2> QED
    BY <1>1, <2>1 DEF Ended
<1>4. ASSUME ~Closed(r) PROVE ~Ended(r)
  <2>1. \A i \in DOMAIN out[r] : i <= Delivered(r)
    BY <1>1, <1>2, <1>4
  <2> QED
    BY <1>1, <2>1 DEF Ended, Tok, End
<1> QED
  BY <1>3, <1>4

ends == [r \in Requests |-> Ended(r)]

\* A token on a channel ends no output.
LEMMA TokenEndsNothing ==
  ASSUME IInv, NEW r \in Requests, Put(r, Tok)
  PROVE  UNCHANGED ends
<1>1. out[r] \in Seq({Tok, End}) /\ out' = [out EXCEPT ![r] = Append(out[r], Tok)]
  BY DEF IInv, TypeOK, ApiTypeOK, Put
<1>2. out'[r] = Append(out[r], Tok) /\ \A x \in Requests \ {r} : out'[x] = out[x]
  BY <1>1 DEF IInv, TypeOK, ApiTypeOK
<1>3. /\ Len(out[r]) \in Nat /\ DOMAIN out[r] = 1..Len(out[r])
      /\ DOMAIN out'[r] = 1..Len(out[r]) + 1
      /\ \A i \in 1..Len(out[r]) : out'[r][i] = out[r][i]
      /\ out'[r][Len(out[r]) + 1] = Tok
  BY <1>1, <1>2, AppendFacts
<1>4. Ended(r)' <=> Ended(r)
  BY <1>3 DEF Ended, Tok, End
<1>5. \A x \in Requests \ {r} : Ended(x)' <=> Ended(x)
  BY <1>2 DEF Ended
<1>6. \A x \in Requests : Ended(x) \in BOOLEAN /\ Ended(x)' \in BOOLEAN
  BY DEF Ended
<1>7. \A x \in Requests : Ended(x)' = Ended(x)
  BY <1>4, <1>5, <1>6
<1> QED
  BY <1>7 DEF ends

\* The sentinel of a finished request that has none yet is the lifecycle's End.
LEMMA SentinelIsEnd ==
  ASSUME IInv, NEW r \in Requests, Put(r, End), ~Closed(r), state[r] \in Terminal,
         UNCHANGED <<state, count, reason>>
  PROVE  Lifecycle!End(r)
<1>1. out[r] \in Seq({Tok, End}) /\ out' = [out EXCEPT ![r] = Append(out[r], End)]
  BY DEF IInv, TypeOK, ApiTypeOK, Put
<1>2. out'[r] = Append(out[r], End) /\ \A x \in Requests \ {r} : out'[x] = out[x]
  BY <1>1 DEF IInv, TypeOK, ApiTypeOK
<1>3. /\ Len(out[r]) \in Nat
      /\ DOMAIN out'[r] = 1..Len(out[r]) + 1
      /\ out'[r][Len(out[r]) + 1] = End
  BY <1>1, <1>2, AppendFacts
<1>4. ~Ended(r)
  BY EndedIsClosed DEF EndsAgree
<1>5. Ended(r)'
  BY <1>3 DEF Ended
<1>6. \A x \in Requests \ {r} : Ended(x)' <=> Ended(x)
  BY <1>2 DEF Ended
<1>7. \A x \in Requests : Ended(x) \in BOOLEAN /\ Ended(x)' \in BOOLEAN
  BY DEF Ended
<1>8. Ended(r)' = TRUE /\ \A x \in Requests \ {r} : Ended(x)' = Ended(x)
  BY <1>5, <1>6, <1>7
<1>9. [x \in Requests |-> Ended(x)]' = [[x \in Requests |-> Ended(x)] EXCEPT ![r] = TRUE]
  BY <1>8
<1> QED
  BY <1>4, <1>9 DEF Lifecycle!End, Lifecycle!Terminal, Terminal

\* A step the lifecycle does not see.
LEMMA StutterStep ==
  ASSUME UNCHANGED <<state, count, reason, ends>>
  PROVE  UNCHANGED Lifecycle!lifecycleVars
  BY DEF ends, Lifecycle!lifecycleVars

\* A step that leaves the channels alone ends no output.
LEMMA OutFrame == ASSUME UNCHANGED out PROVE UNCHANGED ends
  BY DEF ends, Ended

\* A completion by the decode step, the reason told from the limit and the
\* last token.
LEMMA CompleteStep ==
  ASSUME NEW r \in Requests, NEW why \in {"stop", "length"}, Complete(r, why),
         state[r] = "DECODING", why = "length" => AtLimit(r), UNCHANGED <<out, count>>
  PROVE  Lifecycle!Complete(r)
<1>1. UNCHANGED ends
  BY OutFrame
<1>2. Lifecycle!MoveTo(r, "COMPLETED")
  BY DEF Complete, MoveTo, Lifecycle!MoveTo, Lifecycle!Transitions
<1> QED
  BY <1>1, <1>2 DEF Complete, AtLimit, ends, Lifecycle!Complete

\* A cancellation by the engine thread is the lifecycle's.
LEMMA CancelStep ==
  ASSUME NEW r \in Requests, MoveTo(r, "CANCELLED"),
         state[r] \in {"PREFILLING", "DECODING"},
         reason' = [reason EXCEPT ![r] = "cancelled"], UNCHANGED <<out, count>>
  PROVE  Lifecycle!Cancel(r)
<1>1. UNCHANGED ends
  BY OutFrame
<1>2. Lifecycle!MoveTo(r, "CANCELLED")
  BY DEF MoveTo, Lifecycle!MoveTo, Lifecycle!Transitions
<1> QED
  BY <1>1, <1>2 DEF ends, Lifecycle!Cancel

\* A token after the first, below the limit.
LEMMA ProduceStep ==
  ASSUME IInv, NEW r \in Requests, CountToken(r), state[r] = "DECODING",
         count[r] < MaxTokens[r], UNCHANGED <<state, reason, out>>
  PROVE  Lifecycle!Produce(r)
<1>1. UNCHANGED ends
  BY OutFrame
<1>2. MaxTokens[r] + 0 = MaxTokens[r]
  BY ApiAssumption
<1> QED
  BY <1>1, <1>2 DEF CountToken, ends, Lifecycle!Produce

\* Every step of the thread, the handlers or shutdown() is one of the
\* lifecycle, or none it sees.
LEMMA LifecycleStep ==
  ASSUME IInv, [Next]_vars
  PROVE  [Lifecycle!Next]_(Lifecycle!lifecycleVars)
<1> USE DEF Lifecycle!Next, Lifecycle!EngineStep
<1>0. /\ state \in [Requests -> RequestState] /\ count \in [Requests -> Nat]
      /\ running \subseteq Requests /\ todo \subseteq running
      /\ CurState /\ CountBounds /\ HandlerMatchesState
  BY DEF IInv, TypeOK, ThreadTypeOK, TallyTypeOK, ApiTypeOK
<1>1. CASE UNCHANGED <<state, count, reason, out>>
  BY <1>1, OutFrame, StutterStep
<1>2. CASE InsertRequest
  <2>1. /\ cur \in Requests /\ state[cur] = "ADMITTED" /\ MoveTo(cur, "PREFILLING")
        /\ UNCHANGED <<count, reason, out>>
    BY <1>2, HeldRequest DEF InsertRequest, HoldingPc, IInv, QueuedAreAdmitted
  <2>2. UNCHANGED ends
    BY <2>1, OutFrame
  <2>3. Lifecycle!MoveTo(cur, "PREFILLING")
    BY <2>1 DEF MoveTo, Lifecycle!MoveTo, Lifecycle!Transitions
  <2>4. Lifecycle!Start(cur)
    BY <2>1, <2>2, <2>3 DEF ends, Lifecycle!Start
  <2> QED
    BY <2>1, <2>4
<1>3. CASE FirstCounted
  <2>1. /\ cur \in Requests /\ CountToken(cur) /\ MoveTo(cur, "DECODING") /\ UNCHANGED <<reason, out>>
        /\ state[cur] = "PREFILLING"
    BY <1>0, <1>3, HeldRequest DEF FirstCounted, HoldingPc, CurState
  <2>2. count[cur] = 0
    BY <1>0, <2>1 DEF CountBounds
  <2>3. UNCHANGED ends
    BY <2>1, OutFrame
  <2>4. Lifecycle!MoveTo(cur, "DECODING")
    BY <2>1 DEF MoveTo, Lifecycle!MoveTo, Lifecycle!Transitions
  <2>5. count' = [count EXCEPT ![cur] = 1]
    BY <1>0, <2>1, <2>2 DEF CountToken
  <2>6. Lifecycle!FirstToken(cur)
    BY <2>1, <2>3, <2>4, <2>5 DEF ends, Lifecycle!FirstToken
  <2> QED
    BY <2>1, <2>6
<1>4. CASE SoloCounted \/ GroupCounted
  <2>1. /\ cur \in Requests /\ CountToken(cur) /\ state[cur] = "DECODING"
        /\ UNCHANGED <<state, reason, out>>
    BY <1>0, <1>4, HeldRequest
       DEF SoloCounted, GroupCounted, HoldingPc, SoloPc, CurState, apiVars
  <2>2. count[cur] \in Nat /\ MaxTokens[cur] \in Int /\ burst \in Nat
    BY <1>0, <2>1, ApiAssumption, EngineAssumption DEF IInv, TypeOK, ThreadTypeOK
  <2>3. count[cur] < MaxTokens[cur]
    BY <1>0, <1>4, <2>2 DEF SoloCounted, GroupCounted, CountBounds
  <2>4. Lifecycle!Produce(cur)
    BY <2>1, <2>3, ProduceStep
  <2> QED
    BY <2>1, <2>4
<1>4a. CASE FirstToken \/ SoloPut \/ GroupPut
  <2>1. cur \in Requests /\ Put(cur, Tok) /\ UNCHANGED <<state, count, reason>>
    BY <1>4a, HeldRequest DEF FirstToken, SoloPut, GroupPut, Deliver, HoldingPc, SoloPc
  <2> QED
    BY <2>1, TokenEndsNothing, StutterStep
<1>5. CASE SoloComplete \/ ChunkComplete
  <2>1. cur \in Requests /\ state[cur] = "DECODING" /\ UNCHANGED <<out, count>>
    BY <1>0, <1>5, HeldRequest
       DEF SoloComplete, ChunkComplete, HoldingPc, SoloPc, CurState
  <2>2. \E why \in {"stop", "length"} :
          Complete(cur, why) /\ (why = "length" => AtLimit(cur))
    BY <1>5 DEF SoloComplete, ChunkComplete, StopReason
  <2>3. Lifecycle!Complete(cur)
    BY <2>1, <2>2, CompleteStep
  <2> QED
    BY <2>1, <2>3
<1>6. ASSUME NEW r \in todo, GroupComplete(r)
      PROVE  Lifecycle!Next
  <2>1. r \in Requests /\ state[r] = "DECODING" /\ UNCHANGED <<out, count>>
    BY <1>0, <1>6 DEF GroupComplete, CurState
  <2>2. \E why \in {"stop", "length"} :
          Complete(r, why) /\ (why = "length" => AtLimit(r))
    BY <1>6 DEF GroupComplete, StopReason
  <2>3. Lifecycle!Complete(r)
    BY <2>1, <2>2, CompleteStep
  <2> QED
    BY <2>1, <2>3
<1>7. ASSUME NEW r \in todo, RetireVisit(r) \/ CancelVisit(r)
      PROVE  [Lifecycle!Next]_(Lifecycle!lifecycleVars)
  <2>1. r \in Requests /\ UNCHANGED <<out, count>>
    BY <1>0, <1>7 DEF RetireVisit, CancelVisit
  <2>2. \/ UNCHANGED <<state, reason>>
        \/ /\ state[r] \in {"PREFILLING", "DECODING"} /\ MoveTo(r, "CANCELLED")
           /\ reason' = [reason EXCEPT ![r] = "cancelled"]
    BY <1>7 DEF RetireVisit, CancelVisit
  <2> QED
    BY <1>1, <2>1, <2>2, CancelStep
<1>8. CASE RetirePut \/ CancelPut
  <2>1. /\ cur \in Requests /\ Put(cur, End) /\ UNCHANGED <<state, count, reason>>
        /\ pc \in {"retire_put", "cancel_put"}
    BY <1>8, HeldRequest DEF RetirePut, CancelPut, HoldingPc
  <2>2. cur \in running \ todo /\ state[cur] \in Terminal
    BY <1>0, <2>1 DEF CurState
  <2>3. ~Closed(cur)
    BY <2>1, <2>2 DEF Closed
  <2>4. Lifecycle!End(cur)
    BY <2>1, <2>2, <2>3, SentinelIsEnd
  <2> QED
    BY <2>1, <2>4
<1>9. ASSUME NEW r \in Requests, Accept(r), UNCHANGED engineVars
      PROVE  Lifecycle!Next
  <2>1. state[r] = "QUEUED" /\ MoveTo(r, "ADMITTED") /\ UNCHANGED <<count, reason, out>>
    BY <1>0, <1>9 DEF Accept, HandlerMatchesState, engineVars
  <2>2. UNCHANGED ends
    BY <2>1, OutFrame
  <2>3. Lifecycle!MoveTo(r, "ADMITTED")
    BY <2>1 DEF MoveTo, Lifecycle!MoveTo, Lifecycle!Transitions
  <2>4. Lifecycle!Admit(r)
    BY <2>1, <2>2, <2>3 DEF ends, Lifecycle!Admit
  <2> QED
    BY <2>4
<1>10. CASE \/ LoopTop \/ PopRequest \/ AdmitDone \/ NoPrefill \/ NoDecode \/ StartSolo
            \/ StartGroup \/ SoloCancelled \/ SoloGenerate
  <2>1. UNCHANGED <<state, count, reason, out>>
    BY <1>10
       DEF LoopTop, PopRequest, AdmitDone, NoPrefill, NoDecode, StartSolo, StartGroup,
           SoloCancelled, SoloGenerate, apiVars
  <2> QED
    BY <1>1, <2>1
<1>11. CASE \/ ChunkNext \/ SoloLeave \/ SoloAgain \/ GroupDone \/ RetireRelease
            \/ RetireDone \/ CancelDone \/ RequestShutdown \/ UNCHANGED vars
  <2>1. UNCHANGED <<state, count, reason, out>>
    BY <1>11
       DEF ChunkNext, SoloLeave, SoloAgain, GroupDone, RetireRelease, RetireDone,
           CancelDone, RequestShutdown, vars, apiVars, engineVars
  <2> QED
    BY <1>1, <2>1
<1>12. CASE \/ \E r \in running : PickPrefill(r)
            \/ \E r \in todo : GroupGenerate(r)
  BY <1>1, <1>12 DEF PickPrefill, GroupGenerate, apiVars
<1>13. CASE ApiStep
  <2>1. PICK r \in Requests :
          \/ ReadSnapshot(r, kvUsed, Cardinality(running)) \/ HandlerStep(r) \/ ClientFault(r)
    BY <1>13 DEF ApiStep
  <2>2. UNCHANGED engineVars
    BY <1>13 DEF ApiStep
  <2>3. CASE Accept(r)
    BY <1>9, <2>2, <2>3
  <2>4. CASE ~Accept(r)
    BY <1>1, <2>1, <2>2, <2>4
       DEF ReadSnapshot, ReadKvUsed, ReadRunning, HandlerStep, Reject, OpenStream, Take, Cancel, Unregister,
           ClientFault, Disconnect, DisconnectUnopened, Timeout, engineVars
  <2> QED
    BY <2>3, <2>4
<1> QED
  BY <1>2, <1>3, <1>4, <1>4a, <1>5, <1>6, <1>7, <1>8, <1>10, <1>11, <1>12, <1>13
     DEF Next, EngineStep

\* The initial states agree.
LEMMA LifecycleInit == Init => Lifecycle!Init
  BY DEF Init, ApiInit, Ended, Lifecycle!Init, Lifecycle!NoReason, NoReason

\* The batching engine does to each request what the lifecycle promises, and
\* nothing else: started once, tokens below the limit after the first, a true
\* outcome, one end of the output, whatever path decodes it.
THEOREM LifecycleIsImplemented == Spec => ImplementsLifecycle
<1>1. IInv /\ [Next]_vars => [Lifecycle!Next]_(Lifecycle!lifecycleVars)
  BY LifecycleStep
<1> QED
  BY <1>1, LifecycleInit, Invariant, PTL
     DEF Spec, ImplementsLifecycle, Lifecycle!Spec
==============================================================================
