-------------------------- MODULE ContinuousEngine --------------------------
(***************************************************************************)
(* ContinuousBatchingEngine (engine/continuous.py) composed with the API   *)
(* boundary: the engine thread's loop admit - prefill - decode - retire,   *)
(* step by step, in every interleaving with the handlers.                  *)
(*                                                                         *)
(* A step of the engine ends where another thread can notice it: a get on  *)
(* the submission queue, a put on a token channel, a look at the           *)
(* cancellation registry, an update of what snapshot() reads.  Model       *)
(* calls, sampling and the KV tensors are left out; the token a call       *)
(* returns is any one of the kinds the control flow tells apart.           *)
(* The order in which a pass visits the running set is left open.          *)
(***************************************************************************)
EXTENDS ApiBoundary, FiniteSetsExt

CONSTANTS Greedy,        \* requests with temperature 0
          WithLogprob,   \* requests with return_logprob
          WithStop,      \* requests with stop sequences
          ChunkSize,     \* _SINGLE_REQUEST_GREEDY_CHUNK_SIZE (16)
          LoopBound,     \* rounds of the single-request loop (32)
          MayShutdown,   \* shutdown() may be called in this behaviour
          NoRequest      \* the engine holds no request

ASSUME EngineAssumption ==
  /\ Greedy \subseteq Requests
  /\ WithLogprob \subseteq Requests
  /\ WithStop \subseteq Requests
  /\ ChunkSize \in Nat \ {0}
  /\ LoopBound \in Nat \ {0}
  /\ MayShutdown \in BOOLEAN
  /\ NoRequest \notin Requests

VARIABLES pc,         \* where the engine thread stands
          running,    \* _running (its keys)
          cur,        \* the request the thread holds at pc
          todo,       \* what the current pass over the requests has left
          slots,      \* what is left of max_new in _admit_requests
          round,      \* the round of the single-request loop
          burst,      \* tokens left to deliver from the last model call
          chunked,    \* the single-request loop runs the compiled chunk
          count,      \* count[r]: completion_token_count
          last,       \* last[r]: the kind of last_token_id
          charged,    \* charged[r]: _ActiveRequest.kv_charged, until given back
          kvUsed,     \* _kv_used_bytes
          shutdown    \* _shutdown_requested

engineVars == <<pc, running, cur, todo, slots, round, burst, chunked,
                count, last, charged, kvUsed, shutdown>>
vars == <<apiVars, engineVars>>

\* Groups of variables an action leaves alone.
boundary == <<handler, snap, taken, events>>
loop == <<round, burst, chunked>>
kv == <<charged, kvUsed>>

EnginePc == {"top", "admit", "insert", "prefill", "first_token", "first_count",
             "decode", "solo", "solo_put", "solo_count", "solo_after",
             "group", "group_put", "group_count",
             "retire", "retire_put", "retire_release", "cancel_all", "cancel_put",
             "stopped"}

\* Between the put of a token and the entry of it in the request's count and in
\* the books: its client can already read it.
CountPc == {"first_count", "solo_count", "group_count"}

\* A token is the end-of-sequence token, one whose text completes a stop
\* sequence, or neither.
TokenKind == {"plain", "eos", "stop"}
KindsOf(r) == IF r \in WithStop THEN TokenKind ELSE {"plain", "eos"}

Init ==
  /\ ApiInit
  /\ pc = "top"
  /\ running = {}
  /\ cur = NoRequest
  /\ todo = {}
  /\ slots = 0
  /\ round = 0
  /\ burst = 0
  /\ chunked = FALSE
  /\ count = [r \in Requests |-> 0]
  /\ last = [r \in Requests |-> "plain"]
  /\ charged = [r \in Requests |-> 0]
  /\ kvUsed = 0
  /\ shutdown = FALSE

------------------------------------------------------------------------------
\* Building blocks.

\* Put one token of r on its channel.
Deliver(r) == Room(r) /\ Put(r, Tok)

\* Then count it and keep it as the last one.
CountToken(r) ==
  /\ count' = [count EXCEPT ![r] = @ + 1]
  /\ \E k \in KindsOf(r) : last' = [last EXCEPT ![r] = k]

\* Slip: the request's own tally is kept and the engine's counter is not.
ChargeRequestOnly(r, bytes) ==
  /\ charged' = [charged EXCEPT ![r] = @ + bytes]
  /\ UNCHANGED kvUsed

Charge(r, bytes) ==
  /\ charged' = [charged EXCEPT ![r] = @ + bytes]
  /\ kvUsed' = kvUsed + bytes

\* Why the decode step completes r instead of calling the model, if it does:
\* the limit, then the end token, then the stop checker.
AtLimitLate(r) == count[r] > MaxTokens[r]   \* slip: > for >=
AtLimit(r) == count[r] >= MaxTokens[r]
Stopped(r) == last[r] \in {"eos", "stop"}
StopReasonSwapped(r) == IF AtLimit(r) THEN "stop" ELSE "length"   \* slip
StopReason(r) == IF AtLimit(r) THEN "length" ELSE "stop"

Complete(r, why) ==
  /\ MoveTo(r, "COMPLETED")
  /\ reason' = [reason EXCEPT ![r] = why]

\* Leave the decode pass for the retire pass.
ToRetire ==
  /\ pc' = "retire"
  /\ todo' = running
  /\ cur' = NoRequest
  /\ round' = 0
  /\ burst' = 0
  /\ chunked' = FALSE

------------------------------------------------------------------------------
\* run() and _admit_requests.

\* Slip: the requests that already run are not deducted from the slots.
LoopTopAllSlots ==
  /\ pc = "top"
  /\ IF shutdown
       THEN pc' = "cancel_all" /\ todo' = running /\ UNCHANGED slots
       ELSE pc' = "admit" /\ slots' = MaxConcurrent /\ UNCHANGED todo
  /\ UNCHANGED <<apiVars, running, cur, loop, count, last, kv, shutdown>>

LoopTop ==
  /\ pc = "top"
  /\ IF shutdown
       THEN /\ pc' = "cancel_all"
            /\ todo' = running
            /\ UNCHANGED slots
       ELSE /\ pc' = "admit"
            /\ slots' = Max({0, MaxConcurrent - Cardinality(running)})
            /\ UNCHANGED todo
  /\ UNCHANGED <<apiVars, running, cur, loop, count, last, kv, shutdown>>

\* Slip: the request stays in the queue.
PopRequestPeeks ==
  /\ pc = "admit"
  /\ slots > 0
  /\ submitQ # <<>>
  /\ cur' = Head(submitQ)
  /\ slots' = slots - 1
  /\ pc' = "insert"
  /\ UNCHANGED <<state, reason, boundary, submitQ, out, running, todo, loop, count,
                 last, kv, shutdown>>

\* get_next_sync: from here until InsertRequest the request is in neither of
\* the two places snapshot() counts.
PopRequest ==
  /\ pc = "admit"
  /\ slots > 0
  /\ submitQ # <<>>
  /\ cur' = Head(submitQ)
  /\ submitQ' = Tail(submitQ)
  /\ slots' = slots - 1
  /\ pc' = "insert"
  /\ UNCHANGED <<state, reason, boundary, out, running, todo, loop, count, last,
                 kv, shutdown>>

InsertRequest ==
  /\ pc = "insert"
  /\ running' = running \cup {cur}
  /\ MoveTo(cur, "PREFILLING")
  /\ cur' = NoRequest
  /\ pc' = "admit"
  /\ UNCHANGED <<reason, boundary, submitQ, out, todo, slots, loop, count, last,
                 kv, shutdown>>

AdmitDone ==
  /\ pc = "admit"
  /\ slots = 0 \/ submitQ = <<>>
  /\ slots' = 0
  /\ pc' = IF running = {} THEN "top" ELSE "prefill"
  /\ UNCHANGED <<apiVars, running, cur, todo, loop, count, last, kv, shutdown>>

------------------------------------------------------------------------------
\* _process_prefills: one request per iteration, cancelled ones passed over.

Prefillable == {r \in running : state[r] = "PREFILLING" /\ ~IsCancelled(r)}

\* The prompt is charged before its first token is delivered.
PickPrefill(r) ==
  /\ pc = "prefill"
  /\ r \in Prefillable
  /\ Charge(r, Prompt[r] * BytesPerToken)
  /\ cur' = r
  /\ pc' = "first_token"
  /\ UNCHANGED <<apiVars, running, todo, slots, loop, count, last, shutdown>>

NoPrefill ==
  /\ pc = "prefill"
  /\ Prefillable = {}
  /\ pc' = "decode"
  /\ UNCHANGED <<apiVars, running, cur, todo, slots, loop, count, last, kv, shutdown>>

FirstToken ==
  /\ pc = "first_token"
  /\ Deliver(cur)
  /\ pc' = "first_count"
  /\ UNCHANGED <<state, reason, boundary, submitQ, running, cur, todo, slots, loop,
                 count, last, kv, shutdown>>

\* Slip: the token the prefill yields is delivered and not counted.
FirstCountedNot ==
  /\ pc = "first_count"
  /\ \E k \in KindsOf(cur) : last' = [last EXCEPT ![cur] = k]
  /\ MoveTo(cur, "DECODING")
  /\ Charge(cur, BytesPerToken)
  /\ cur' = NoRequest
  /\ pc' = "decode"
  /\ UNCHANGED <<reason, boundary, submitQ, out, running, todo, slots, loop, count,
                 shutdown>>

\* After the put: count, transition, and only then the charge for the token.
FirstCounted ==
  /\ pc = "first_count"
  /\ CountToken(cur)
  /\ MoveTo(cur, "DECODING")
  /\ Charge(cur, BytesPerToken)
  /\ cur' = NoRequest
  /\ pc' = "decode"
  /\ UNCHANGED <<reason, boundary, submitQ, out, running, todo, slots, loop, shutdown>>

------------------------------------------------------------------------------
\* _process_decodes, choice of the path.

Decodable == {r \in running : state[r] = "DECODING" /\ ~IsCancelled(r)}

NoDecode ==
  /\ pc = "decode"
  /\ Decodable = {}
  /\ ToRetire
  /\ UNCHANGED <<apiVars, running, slots, count, last, kv, shutdown>>

SoloEligible == Decodable = running /\ \E r \in Greedy : running = {r}

\* A lone greedy request gets the tight loop: by chunks when it has neither
\* logprobs nor stop sequences and the chunk compiles, else token by token.
StartSolo ==
  /\ pc = "decode"
  /\ SoloEligible
  /\ \E r \in running, c \in BOOLEAN :
       /\ c => r \notin WithLogprob \cup WithStop
       /\ cur' = r
       /\ chunked' = c
  /\ round' = 1
  /\ pc' = "solo"
  /\ UNCHANGED <<apiVars, running, todo, slots, burst, count, last, kv, shutdown>>

\* Cancellation is read here, once, for all requests of the pass.
StartGroup ==
  /\ pc = "decode"
  /\ Decodable # {}
  /\ ~SoloEligible
  /\ todo' = Decodable
  /\ pc' = "group"
  /\ UNCHANGED <<apiVars, running, cur, slots, loop, count, last, kv, shutdown>>

------------------------------------------------------------------------------
\* The single-request loop.

SoloComplete ==
  /\ pc = "solo"
  /\ \/ AtLimit(cur)
     \/ last[cur] = "eos"
     \/ last[cur] = "stop" /\ ~IsCancelled(cur)
  /\ Complete(cur, StopReason(cur))
  /\ ToRetire
  /\ UNCHANGED <<boundary, submitQ, out, running, slots, count, last, kv, shutdown>>

SoloCancelled ==
  /\ pc = "solo"
  /\ ~AtLimit(cur)
  /\ last[cur] # "eos"
  /\ IsCancelled(cur)
  /\ ToRetire
  /\ UNCHANGED <<apiVars, running, slots, count, last, kv, shutdown>>

\* Call the model.  A chunk is charged whole, though no more than the tokens
\* the request has left will be delivered.
SoloGenerate ==
  /\ pc = "solo"
  /\ ~AtLimit(cur)
  /\ ~Stopped(cur)
  /\ ~IsCancelled(cur)
  /\ IF chunked
       THEN /\ burst' = Min({ChunkSize, MaxTokens[cur] - count[cur]})
            /\ Charge(cur, ChunkSize * BytesPerToken)
       ELSE /\ burst' = 1
            /\ UNCHANGED kv
  /\ pc' = "solo_put"
  /\ UNCHANGED <<apiVars, running, cur, todo, slots, round, chunked, count, last,
                 shutdown>>

SoloPut ==
  /\ pc = "solo_put"
  /\ Deliver(cur)
  /\ pc' = "solo_count"
  /\ UNCHANGED <<state, reason, boundary, submitQ, running, cur, todo, slots, loop,
                 count, last, kv, shutdown>>

\* Slip: a token of the token-by-token loop is not charged.
SoloCountedUncharged ==
  /\ pc = "solo_count"
  /\ CountToken(cur)
  /\ burst' = burst - 1
  /\ pc' = "solo_after"
  /\ UNCHANGED <<apiVars, running, cur, todo, slots, round, chunked, kv, shutdown>>

\* Token by token the charge comes after the put, a chunk has been charged.
SoloCounted ==
  /\ pc = "solo_count"
  /\ CountToken(cur)
  /\ IF chunked THEN UNCHANGED kv ELSE Charge(cur, BytesPerToken)
  /\ burst' = burst - 1
  /\ pc' = "solo_after"
  /\ UNCHANGED <<apiVars, running, cur, todo, slots, round, chunked, shutdown>>

\* Only the chunk loop looks at the token it delivered before going on.
ChunkComplete ==
  /\ pc = "solo_after"
  /\ chunked
  /\ \/ /\ last[cur] = "eos"
        /\ Complete(cur, "stop")
     \/ /\ last[cur] # "eos"
        /\ burst = 0
        /\ AtLimit(cur)
        /\ Complete(cur, "length")
  /\ ToRetire
  /\ UNCHANGED <<boundary, submitQ, out, running, slots, count, last, kv, shutdown>>

ChunkNext ==
  /\ pc = "solo_after"
  /\ chunked
  /\ last[cur] # "eos"
  /\ burst > 0
  /\ pc' = "solo_put"
  /\ UNCHANGED <<apiVars, running, cur, todo, slots, loop, count, last, kv, shutdown>>

RoundOver ==
  /\ pc = "solo_after"
  /\ burst = 0
  /\ chunked => ~AtLimit(cur) /\ last[cur] # "eos"

\* Give way to a request that waits in the submission queue.
SoloLeave ==
  /\ RoundOver
  /\ submitQ # <<>> \/ round = LoopBound
  /\ ToRetire
  /\ UNCHANGED <<apiVars, running, slots, count, last, kv, shutdown>>

\* Slip: one round too many.
SoloAgainLonger ==
  /\ RoundOver
  /\ submitQ = <<>>
  /\ round <= LoopBound
  /\ round' = round + 1
  /\ pc' = "solo"
  /\ UNCHANGED <<apiVars, running, cur, todo, slots, burst, chunked, count, last,
                 kv, shutdown>>

SoloAgain ==
  /\ RoundOver
  /\ submitQ = <<>>
  /\ round < LoopBound
  /\ round' = round + 1
  /\ pc' = "solo"
  /\ UNCHANGED <<apiVars, running, cur, todo, slots, burst, chunked, count, last,
                 kv, shutdown>>

------------------------------------------------------------------------------
\* The batched pass: at most one token for each request of the pass.  The
\* checks of a batch read nothing but the request itself, so they are taken
\* with that request's turn.

GroupComplete(r) ==
  /\ pc = "group"
  /\ r \in todo
  /\ AtLimit(r) \/ Stopped(r)
  /\ Complete(r, StopReason(r))
  /\ todo' = todo \ {r}
  /\ UNCHANGED <<boundary, submitQ, out, pc, running, cur, slots, loop, count,
                 last, kv, shutdown>>

\* Slip: the batched path does not look at the limit.
GroupGenerateUnlimited(r) ==
  /\ pc = "group"
  /\ r \in todo
  /\ ~Stopped(r)
  /\ cur' = r
  /\ todo' = todo \ {r}
  /\ pc' = "group_put"
  /\ UNCHANGED <<apiVars, running, slots, loop, count, last, kv, shutdown>>

GroupGenerate(r) ==
  /\ pc = "group"
  /\ r \in todo
  /\ ~AtLimit(r)
  /\ ~Stopped(r)
  /\ cur' = r
  /\ todo' = todo \ {r}
  /\ pc' = "group_put"
  /\ UNCHANGED <<apiVars, running, slots, loop, count, last, kv, shutdown>>

GroupPut ==
  /\ pc = "group_put"
  /\ Deliver(cur)
  /\ pc' = "group_count"
  /\ UNCHANGED <<state, reason, boundary, submitQ, running, cur, todo, slots, loop,
                 count, last, kv, shutdown>>

GroupCounted ==
  /\ pc = "group_count"
  /\ CountToken(cur)
  /\ Charge(cur, BytesPerToken)
  /\ cur' = NoRequest
  /\ pc' = "group"
  /\ UNCHANGED <<apiVars, running, todo, slots, loop, shutdown>>

GroupDone ==
  /\ pc = "group"
  /\ todo = {}
  /\ ToRetire
  /\ UNCHANGED <<apiVars, running, slots, count, last, kv, shutdown>>

------------------------------------------------------------------------------
\* _retire_requests.

\* Slip: a request is cancelled whatever its state.
RetireVisitAnyState(r) ==
  /\ pc = "retire"
  /\ r \in todo
  /\ IF IsCancelled(r)
       THEN MoveTo(r, "CANCELLED") /\ reason' = [reason EXCEPT ![r] = "cancelled"]
       ELSE UNCHANGED <<state, reason>>
  /\ todo' = todo \ {r}
  /\ IF state'[r] \in Terminal
       THEN pc' = "retire_put" /\ cur' = r
       ELSE UNCHANGED <<pc, cur>>
  /\ UNCHANGED <<boundary, submitQ, out, running, slots, loop, count, last, kv,
                 shutdown>>

\* Look at r: drop it from the pass, or go on to end its output.
RetireVisit(r) ==
  /\ pc = "retire"
  /\ r \in todo
  /\ IF state[r] = "DECODING" /\ IsCancelled(r)
       THEN /\ MoveTo(r, "CANCELLED")
            /\ reason' = [reason EXCEPT ![r] = "cancelled"]
       ELSE UNCHANGED <<state, reason>>
  /\ todo' = todo \ {r}
  /\ IF state'[r] \in Terminal
       THEN pc' = "retire_put" /\ cur' = r
       ELSE UNCHANGED <<pc, cur>>
  /\ UNCHANGED <<boundary, submitQ, out, running, slots, loop, count, last, kv,
                 shutdown>>

\* Slip: no sentinel.
RetirePutNothing ==
  /\ pc = "retire_put"
  /\ pc' = "retire_release"
  /\ UNCHANGED <<apiVars, running, cur, todo, slots, loop, count, last, kv, shutdown>>

\* put(None).  From here on the client can have its answer.
RetirePut ==
  /\ pc = "retire_put"
  /\ Room(cur)
  /\ Put(cur, End)
  /\ pc' = "retire_release"
  /\ UNCHANGED <<state, reason, boundary, submitQ, running, cur, todo, slots, loop,
                 count, last, kv, shutdown>>

\* Slip: the request's tally is cleared, the engine's counter is not.
RetireReleaseLeaks ==
  /\ pc = "retire_release"
  /\ charged' = [charged EXCEPT ![cur] = 0]
  /\ cur' = NoRequest
  /\ pc' = "retire"
  /\ UNCHANGED <<apiVars, running, todo, slots, loop, count, last, kvUsed, shutdown>>

\* Only then is the KV memory given back.
RetireRelease ==
  /\ pc = "retire_release"
  /\ kvUsed' = Max({0, kvUsed - charged[cur]})
  /\ charged' = [charged EXCEPT ![cur] = 0]
  /\ cur' = NoRequest
  /\ pc' = "retire"
  /\ UNCHANGED <<apiVars, running, todo, slots, loop, count, last, shutdown>>

\* Slips: the retired requests stay; the whole running set goes.
RetireDoneKeeps ==
  /\ pc = "retire"
  /\ todo = {}
  /\ pc' = "top"
  /\ UNCHANGED <<apiVars, running, cur, todo, slots, loop, count, last, kv, shutdown>>
RetireDoneDrops ==
  /\ pc = "retire"
  /\ todo = {}
  /\ running' = {}
  /\ pc' = "top"
  /\ UNCHANGED <<apiVars, cur, todo, slots, loop, count, last, kv, shutdown>>

RetireDone ==
  /\ pc = "retire"
  /\ todo = {}
  /\ running' = {r \in running : state[r] \notin Terminal}
  /\ pc' = "top"
  /\ UNCHANGED <<apiVars, cur, todo, slots, loop, count, last, kv, shutdown>>

------------------------------------------------------------------------------
\* shutdown() and _cancel_all.

RequestShutdown ==
  /\ MayShutdown
  /\ ~shutdown
  /\ shutdown' = TRUE
  /\ UNCHANGED <<apiVars, pc, running, cur, todo, slots, loop, count, last, kv>>

\* Slip: only requests that decode are ended.
CancelVisitDecoding(r) ==
  /\ pc = "cancel_all"
  /\ r \in todo
  /\ todo' = todo \ {r}
  /\ IF state[r] = "DECODING"
       THEN /\ reason' = [reason EXCEPT ![r] = "cancelled"]
            /\ MoveTo(r, "CANCELLED")
            /\ cur' = r
            /\ pc' = "cancel_put"
       ELSE UNCHANGED <<reason, state, cur, pc>>
  /\ UNCHANGED <<boundary, submitQ, out, running, slots, loop, count, last, kv,
                 shutdown>>

CancelVisit(r) ==
  /\ pc = "cancel_all"
  /\ r \in todo
  /\ IF state[r] \in {"PREFILLING", "DECODING"}
       THEN /\ reason' = [reason EXCEPT ![r] = "cancelled"]
            /\ MoveTo(r, "CANCELLED")
       ELSE UNCHANGED <<state, reason>>
  /\ todo' = todo \ {r}
  /\ cur' = r
  /\ pc' = "cancel_put"
  /\ UNCHANGED <<boundary, submitQ, out, running, slots, loop, count, last, kv,
                 shutdown>>

CancelPut ==
  /\ pc = "cancel_put"
  /\ Room(cur)
  /\ Put(cur, End)
  /\ cur' = NoRequest
  /\ pc' = "cancel_all"
  /\ UNCHANGED <<state, reason, boundary, submitQ, running, todo, slots, loop,
                 count, last, kv, shutdown>>

\* _running.clear(); _kv_used_bytes keeps what the requests had charged.
CancelDone ==
  /\ pc = "cancel_all"
  /\ todo = {}
  /\ running' = {}
  /\ pc' = "stopped"
  /\ UNCHANGED <<apiVars, cur, todo, slots, loop, count, last, kv, shutdown>>

------------------------------------------------------------------------------
EngineStep ==
  \/ LoopTop \/ PopRequest \/ InsertRequest \/ AdmitDone
  \/ \E r \in running : PickPrefill(r)
  \/ NoPrefill \/ FirstToken \/ FirstCounted
  \/ NoDecode \/ StartSolo \/ StartGroup
  \/ SoloComplete \/ SoloCancelled \/ SoloGenerate \/ SoloPut \/ SoloCounted
  \/ ChunkComplete \/ ChunkNext \/ SoloLeave \/ SoloAgain
  \/ \E r \in todo : GroupComplete(r) \/ GroupGenerate(r)
  \/ GroupPut \/ GroupCounted \/ GroupDone
  \/ \E r \in todo : RetireVisit(r)
  \/ RetirePut \/ RetireRelease \/ RetireDone
  \/ \E r \in todo : CancelVisit(r)
  \/ CancelPut \/ CancelDone

ApiStep ==
  /\ \E r \in Requests :
       \/ ReadSnapshot(r, kvUsed, Cardinality(running))
       \/ HandlerStep(r)
       \/ ClientFault(r)
  /\ UNCHANGED engineVars

Next == EngineStep \/ ApiStep \/ RequestShutdown

Spec == Init /\ [][Next]_vars

\* The engine thread is scheduled whenever it is not blocked in a put, and the
\* event loop runs every handler that can move; clients and shutdown are free.
FairSpec ==
  /\ Spec
  /\ WF_vars(EngineStep)
  /\ \A r \in Requests :
       WF_vars((ReadRunning(r, Cardinality(running)) \/ HandlerStep(r))
               /\ UNCHANGED engineVars)

------------------------------------------------------------------------------
\* What must hold.

ThreadTypeOK ==
  /\ pc \in EnginePc
  /\ running \subseteq Requests
  /\ cur \in Requests \cup {NoRequest}
  /\ todo \subseteq running
  /\ slots \in 0..MaxConcurrent
  /\ round \in 0..LoopBound
  /\ burst \in 0..ChunkSize
  /\ chunked \in BOOLEAN
  /\ shutdown \in BOOLEAN

TallyTypeOK ==
  /\ count \in [Requests -> Nat]
  /\ last \in [Requests -> TokenKind]
  /\ charged \in [Requests -> Nat]
  /\ kvUsed \in Nat

\* Every variable ranges over what the code can store in it; what a pass has
\* left to do is part of the running set it iterates over.
TypeOK == ApiTypeOK /\ ThreadTypeOK /\ TallyTypeOK

\* The request get_next_sync returned and _running does not hold yet.
Held == IF pc = "insert" THEN 1 ELSE 0

\* max_new is computed once per iteration and the queue drained one request at
\* a time: the running set still never outgrows max_concurrent_requests.
CapacityRespected == Cardinality(running) + Held + slots <= MaxConcurrent

\* _check_admission and the put are one stretch of the event loop and only the
\* engine takes requests out: an accepted request always fits in the queue, so
\* the await of submit_async never lets another handler in.
SubmitFits == Len(submitQ) <= SubmitDepth

\* "Every request gets a None sentinel", once and after its last token, and
\* only when its state is terminal: a handler never waits behind a sentinel,
\* never reads a token after one.
SentinelIsLast ==
  \A r \in Requests :
    \A i \in DOMAIN out[r] :
      out[r][i] = End => i = Len(out[r]) /\ state[r] \in Terminal

\* When a handler has read the sentinel, the fields it then reads from the
\* engine thread's Request (finish_reason, completion_token_count) are final and
\* agree with the tokens it was sent.
AnswerIsWhole ==
  \A r \in Requests :
    Answered(r) =>
      /\ taken[r] = Len(out[r])
      /\ count[r] = taken[r] - 1
      /\ reason[r] # NoReason

\* The finish reason tells the truth: "length" exactly at the limit, "stop"
\* only on an end token or a stop sequence, on every decode path.
ReasonIsTrue ==
  \A r \in Requests :
    /\ reason[r] = "length" => AtLimit(r)
    /\ reason[r] = "stop" => Stopped(r)
    /\ reason[r] = "cancelled" <=> state[r] = "CANCELLED"

\* The most tokens r can be given: the first one is delivered before any limit
\* is looked at.
TokenCap(r) == Max({1, MaxTokens[r]})

\* The limit bounds what is delivered, also on the path that generates a whole
\* chunk whatever the request has left.
WithinTokenLimit ==
  \A r \in Requests : count[r] <= TokenCap(r)

\* The counter admission relies on is the sum of what the running requests
\* were charged: nothing leaks and nothing is given back twice.
KvConserved ==
  pc # "stopped" => kvUsed = MapThenSumSet(LAMBDA r : charged[r], running)

\* The bytes of r's prompt and of the tokens its client was sent.
Sent == [r \in Requests |-> (Prompt[r] + Len(out[r])) * BytesPerToken]

\* What the clients have been sent is in the counter: at every moment at which
\* snapshot() may read _kv_used_bytes it covers the prompt and the tokens
\* delivered of all unfinished requests that were delivered any, but for the one
\* token whose put is over and whose charge is still to come.  (This is about
\* tokens delivered; the prefetch loop leaves more than these in a cache.)
KvCoversTokens ==
  pc # "stopped" =>
    MapThenSumSet(LAMBDA r : Sent[r],
                  {r \in running : out[r] # <<>> /\ state[r] \notin Terminal})
      <= kvUsed + (IF pc \in CountPc THEN BytesPerToken ELSE 0)

LegalMoves ==
  \A r \in Requests : state'[r] # state[r] => state'[r] \in Transitions[state[r]]

\* Request.transition never raises: it would end the engine thread.
TransitionsAreLegal == [][LegalMoves]_vars

\* The engine thread stands before a put on a full channel.
Blocked ==
  /\ pc \in {"first_token", "solo_put", "group_put", "retire_put", "cancel_put"}
  /\ ~Room(cur)

\* With a channel deep enough for the whole answer and its sentinel, no client,
\* however slow or absent, ever makes the engine thread wait.
EngineNeverWaits ==
  (\A r \in Requests : ChannelDepth > TokenCap(r)) => ~Blocked

------------------------------------------------------------------------------
\* What must happen.

\* The engine implements the lifecycle it promises, request by request.
Lifecycle == INSTANCE RequestLifecycle
             WITH Slack <- 0,
                  produced <- count,
                  outcome <- reason,
                  ended <- [r \in Requests |-> Ended(r)]

ImplementsLifecycle == Lifecycle!Spec

\* Until shutdown every request that was admitted comes to its end, with or
\* without a client: it is neither forgotten by a pass nor stuck in the running
\* set after its flag is gone.
EveryRequestIsEnded ==
  \A r \in Requests : state[r] = "ADMITTED" ~> (Ended(r) \/ shutdown)

\* A client that waits for its answer gets it, or gives up.
WaitingClientIsServed ==
  \A r \in Requests : handler[r] = "reading" ~> (handler[r] = "closed" \/ shutdown)

\* The KV memory that was charged comes back, until none is in use.
KvIsReleased == (kvUsed > 0) ~> (kvUsed = 0 \/ shutdown)

\* Once shutdown is requested the thread ends, and every request it was running
\* has its output ended.
ShutdownEndsRunning ==
  \A r \in Requests : (shutdown /\ r \in running) ~> (pc = "stopped" /\ Ended(r))

------------------------------------------------------------------------------
\* What the repository's documents say and the code does not do.

\* thread_boundary.create_token_channel: a full channel pauses "decode for this
\* request".  The client of another request would not notice.
BackpressureIsPerRequest == WaitingClientIsServed

\* README, admission control: requests are rejected when the server would run
\* out of KV memory, so what is charged stays within the budget.
KvWithinBudget == kvUsed <= KvBudget
==============================================================================
