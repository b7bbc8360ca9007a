------------------------- MODULE SingleStreamEngine -------------------------
(***************************************************************************)
(* SingleStreamEngine (engine/single_stream.py): the decode loop of one    *)
(* request, token by token or by compiled chunks, with its KV accounting.  *)
(***************************************************************************)
EXTENDS SequentialEngine

CONSTANTS Chunkable,   \* requests with temperature 0, no logprobs, no stop
          ChunkSize    \* chunk_size of build_compiled_greedy_chunk (16)

ASSUME SingleStreamAssumption ==
  /\ Chunkable \subseteq Requests \ WithStop
  /\ ChunkSize \in Nat \ {0}

VARIABLES step,       \* rounds of the decode loop that are over
          burst,      \* tokens left to deliver from the last model call
          chunked,    \* compiled_chunk is there
          charged     \* kv_charged

decodeVars == <<step, burst, chunked, charged>>
vars == <<apiVars, loopVars, decodeVars>>

DecodePc == {"prefill", "first_token", "loop", "put"}

Init ==
  /\ LoopInit
  /\ step = 0
  /\ burst = 0
  /\ chunked = FALSE
  /\ charged = 0

Charge(tokens) ==
  /\ charged' = charged + tokens * BytesPerToken
  /\ kvUsed' = kvUsed + tokens * BytesPerToken

------------------------------------------------------------------------------
\* The prompt is in the cache and charged; the first token is still to come.
Prefill ==
  /\ pc = "prefill"
  /\ MoveTo(cur, "DECODING")
  /\ Charge(Prompt[cur])
  /\ pc' = "first_token"
  /\ UNCHANGED <<reason, boundary, submitQ, out, cur, inFlight, count, last,
                 shutdown, drain, step, burst, chunked>>

\* A chunk that does not compile leaves the token-by-token loop.
FirstToken ==
  /\ pc = "first_token"
  /\ Emit
  /\ Charge(1)
  /\ chunked' \in IF cur \in Chunkable THEN BOOLEAN ELSE {FALSE}
  /\ step' = 0
  /\ pc' = "loop"
  /\ UNCHANGED <<state, reason, boundary, submitQ, cur, inFlight, shutdown,
                 drain, burst>>

InLoopOneMore == pc = "loop" /\ step < MaxTokens[cur]   \* slip: range(max_tokens)

\* for _step in range(max_tokens - 1): nothing is checked after the last round,
\* and nothing at all when the limit is one or less.
InLoop == pc = "loop" /\ step < MaxTokens[cur] - 1

Stopped == last[cur] \in {"eos", "stop"}

AtLimit == count[cur] >= MaxTokens[cur]

Cancelled ==
  /\ InLoop
  /\ IsCancelled(cur)
  /\ EndAs("CANCELLED", "cancelled")
  /\ UNCHANGED decodeVars

\* Slip: a request cancelled meanwhile is completed too.
StopBeforeCancel ==
  /\ InLoop
  /\ Stopped \/ IsCancelled(cur)
  /\ EndAs("COMPLETED", "stop")
  /\ UNCHANGED decodeVars

Stop ==
  /\ InLoop
  /\ ~IsCancelled(cur)
  /\ Stopped
  /\ EndAs("COMPLETED", "stop")
  /\ UNCHANGED decodeVars

\* One model call.  A chunk is charged whole and before it is delivered.
Generate ==
  /\ InLoop
  /\ ~IsCancelled(cur)
  /\ ~Stopped
  /\ ~(chunked /\ AtLimit)
  /\ IF chunked
       THEN /\ burst' = Min({ChunkSize, MaxTokens[cur] - count[cur]})
            /\ Charge(ChunkSize)
       ELSE /\ burst' = 1
            /\ UNCHANGED <<charged, kvUsed>>
  /\ pc' = "put"
  /\ UNCHANGED <<apiVars, cur, inFlight, count, last, shutdown, drain, step,
                 chunked>>

\* An end token in a chunk drops the rest of it.
Deliver ==
  /\ pc = "put"
  /\ burst > 0
  /\ Emit
  /\ IF chunked THEN UNCHANGED <<charged, kvUsed>> ELSE Charge(1)
  /\ burst' = IF chunked /\ last'[cur] = "eos" THEN 0 ELSE burst - 1
  /\ UNCHANGED <<state, reason, boundary, submitQ, pc, cur, inFlight, shutdown,
                 drain, step, chunked>>

\* Only after a chunk is the end token looked at before the next round.
ChunkStop ==
  /\ pc = "put"
  /\ burst = 0
  /\ chunked
  /\ last[cur] = "eos"
  /\ EndAs("COMPLETED", "stop")
  /\ UNCHANGED decodeVars

RoundOver ==
  /\ pc = "put"
  /\ burst = 0
  /\ ~(chunked /\ last[cur] = "eos")
  /\ step' = step + 1
  /\ pc' = "loop"
  /\ UNCHANGED <<apiVars, cur, inFlight, kvUsed, count, last, shutdown, drain,
                 burst, chunked, charged>>

\* The rounds are over, or a chunked request has nothing left.
LoopOver ==
  /\ pc = "loop"
  /\ \/ ~InLoop
     \/ ~IsCancelled(cur) /\ ~Stopped /\ chunked /\ AtLimit
  /\ EndAs("COMPLETED", "length")
  /\ UNCHANGED decodeVars

Fail ==
  /\ FailAt(DecodePc)
  /\ UNCHANGED decodeVars

\* Slip: only the prompt is given back.
FinishPromptOnly ==
  /\ Release(Prompt[cur] * BytesPerToken)
  /\ charged' = 0
  /\ burst' = 0
  /\ UNCHANGED <<step, chunked>>

Finish ==
  /\ Release(charged)
  /\ charged' = 0
  /\ burst' = 0
  /\ UNCHANGED <<step, chunked>>

------------------------------------------------------------------------------
DecodeStep ==
  \/ Prefill \/ FirstToken
  \/ Cancelled \/ Stop \/ Generate \/ Deliver \/ ChunkStop \/ RoundOver
  \/ LoopOver \/ Fail \/ Finish

EngineStep == (LoopStep /\ UNCHANGED decodeVars) \/ DecodeStep

Next ==
  \/ EngineStep
  \/ (ShutdownStep \/ ApiStep) /\ UNCHANGED decodeVars

Spec == Init /\ [][Next]_vars

\* The engine thread runs when its put does not block, the event loop runs every
\* handler that can move; clients, failures and shutdown are free.
FairSpec ==
  /\ Spec
  /\ WF_vars(EngineStep)
  /\ \A r \in Requests :
       WF_vars((ReadRunning(r, inFlight) \/ HandlerStep(r))
               /\ UNCHANGED <<loopVars, decodeVars>>)

------------------------------------------------------------------------------
\* Every variable ranges over what the code can store in it; a chunk is never
\* cut to nothing.
TypeOK ==
  /\ LoopTypeOK(DecodePc)
  /\ step \in Nat
  /\ burst \in 0..ChunkSize
  /\ chunked \in BOOLEAN
  /\ charged \in Nat

\* The clamp of the finally block hides no imbalance: the counter is what the
\* request at hand was charged, and nothing when there is none.
KvIsSettled ==
  /\ kvUsed = charged
  /\ cur = NoRequest => kvUsed = 0 /\ inFlight = 0

\* A request moves to DECODING before its first token is put, which nobody can
\* see; the lifecycle has it start with that token.
Lifecycle ==
  INSTANCE RequestLifecycle
  WITH Slack <- 0,
       state <- [r \in Requests |-> IF state[r] = "DECODING" /\ count[r] = 0
                                    THEN "PREFILLING" ELSE state[r]],
       produced <- count,
       outcome <- reason,
       ended <- [r \in Requests |-> Ended(r)]

\* The engine implements the lifecycle it promises, request by request.
ImplementsLifecycle == Lifecycle!Spec
==============================================================================
