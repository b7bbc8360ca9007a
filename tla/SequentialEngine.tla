-------------------------- MODULE SequentialEngine --------------------------
(***************************************************************************)
(* What SingleStreamEngine and SpeculativeEngine have in common, composed  *)
(* with the API boundary: one request at a time is taken from the          *)
(* submission queue, processed to its end, and given its sentinel in a     *)
(* finally block; shutdown() sets a flag and polls the running count.      *)
(* Each engine EXTENDS this module and adds what it does between Begin and *)
(* the sentinel.                                                           *)
(*                                                                         *)
(* A model call, the sampler or the tokenizer may raise (MayFail); the     *)
(* handler of _process_request ends the request, not the thread.           *)
(***************************************************************************)
EXTENDS ApiBoundary, FiniteSetsExt

CONSTANTS WithStop,      \* requests with stop sequences
          MayFail,       \* a model call may raise in this behaviour
          MayShutdown,   \* shutdown() may be called in this behaviour
          NoRequest      \* the engine holds no request

ASSUME SequentialAssumption ==
  /\ WithStop \subseteq Requests
  /\ MayFail \in BOOLEAN
  /\ MayShutdown \in BOOLEAN
  /\ NoRequest \notin Requests

VARIABLES pc,         \* where the engine thread stands
          cur,        \* the request of _process_request
          inFlight,   \* _running_requests
          kvUsed,     \* _kv_used_bytes
          count,      \* count[r]: completion_token_count
          last,       \* last[r]: the kind of token_id
          shutdown,   \* _shutdown_requested
          drain       \* where the coroutine of shutdown() stands

loopVars == <<pc, cur, inFlight, kvUsed, count, last, shutdown, drain>>
boundary == <<handler, snap, taken, events>>

\* Where the thread stands outside of the engine's own part.
LoopPc == {"top", "pop", "begin", "sentinel", "release", "stopped"}

Drain == {"none", "polling", "drained", "timed_out"}

TokenKind == {"plain", "eos", "stop"}
KindsOf(r) == IF r \in WithStop THEN TokenKind ELSE {"plain", "eos"}

LoopInit ==
  /\ ApiInit
  /\ pc = "top"
  /\ cur = NoRequest
  /\ inFlight = 0
  /\ kvUsed = 0
  /\ count = [r \in Requests |-> 0]
  /\ last = [r \in Requests |-> "plain"]
  /\ shutdown = FALSE
  /\ drain = "none"

------------------------------------------------------------------------------
\* run()

LoopTop ==
  /\ pc = "top"
  /\ pc' = IF shutdown THEN "stopped" ELSE "pop"
  /\ UNCHANGED <<apiVars, cur, inFlight, kvUsed, count, last, shutdown, drain>>

\* Until Begin the request is in neither of the two counts of snapshot(), and
\* shutdown() does not see it.
PopRequest ==
  /\ pc = "pop"
  /\ submitQ # <<>>
  /\ cur' = Head(submitQ)
  /\ submitQ' = Tail(submitQ)
  /\ pc' = "begin"
  /\ UNCHANGED <<state, reason, boundary, out, inFlight, kvUsed, count, last,
                 shutdown, drain>>

NothingQueued ==
  /\ pc = "pop"
  /\ submitQ = <<>>
  /\ pc' = "top"
  /\ UNCHANGED <<apiVars, cur, inFlight, kvUsed, count, last, shutdown, drain>>

------------------------------------------------------------------------------
\* _process_request, the parts both engines share.

Begin ==
  /\ pc = "begin"
  /\ MoveTo(cur, "PREFILLING")
  /\ inFlight' = inFlight + 1
  /\ pc' = "prefill"
  /\ UNCHANGED <<reason, boundary, submitQ, out, cur, kvUsed, count, last,
                 shutdown, drain>>

\* Slip: a token is delivered and not counted.
EmitUncounted ==
  /\ Room(cur)
  /\ Put(cur, Tok)
  /\ \E k \in KindsOf(cur) : last' = [last EXCEPT ![cur] = k]
  /\ UNCHANGED count

\* Deliver one token of the request and count it.
Emit ==
  /\ Room(cur)
  /\ Put(cur, Tok)
  /\ count' = [count EXCEPT ![cur] = @ + 1]
  /\ \E k \in KindsOf(cur) : last' = [last EXCEPT ![cur] = k]

\* Slip: the finally block is left out.
EndAsWithoutSentinel(s, why) ==
  /\ MoveTo(cur, s)
  /\ reason' = [reason EXCEPT ![cur] = why]
  /\ pc' = "release"
  /\ UNCHANGED <<boundary, submitQ, out, cur, inFlight, kvUsed, count, last,
                 shutdown, drain>>

\* A finish reason, the transition that goes with it, and on to the finally block.
EndAs(s, why) ==
  /\ MoveTo(cur, s)
  /\ reason' = [reason EXCEPT ![cur] = why]
  /\ pc' = "sentinel"
  /\ UNCHANGED <<boundary, submitQ, out, cur, inFlight, kvUsed, count, last,
                 shutdown, drain>>

\* except Exception: the places are the ones with a model call, a sampler or a
\* tokenizer ahead of the next put.
FailAt(places) ==
  /\ MayFail
  /\ pc \in places
  /\ state[cur] \in {"PREFILLING", "DECODING"}
  /\ EndAs("CANCELLED", "error")

\* Slip: the sentinel is left out for a request that failed.
PutSentinelUnlessFailed ==
  /\ pc = "sentinel"
  /\ Room(cur)
  /\ IF reason[cur] = "error" THEN UNCHANGED out ELSE Put(cur, End)
  /\ pc' = "release"
  /\ UNCHANGED <<state, reason, boundary, submitQ, cur, inFlight, kvUsed, count,
                 last, shutdown, drain>>

\* finally: the sentinel first, and only then the running count and the bytes.
PutSentinel ==
  /\ pc = "sentinel"
  /\ Room(cur)
  /\ Put(cur, End)
  /\ pc' = "release"
  /\ UNCHANGED <<state, reason, boundary, submitQ, cur, inFlight, kvUsed, count,
                 last, shutdown, drain>>

\* Slip: the running count is not lowered.
ReleaseKeepsCount(bytes) ==
  /\ pc = "release"
  /\ kvUsed' = Max({0, kvUsed - bytes})
  /\ cur' = NoRequest
  /\ pc' = "top"
  /\ UNCHANGED <<apiVars, inFlight, count, last, shutdown, drain>>

Release(bytes) ==
  /\ pc = "release"
  /\ inFlight' = inFlight - 1
  /\ kvUsed' = Max({0, kvUsed - bytes})
  /\ cur' = NoRequest
  /\ pc' = "top"
  /\ UNCHANGED <<apiVars, count, last, shutdown, drain>>

------------------------------------------------------------------------------
\* shutdown(), a coroutine of the event loop.

RequestShutdown ==
  /\ LoopFree
  /\ MayShutdown
  /\ drain = "none"
  /\ shutdown' = TRUE
  /\ drain' = "polling"
  /\ UNCHANGED <<apiVars, pc, cur, inFlight, kvUsed, count, last>>

\* A poll finds nothing running.
DrainEnds ==
  /\ LoopFree
  /\ drain = "polling"
  /\ inFlight = 0
  /\ drain' = "drained"
  /\ UNCHANGED <<apiVars, pc, cur, inFlight, kvUsed, count, last, shutdown>>

\* Thirty seconds are over: the loop is left, and nothing is cancelled.
DrainTimesOut ==
  /\ LoopFree
  /\ drain = "polling"
  /\ inFlight > 0
  /\ drain' = "timed_out"
  /\ UNCHANGED <<apiVars, pc, cur, inFlight, kvUsed, count, last, shutdown>>

------------------------------------------------------------------------------
LoopStep == LoopTop \/ PopRequest \/ NothingQueued \/ Begin \/ PutSentinel

ShutdownStep == RequestShutdown \/ DrainEnds \/ DrainTimesOut

ApiStep ==
  /\ \E r \in Requests :
       \/ ReadSnapshot(r, kvUsed, inFlight)
       \/ HandlerStep(r)
       \/ ClientFault(r)
  /\ UNCHANGED loopVars

LoopTypeOK(places) ==
  /\ ApiTypeOK
  /\ pc \in LoopPc \cup places
  /\ cur \in Requests \cup {NoRequest}
  /\ inFlight \in 0..1
  /\ kvUsed \in Nat
  /\ count \in [Requests -> Nat]
  /\ last \in [Requests -> TokenKind]
  /\ shutdown \in BOOLEAN
  /\ drain \in Drain

------------------------------------------------------------------------------
\* What must hold of both engines.

\* Who has read the sentinel finds a finish reason and a token count, written by
\* the other thread, that agree with what it was sent.
AnswerIsWhole ==
  \A r \in Requests :
    Answered(r) =>
      /\ taken[r] = Len(out[r])
      /\ count[r] = taken[r] - 1
      /\ reason[r] # NoReason

\* The finish reason tells the truth: "length" only at the limit, "stop" only on
\* an end token or a stop sequence, the others only for a cancelled request.
ReasonIsTrue ==
  \A r \in Requests :
    /\ reason[r] = "length" => count[r] >= MaxTokens[r]
    /\ reason[r] = "stop" => last[r] \in {"eos", "stop"}
    /\ reason[r] \in {"cancelled", "error"} <=> state[r] = "CANCELLED"

\* The thread stands before a put on a full channel whose client has left.
Stuck ==
  /\ pc \in {"first_token", "put", "verify", "sentinel"}
  /\ ~Room(cur)
  /\ Abandoned(cur)

\* Unless the thread is stuck, stopped or dead, every admitted request comes to
\* its end, with or without a client, whatever model call fails.
EveryRequestIsEnded ==
  \A r \in Requests :
    state[r] = "ADMITTED" ~> (Ended(r) \/ Stuck \/ pc = "stopped")

\* Under the same condition a client that waits for its answer gets it, or gives
\* up: the engine comes back to the queue and the handler to the channel.
WaitingClientIsServed ==
  \A r \in Requests :
    handler[r] = "reading" ~> (handler[r] = "closed" \/ Stuck \/ pc = "stopped")
==============================================================================
