----------------------------- MODULE ApiBoundary -----------------------------
(***************************************************************************)
(* The API half of the server and the thread boundary it shares with the   *)
(* engine thread: the HTTP handlers of api/openai.py, the RequestBridge    *)
(* (submission queue and token channels) and the CancellationRegistry of   *)
(* engine/thread_boundary.py.                                              *)
(*                                                                         *)
(* All handlers run on one event loop.  A handler keeps the loop until it  *)
(* awaits, so its steps between two awaits interleave with the engine      *)
(* thread only: "sampling", "admitting" and "cancelling" are the places    *)
(* where the engine can run in the middle of such a stretch, and no other  *)
(* handler moves while one is there (LoopFree).                            *)
(*                                                                         *)
(* An engine module EXTENDS this one, adds the engine's state and passes   *)
(* what snapshot() reads of it to ReadSnapshot.                            *)
(***************************************************************************)
EXTENDS Integers, Sequences, FiniteSets, RequestStates, Admission

CONSTANTS Requests,      \* the HTTP requests of one behaviour
          Streaming,     \* those with body.stream
          Prompt,        \* Prompt[r]: len(prompt_tokens)
          MaxTokens,     \* MaxTokens[r]: max_tokens, any integer the schema lets in
          SubmitDepth,   \* maxsize of the submission queue (256)
          ChannelDepth   \* maxsize of a token channel (_TOKEN_CHANNEL_DEPTH)

ASSUME ApiAssumption ==
  /\ IsFiniteSet(Requests)
  /\ Streaming \subseteq Requests
  /\ Prompt \in [Requests -> Nat]
  /\ MaxTokens \in [Requests -> Int]
  /\ SubmitDepth \in Nat
  /\ ChannelDepth \in Nat \ {0}
  /\ MaxConcurrent <= SubmitDepth   \* 128, the bound of config.py, against 256

VARIABLES state,      \* state[r]: Request.state
          reason,     \* reason[r]: Request.finish_reason
          handler,    \* handler[r]: where the HTTP handler of r stands
          snap,       \* the part of an AdmissionSnapshot read so far
          submitQ,    \* RequestBridge._submit_queue
          out,        \* out[r]: everything ever put on r's output_channel
          taken,      \* taken[r]: how many items of it the handler has got
          events      \* events[r]: CancellationRegistry._events

apiVars == <<state, reason, handler, snap, submitQ, out, taken, events>>

Tok == "token"        \* a Token on a channel
End == "end"          \* None, the end-of-sequence sentinel

Handler == {"idle", "sampling", "admitting", "rejected", "opening", "reading",
            "finishing", "cancelling", "closed"}
Event == {"absent", "clear", "set"}
NoSnap == [kvUsed |-> 0, running |-> 0]

ApiInit ==
  /\ state = [r \in Requests |-> "QUEUED"]
  /\ reason = [r \in Requests |-> NoReason]
  /\ handler = [r \in Requests |-> "idle"]
  /\ snap = NoSnap
  /\ submitQ = <<>>
  /\ out = [r \in Requests |-> <<>>]
  /\ taken = [r \in Requests |-> 0]
  /\ events = [r \in Requests |-> "absent"]

------------------------------------------------------------------------------
\* The engine's side of the boundary.

Pending(r) == Len(out[r]) - taken[r]

\* sync_q.put blocks the calling thread until there is room.
Room(r) == Pending(r) < ChannelDepth

Put(r, item) == out' = [out EXCEPT ![r] = Append(@, item)]

IsCancelled(r) == events[r] = "set"

MoveTo(r, s) == state' = [state EXCEPT ![r] = s]

------------------------------------------------------------------------------
\* The API's side.

LoopFree ==
  \A r \in Requests : handler[r] \notin {"sampling", "admitting", "cancelling"}

Goto(r, place) == handler' = [handler EXCEPT ![r] = place]

\* _check_admission, engine.snapshot(): the KV counter is read first, then the
\* running count, then the queue length, on the event loop, while the engine runs.
ReadKvUsed(r, kvUsed) ==
  /\ LoopFree
  /\ handler[r] = "idle"
  /\ snap' = [snap EXCEPT !.kvUsed = kvUsed]
  /\ Goto(r, "sampling")
  /\ UNCHANGED <<state, reason, submitQ, out, taken, events>>

ReadRunning(r, running) ==
  /\ handler[r] = "sampling"
  /\ snap' = [snap EXCEPT !.running = running]
  /\ Goto(r, "admitting")
  /\ UNCHANGED <<state, reason, submitQ, out, taken, events>>

ReadSnapshot(r, kvUsed, running) == ReadKvUsed(r, kvUsed) \/ ReadRunning(r, running)

\* snapshot() reports NORMAL for both sensors, whatever the hardware says.
Decision(r) ==
  Decide(Prompt[r], MaxTokens[r],
         [kvUsed |-> snap.kvUsed, running |-> snap.running,
          queued |-> Len(submitQ), thermal |-> "normal", pressure |-> "normal"])

\* HTTP 429: no Request object is ever created.
Reject(r) ==
  /\ handler[r] = "admitting"
  /\ Decision(r) # "ACCEPT"
  /\ snap' = NoSnap
  /\ Goto(r, "rejected")
  /\ UNCHANGED <<state, reason, submitQ, out, taken, events>>

\* Create, transition to ADMITTED, register, submit: there is no await before
\* the put, and the put only waits when the queue is full (see SubmitFits).
Accept(r) ==
  /\ handler[r] = "admitting"
  /\ Decision(r) = "ACCEPT"
  /\ MoveTo(r, "ADMITTED")
  /\ events' = [events EXCEPT ![r] = "clear"]
  /\ submitQ' = Append(submitQ, r)
  /\ snap' = NoSnap
  /\ Goto(r, IF r \in Streaming THEN "opening" ELSE "reading")
  /\ UNCHANGED <<reason, out, taken>>

\* The server starts to iterate over the streaming response.
OpenStream(r) ==
  /\ LoopFree
  /\ handler[r] = "opening"
  /\ Goto(r, "reading")
  /\ UNCHANGED <<state, reason, snap, submitQ, out, taken, events>>

\* async_q.get: a token, or the sentinel that ends the answer.  _sse_stream
\* drains up to _SSE_TOKEN_BATCH items per chunk, here one per step.
Take(r) ==
  /\ LoopFree
  /\ handler[r] = "reading"
  /\ Pending(r) > 0
  /\ taken' = [taken EXCEPT ![r] = @ + 1]
  /\ IF out[r][taken[r] + 1] = End THEN Goto(r, "finishing")
                                   ELSE UNCHANGED handler
  /\ UNCHANGED <<state, reason, snap, submitQ, out, events>>

\* A streaming client goes away while its generator is suspended.
Disconnect(r) ==
  /\ LoopFree
  /\ r \in Streaming
  /\ handler[r] = "reading"
  /\ Goto(r, "finishing")
  /\ UNCHANGED <<state, reason, snap, submitQ, out, taken, events>>

\* It goes away before the generator was started: an async generator that was
\* never iterated runs no finally block.
DisconnectUnopened(r) ==
  /\ LoopFree
  /\ handler[r] = "opening"
  /\ Goto(r, "closed")
  /\ UNCHANGED <<state, reason, snap, submitQ, out, taken, events>>

\* _collect_tokens: nothing came for _DEFAULT_TIMEOUT seconds, HTTP 504.
Timeout(r) ==
  /\ LoopFree
  /\ r \notin Streaming
  /\ handler[r] = "reading"
  /\ Pending(r) = 0
  /\ Goto(r, "finishing")
  /\ UNCHANGED <<state, reason, snap, submitQ, out, taken, events>>

\* The finally block: cancel and unregister in one stretch of the event loop,
\* with the engine thread free to run in between.
Cancel(r) ==
  /\ LoopFree
  /\ handler[r] = "finishing"
  /\ events' = [events EXCEPT ![r] = IF @ = "clear" THEN "set" ELSE @]
  /\ Goto(r, "cancelling")
  /\ UNCHANGED <<state, reason, snap, submitQ, out, taken>>

Unregister(r) ==
  /\ handler[r] = "cancelling"
  /\ events' = [events EXCEPT ![r] = "absent"]
  /\ Goto(r, "closed")
  /\ UNCHANGED <<state, reason, snap, submitQ, out, taken>>

\* What a handler does by itself; disconnects and timeouts are not its doing.
HandlerStep(r) ==
  \/ Reject(r)
  \/ Accept(r)
  \/ OpenStream(r)
  \/ Take(r)
  \/ Cancel(r)
  \/ Unregister(r)

ClientFault(r) ==
  \/ Disconnect(r)
  \/ DisconnectUnopened(r)
  \/ Timeout(r)

------------------------------------------------------------------------------
ApiTypeOK ==
  /\ state \in [Requests -> RequestState]
  /\ reason \in [Requests -> FinishReason]
  /\ handler \in [Requests -> Handler]
  /\ snap \in [kvUsed : Nat, running : Nat]
  /\ submitQ \in Seq(Requests)
  /\ out \in [Requests -> Seq({Tok, End})]
  /\ taken \in [Requests -> Nat]
  /\ events \in [Requests -> Event]

\* r's output has ended: the sentinel is on its channel.
Ended(r) == \E i \in DOMAIN out[r] : out[r][i] = End

\* r's handler got the sentinel, so its client has the whole answer.
Answered(r) == taken[r] > 0 /\ out[r][taken[r]] = End

\* r's client is gone before its answer was complete.
Abandoned(r) == handler[r] \in {"finishing", "cancelling", "closed"} /\ ~Answered(r)
==============================================================================
