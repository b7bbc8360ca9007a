------------------------ MODULE SingleStreamEngineInv ------------------------
(***************************************************************************)
(* The inductive invariant of SingleStreamEngine: what the one request at  *)
(* hand looks like at each pc, what every channel holds, and how the       *)
(* rounds of the decode loop relate to the tokens delivered.               *)
(***************************************************************************)
EXTENDS SingleStreamEngine

FinallyPc == {"sentinel", "release"}
HoldingPc == {"begin"} \cup DecodePc \cup FinallyPc

\* The thread has a request at hand from its get to the end of the finally
\* block, and counts it as running from Begin on.
CurIsHeld ==
  /\ pc \in HoldingPc <=> cur \in Requests
  /\ inFlight = IF pc \in HoldingPc \ {"begin"} THEN 1 ELSE 0

\* The handler has created the Request exactly when it is past admission.
HandlerMatchesState ==
  \A r \in Requests :
    state[r] = "QUEUED" <=> handler[r] \in {"idle", "sampling", "admitting", "rejected"}

\* A request is queued once, and not while the thread is about to begin it.
QueuedAreAdmitted ==
  /\ \A i \in DOMAIN submitQ : state[submitQ[i]] = "ADMITTED"
  /\ \A i, j \in DOMAIN submitQ : submitQ[i] = submitQ[j] => i = j
  /\ pc = "begin" => \A i \in DOMAIN submitQ : submitQ[i] # cur

CurState ==
  /\ pc = "begin" => state[cur] = "ADMITTED"
  /\ pc = "prefill" => state[cur] = "PREFILLING"
  /\ pc \in {"first_token", "loop", "put"} => state[cur] = "DECODING"
  /\ pc \in FinallyPc => state[cur] \in Terminal

\* The sentinel of r has been put: only the request in the finally block is
\* finished without it.
Closed(r) == state[r] \in Terminal /\ ~(pc = "sentinel" /\ cur = r)

\* A channel holds the tokens that were counted, then the sentinel.
ChannelContents ==
  \A r \in Requests :
    /\ Len(out[r]) = count[r] + (IF Closed(r) THEN 1 ELSE 0)
    /\ \A i \in DOMAIN out[r] : out[r][i] = IF i <= count[r] THEN Tok ELSE End
    /\ taken[r] <= Len(out[r])

\* No token before the first one; afterwards at least one for each round that
\* is over, exactly one without chunks, and a burst that fits the limit.
RoundsAreCounted ==
  /\ \A r \in Requests :
       state[r] \in {"QUEUED", "ADMITTED", "PREFILLING"} => count[r] = 0
  /\ pc = "first_token" => count[cur] = 0
  /\ pc = "loop" =>
       /\ count[cur] >= step + 1
       /\ ~chunked => count[cur] = step + 1
  /\ pc = "put" =>
       /\ count[cur] >= 1
       /\ count[cur] + burst <= MaxTokens[cur]
       /\ count[cur] + burst >= step + 2 \/ (chunked /\ last[cur] = "eos" /\ burst = 0)
       /\ ~chunked => count[cur] + burst = step + 2

ReasonMatchesState ==
  \A r \in Requests : reason[r] = NoReason <=> state[r] \notin Terminal

IInv ==
  /\ TypeOK
  /\ CurIsHeld
  /\ HandlerMatchesState
  /\ QueuedAreAdmitted
  /\ CurState
  /\ ChannelContents
  /\ RoundsAreCounted
  /\ ReasonMatchesState
  /\ ReasonIsTrue
  /\ KvIsSettled
==============================================================================
