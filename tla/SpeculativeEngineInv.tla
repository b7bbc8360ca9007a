------------------------- MODULE SpeculativeEngineInv -------------------------
(***************************************************************************)
(* The inductive invariant of SpeculativeEngine: what the one request at   *)
(* hand looks like at each pc, what every channel holds, and how a round   *)
(* of drafts relates to the limit and to the tokens the target cache holds.*)
(***************************************************************************)
EXTENDS SpeculativeEngine

FinallyPc == {"sentinel", "release"}
HoldingPc == {"begin"} \cup SpeculatePc \cup FinallyPc

\* The thread has a request at hand from its get to the end of the finally
\* block, whether that block ends or raises; it counts it from Begin on.
CurIsHeld ==
  /\ pc \in HoldingPc <=> cur \in Requests
  /\ inFlight = IF pc \in HoldingPc \ {"begin"} THEN 1 ELSE 0

\* The handler has created the Request exactly when it is past admission.
HandlerMatchesState ==
  \A r \in Requests :
    state[r] = "QUEUED" <=> handler[r] \in {"idle", "sampling", "admitting", "rejected"}

\* A request is queued once, and not while the thread is about to begin it.
QueuedAreAdmitted ==
  /\ \A i \in DOMAIN submitQ : state[submitQ[i]] = "ADMITTED"
  /\ \A i, j \in DOMAIN submitQ : submitQ[i] = submitQ[j] => i = j
  /\ pc = "begin" => \A i \in DOMAIN submitQ : submitQ[i] # cur

CurState ==
  /\ pc = "begin" => state[cur] = "ADMITTED"
  /\ pc = "prefill" => state[cur] = "PREFILLING"
  /\ pc \in {"first_token", "loop", "verify"} => state[cur] = "DECODING"
  /\ pc \in FinallyPc => state[cur] \in Terminal

\* The sentinel of r has been put: only the request in the finally block is
\* finished without it.
Closed(r) == state[r] \in Terminal /\ ~(pc = "sentinel" /\ cur = r)

\* A channel holds the tokens that were counted, then the sentinel.
ChannelContents ==
  \A r \in Requests :
    /\ Len(out[r]) = count[r] + (IF Closed(r) THEN 1 ELSE 0)
    /\ \A i \in DOMAIN out[r] : out[r][i] = IF i <= count[r] THEN Tok ELSE End
    /\ taken[r] <= Len(out[r])

\* The target cache grows by the last token and all drafts of a round, so it is
\* ahead of the tokens the round can deliver; the drafts alone fit the limit,
\* and the token that follows them can be one too many.
RoundsFit ==
  /\ \A r \in Requests :
       state[r] \in {"QUEUED", "ADMITTED", "PREFILLING"} => count[r] = 0
  /\ pc = "first_token" => count[cur] = 0 /\ targetHolds >= Prompt[cur]
  /\ pc = "loop" => count[cur] >= 1
  /\ pc = "verify" =>
       /\ count[cur] >= accepted + 1
       /\ count[cur] + (proposed - accepted) <= MaxTokens[cur]
       /\ targetHolds >= Prompt[cur] + count[cur] + (proposed - accepted)

ReasonMatchesState ==
  \A r \in Requests : reason[r] = NoReason <=> state[r] \notin Terminal

IInv ==
  /\ TypeOK
  /\ CurIsHeld
  /\ HandlerMatchesState
  /\ QueuedAreAdmitted
  /\ CurState
  /\ ChannelContents
  /\ RoundsFit
  /\ ReasonMatchesState
  /\ ReasonIsTrue
  /\ TargetCacheCovers
==============================================================================
