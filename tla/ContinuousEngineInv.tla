------------------------- MODULE ContinuousEngineInv -------------------------
(***************************************************************************)
(* The inductive invariant of ContinuousEngine: where a request can be     *)
(* when the engine thread stands at each pc, and what its channel holds.   *)
(***************************************************************************)
EXTENDS ContinuousEngine

SoloPc == {"solo", "solo_put", "solo_count", "solo_after"}
RetirePc == {"retire", "retire_put", "retire_release", "cancel_all", "cancel_put"}
BeforeDecodePc == {"top", "admit", "insert", "prefill", "first_token", "first_count",
                   "decode"}
HoldingPc == SoloPc \cup {"insert", "first_token", "first_count", "group_put",
                          "group_count", "retire_put", "retire_release", "cancel_put"}

\* The thread holds a request exactly where its code has one at hand.
CurIsHeld == pc \in HoldingPc <=> cur \in Requests

\* The handler has created the Request exactly when it is past admission.
HandlerMatchesState ==
  \A r \in Requests :
    state[r] = "QUEUED" <=> handler[r] \in {"idle", "sampling", "admitting", "rejected"}

\* A request is in one place: the queue, the thread's hand, the running set.
QueuedAreAdmitted ==
  /\ \A i \in DOMAIN submitQ : state[submitQ[i]] = "ADMITTED"
  /\ \A i, j \in DOMAIN submitQ : submitQ[i] = submitQ[j] => i = j
  /\ pc = "insert" =>
       /\ state[cur] = "ADMITTED"
       /\ \A i \in DOMAIN submitQ : submitQ[i] # cur

RunningStates ==
  /\ \A r \in running : state[r] \in {"PREFILLING", "DECODING"} \cup Terminal
  /\ pc \in BeforeDecodePc => \A r \in running : state[r] \notin Terminal

\* The state of the request at hand, and of those the pass has left.
CurState ==
  /\ pc \in {"first_token", "first_count"} => cur \in running /\ state[cur] = "PREFILLING"
  /\ pc \in SoloPc => cur \in running /\ state[cur] = "DECODING"
  /\ pc \in {"group_put", "group_count"} =>
       cur \in running \ todo /\ state[cur] = "DECODING"
  /\ pc \in {"retire_put", "retire_release", "cancel_put"} =>
       cur \in running \ todo /\ state[cur] \in Terminal
  /\ pc \in {"group", "group_put", "group_count"} => \A r \in todo : state[r] = "DECODING"

\* The sentinel of r has been put: r has left the running set, or the retire
\* (or cancel) pass is done with it.
Closed(r) ==
  /\ state[r] \in Terminal
  /\ r \in running =>
       /\ pc \in RetirePc
       /\ r \notin todo
       /\ r = cur => pc = "retire_release"

\* The tokens on r's channel: those counted, and the one put last until it is.
Uncounted(r) == IF r = cur /\ pc \in CountPc THEN 1 ELSE 0
Delivered(r) == count[r] + Uncounted(r)

\* A channel holds the tokens that were delivered, then the sentinel.
ChannelContents ==
  \A r \in Requests :
    /\ Len(out[r]) = Delivered(r) + (IF Closed(r) THEN 1 ELSE 0)
    /\ \A i \in DOMAIN out[r] : out[r][i] = IF i <= Delivered(r) THEN Tok ELSE End
    /\ taken[r] <= Len(out[r])

\* No token before prefill; afterwards at least one and never above the limit.
CountBounds ==
  /\ \A r \in Requests : count[r] <= TokenCap(r)
  /\ \A r \in Requests :
       state[r] \in {"QUEUED", "ADMITTED", "PREFILLING"} => count[r] = 0
  /\ pc \in {"solo_put", "solo_count"} => burst >= 1
  /\ pc \in {"solo_put", "solo_count", "solo_after"} =>
       count[cur] + burst <= MaxTokens[cur]
  /\ pc \in {"group_put", "group_count"} => count[cur] < MaxTokens[cur]

\* What is left of max_new matters only while requests are admitted.
SlotsInUse == slots # 0 => pc \in {"admit", "insert"}

ReasonMatchesState ==
  \A r \in Requests : reason[r] = NoReason <=> state[r] \notin Terminal

IInv ==
  /\ TypeOK
  /\ CapacityRespected
  /\ Len(submitQ) <= MaxConcurrent
  /\ SlotsInUse
  /\ CurIsHeld
  /\ HandlerMatchesState
  /\ QueuedAreAdmitted
  /\ RunningStates
  /\ CurState
  /\ ChannelContents
  /\ CountBounds
  /\ ReasonMatchesState
  /\ ReasonIsTrue

------------------------------------------------------------------------------
\* The books of the KV memory, which the control does not depend on.

\* A request whose prompt is charged.
HasCache(r) == state[r] = "DECODING" \/ (pc \in {"first_token", "first_count"} /\ r = cur)

\* What the books owe r: the prompt, the tokens counted, and in the chunk loop
\* what the last call generated and is not counted yet.
Ahead(r) ==
  IF r = cur /\ chunked /\ pc \in {"solo_put", "solo_count", "solo_after"}
    THEN burst ELSE 0
Owed(r) == Prompt[r] + count[r] + Ahead(r)

\* It is charged.  The token just delivered is counted and charged after its put,
\* so outside the chunk loop it is the one token these books do not hold yet.
ChargesKeepUp ==
  \A r \in running : HasCache(r) => charged[r] >= Owed(r) * BytesPerToken

\* Nothing is charged to a request that waits, and nothing is left charged to
\* one that the retire pass is done with.
NothingOutstanding ==
  /\ \A r \in Requests : state[r] \in {"QUEUED", "ADMITTED"} => charged[r] = 0
  /\ pc \in {"retire", "retire_put", "retire_release"} =>
       \A r \in running \ todo : state[r] \in Terminal /\ r # cur => charged[r] = 0

KvInv ==
  /\ ChargesKeepUp
  /\ NothingOutstanding
  /\ KvConserved

\* The control of the engine and its books.
Inv == IInv /\ KvInv
==============================================================================
