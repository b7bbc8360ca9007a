-------------------------- MODULE SpeculativeEngine --------------------------
(***************************************************************************)
(* SpeculativeEngine (engine/speculative.py): a draft model proposes k     *)
(* tokens (DraftModel.generate_draft), the target model verifies them in   *)
(* one pass, rejection sampling delivers a prefix of them and one token    *)
(* more, and k follows the rate of acceptance.  The two KV caches are      *)
(* modelled by how many tokens they hold.  Probabilities are left out:     *)
(* every proposed token may be accepted or rejected.                       *)
(***************************************************************************)
EXTENDS SequentialEngine

CONSTANTS InitialDraft,     \* speculative.num_draft_tokens
          MaxDraft,         \* speculative.max_draft_tokens
          BackoffPercent    \* speculative.backoff_threshold, in percent

\* SpeculativeConfig; its validator orders the two lengths.
ASSUME SpeculativeAssumption ==
  /\ InitialDraft \in 1..16
  /\ MaxDraft \in InitialDraft..32
  /\ BackoffPercent \in 0..100

VARIABLES draftLen,     \* _current_draft_k
          proposed,     \* len(draft_tokens) of the round
          accepted,     \* how many of them are accepted so far
          targetHolds,  \* tokens in target_cache
          draftHolds,   \* tokens in draft_cache
          built         \* target_cache and draft_cache are bound

draftVars == <<draftLen, proposed, accepted, targetHolds, draftHolds, built>>
caches == <<targetHolds, draftHolds, built>>
vars == <<apiVars, loopVars, draftVars>>

SpeculatePc == {"prefill", "first_token", "loop", "verify"}

Init ==
  /\ LoopInit
  /\ draftLen = InitialDraft
  /\ proposed = 0
  /\ accepted = 0
  /\ targetHolds = 0
  /\ draftHolds = 0
  /\ built = FALSE

BuildCaches ==
  /\ pc = "prefill"
  /\ ~built
  /\ built' = TRUE
  /\ UNCHANGED <<apiVars, loopVars, draftLen, proposed, accepted, targetHolds,
                 draftHolds>>

\* Both models read the prompt.  Nothing is charged to the KV counter.
Prefill ==
  /\ pc = "prefill"
  /\ built
  /\ MoveTo(cur, "DECODING")
  /\ targetHolds' = Prompt[cur]
  /\ draftHolds' = Prompt[cur]
  /\ pc' = "first_token"
  /\ UNCHANGED <<reason, boundary, submitQ, out, cur, inFlight, kvUsed, count,
                 last, shutdown, drain, draftLen, proposed, accepted, built>>

FirstToken ==
  /\ pc = "first_token"
  /\ Emit
  /\ pc' = "loop"
  /\ UNCHANGED <<state, reason, boundary, submitQ, cur, inFlight, kvUsed,
                 shutdown, drain, draftVars>>

InLoop == pc = "loop" /\ count[cur] < MaxTokens[cur]

Cancelled ==
  /\ InLoop
  /\ IsCancelled(cur)
  /\ EndAs("CANCELLED", "cancelled")
  /\ UNCHANGED draftVars

\* The stop sequences of the request are not looked at.
Stop ==
  /\ InLoop
  /\ ~IsCancelled(cur)
  /\ last[cur] = "eos"
  /\ EndAs("COMPLETED", "stop")
  /\ UNCHANGED draftVars

\* Slip: k is not cut to what the limit leaves.
ProposeUncut ==
  /\ InLoop
  /\ ~IsCancelled(cur)
  /\ last[cur] # "eos"
  /\ proposed' = draftLen
  /\ accepted' = 0
  /\ draftHolds' = draftHolds + draftLen
  /\ targetHolds' = targetHolds + draftLen + 1
  /\ pc' = "verify"
  /\ UNCHANGED <<apiVars, cur, inFlight, kvUsed, count, last, shutdown, drain,
                 draftLen, built>>

\* Slip: the last token is not fed to the target model with its drafts.
ProposeWithoutLast ==
  /\ InLoop
  /\ ~IsCancelled(cur)
  /\ last[cur] # "eos"
  /\ \E k \in {Min({draftLen, MaxTokens[cur] - count[cur]})} :
       /\ proposed' = k
       /\ draftHolds' = draftHolds + k
       /\ targetHolds' = targetHolds + k
  /\ accepted' = 0
  /\ pc' = "verify"
  /\ UNCHANGED <<apiVars, cur, inFlight, kvUsed, count, last, shutdown, drain,
                 draftLen, built>>

\* generate_draft feeds the last token and all drafts but the last one to the
\* draft model; the verification feeds the last token and all drafts to the
\* target model.
Propose ==
  /\ InLoop
  /\ ~IsCancelled(cur)
  /\ last[cur] # "eos"
  /\ \E k \in {Min({draftLen, MaxTokens[cur] - count[cur]})} :
       /\ proposed' = k
       /\ draftHolds' = draftHolds + k
       /\ targetHolds' = targetHolds + k + 1
  /\ accepted' = 0
  /\ pc' = "verify"
  /\ UNCHANGED <<apiVars, cur, inFlight, kvUsed, count, last, shutdown, drain,
                 draftLen, built>>

\* An accepted token is delivered at once; the end token is not looked for.
AcceptDraft ==
  /\ pc = "verify"
  /\ accepted < proposed
  /\ Emit
  /\ accepted' = accepted + 1
  /\ UNCHANGED <<state, reason, boundary, submitQ, pc, cur, inFlight, kvUsed,
                 shutdown, drain, draftLen, proposed, caches>>

\* Slip: the bounds of the draft length are off by one.
AdaptedUnbounded ==
  IF 10 * accepted > 8 * proposed /\ draftLen <= MaxDraft THEN draftLen + 1
  ELSE IF 100 * accepted < BackoffPercent * proposed /\ draftLen >= 1
       THEN draftLen - 1
  ELSE draftLen

\* The draft length of the next round, from the share accepted in this one.
Adapted ==
  IF 10 * accepted > 8 * proposed /\ draftLen < MaxDraft THEN draftLen + 1
  ELSE IF 100 * accepted < BackoffPercent * proposed /\ draftLen > 1
       THEN draftLen - 1
  ELSE draftLen

\* The first rejected draft is replaced, or a bonus token follows when there was
\* none: one token more than was accepted either way.  Neither cache is trimmed.
ReplaceOrBonus ==
  /\ pc = "verify"
  /\ Emit
  /\ draftLen' = Adapted
  /\ proposed' = 0
  /\ accepted' = 0
  /\ pc' = "loop"
  /\ UNCHANGED <<state, reason, boundary, submitQ, cur, inFlight, kvUsed,
                 shutdown, drain, caches>>

LoopOver ==
  /\ pc = "loop"
  /\ ~InLoop
  /\ EndAs("COMPLETED", "length")
  /\ UNCHANGED draftVars

Fail ==
  /\ FailAt(SpeculatePc)
  /\ UNCHANGED draftVars

Forget ==
  /\ proposed' = 0
  /\ accepted' = 0
  /\ targetHolds' = 0
  /\ draftHolds' = 0
  /\ built' = FALSE
  /\ UNCHANGED draftLen

\* del target_cache, draft_cache
Finish ==
  /\ built
  /\ Release(0)
  /\ Forget

\* The same statement, after an exception that came before the caches were bound,
\* raises out of the finally block and ends the thread.
Die ==
  /\ ~built
  /\ pc = "release"
  /\ inFlight' = inFlight - 1
  /\ cur' = NoRequest
  /\ pc' = "stopped"
  /\ Forget
  /\ UNCHANGED <<apiVars, kvUsed, count, last, shutdown, drain>>

------------------------------------------------------------------------------
DecodeStep ==
  \/ BuildCaches \/ Prefill \/ FirstToken
  \/ Cancelled \/ Stop \/ Propose \/ AcceptDraft \/ ReplaceOrBonus
  \/ LoopOver \/ Fail \/ Finish \/ Die

EngineStep == (LoopStep /\ UNCHANGED draftVars) \/ DecodeStep

Next ==
  \/ EngineStep
  \/ (ShutdownStep \/ ApiStep) /\ UNCHANGED draftVars

Spec == Init /\ [][Next]_vars

\* As for the single-stream engine.
FairSpec ==
  /\ Spec
  /\ WF_vars(EngineStep)
  /\ \A r \in Requests :
       WF_vars((ReadRunning(r, inFlight) \/ HandlerStep(r))
               /\ UNCHANGED <<loopVars, draftVars>>)

------------------------------------------------------------------------------
\* Every variable ranges over what the code can store in it; the draft length
\* stays within its configured bounds.
TypeOK ==
  /\ LoopTypeOK(SpeculatePc)
  /\ draftLen \in 1..MaxDraft
  /\ proposed \in 0..MaxDraft
  /\ accepted \in 0..proposed
  /\ targetHolds \in Nat
  /\ draftHolds \in Nat
  /\ built \in BOOLEAN

\* The target cache holds every token the next pass builds on: the prompt and
\* what was delivered before the last token.
TargetCacheCovers ==
  pc = "loop" => targetHolds >= Prompt[cur] + count[cur] - 1

Lifecycle ==
  INSTANCE RequestLifecycle
  WITH Slack <- 1,
       state <- [r \in Requests |-> IF state[r] = "DECODING" /\ count[r] = 0
                                    THEN "PREFILLING" ELSE state[r]],
       produced <- count,
       outcome <- reason,
       ended <- [r \in Requests |-> Ended(r)]

\* The engine implements the lifecycle, with a limit one higher.
ImplementsLifecycle == Lifecycle!Spec

------------------------------------------------------------------------------
\* What the repository's documents say and the code does not do.

\* The comment of the rejection: "Target cache already has the right state",
\* the prompt and the tokens delivered before the last one, no more.
TargetCacheIsRight ==
  pc = "loop" => targetHolds = Prompt[cur] + count[cur] - 1
==============================================================================
