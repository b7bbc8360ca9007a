-------------------------- MODULE RequestLifecycle --------------------------
(***************************************************************************)
(* What an engine promises about each request it is given, with no engine, *)
(* queue, channel or thread in sight: a request is admitted, started,      *)
(* produces its first token whatever its limit and the next ones below it, *)
(* comes to an outcome, and then its output ends, once.  The engines are   *)
(* checked to implement it.                                                *)
(***************************************************************************)
EXTENDS Integers, RequestStates

CONSTANTS Requests,    \* the requests of one behaviour
          MaxTokens,   \* MaxTokens[r]: Request.max_tokens
          Slack        \* tokens by which an engine may overshoot the limit

VARIABLES state,       \* state[r]: Request.state
          produced,    \* produced[r]: Request.completion_token_count
          outcome,     \* outcome[r]: Request.finish_reason
          ended        \* ended[r]: the end-of-output marker was delivered

lifecycleVars == <<state, produced, outcome, ended>>

Init ==
  /\ state = [r \in Requests |-> "QUEUED"]
  /\ produced = [r \in Requests |-> 0]
  /\ outcome = [r \in Requests |-> NoReason]
  /\ ended = [r \in Requests |-> FALSE]

MoveTo(r, s) ==
  /\ s \in Transitions[state[r]]
  /\ state' = [state EXCEPT ![r] = s]

Admit(r) ==
  /\ MoveTo(r, "ADMITTED")
  /\ UNCHANGED <<produced, outcome, ended>>

Start(r) ==
  /\ MoveTo(r, "PREFILLING")
  /\ UNCHANGED <<produced, outcome, ended>>

FirstToken(r) ==
  /\ MoveTo(r, "DECODING")
  /\ produced' = [produced EXCEPT ![r] = 1]
  /\ UNCHANGED <<outcome, ended>>

Produce(r) ==
  /\ state[r] = "DECODING"
  /\ produced[r] < MaxTokens[r] + Slack
  /\ produced' = [produced EXCEPT ![r] = @ + 1]
  /\ UNCHANGED <<state, outcome, ended>>

\* "length" only when the limit was reached.
Complete(r) ==
  /\ MoveTo(r, "COMPLETED")
  /\ \E why \in {"stop", "length"} :
       /\ why = "length" => produced[r] >= MaxTokens[r]
       /\ outcome' = [outcome EXCEPT ![r] = why]
  /\ UNCHANGED <<produced, ended>>

\* On the client's behalf, or because a model call failed.
Cancel(r) ==
  /\ MoveTo(r, "CANCELLED")
  /\ \E why \in {"cancelled", "error"} : outcome' = [outcome EXCEPT ![r] = why]
  /\ UNCHANGED <<produced, ended>>

End(r) ==
  /\ state[r] \in Terminal
  /\ ~ended[r]
  /\ ended' = [ended EXCEPT ![r] = TRUE]
  /\ UNCHANGED <<state, produced, outcome>>

EngineStep(r) ==
  \/ Start(r)
  \/ FirstToken(r)
  \/ Produce(r)
  \/ Complete(r)
  \/ Cancel(r)
  \/ End(r)

Next == \E r \in Requests : Admit(r) \/ EngineStep(r)

Spec == Init /\ [][Next]_lifecycleVars
==============================================================================
