---------------------------- MODULE AdmissionGate ----------------------------
(***************************************************************************)
(* AdmissionController.decide as the load changes between two calls: one   *)
(* request asks again and again while requests come and go, sensors change *)
(* and its own size varies.  It carries the invariant the class states of  *)
(* itself, that a heavier load never turns a rejection into an acceptance. *)
(***************************************************************************)
EXTENDS Admission

CONSTANTS Tokens,   \* the sizes a request may have, in tokens
          KvLevels, \* the values of kv_used_bytes
          Counts    \* the values of running_requests and queued_requests

ASSUME GateAssumption ==
  /\ Tokens \subseteq Int
  /\ KvLevels \subseteq Nat
  /\ Counts \subseteq Nat

VARIABLES promptTokens, maxNewTokens,   \* the request that asks
          load                          \* the AdmissionSnapshot it meets

gateVars == <<promptTokens, maxNewTokens, load>>

Init ==
  /\ promptTokens \in {n \in Tokens : n >= 0}
  /\ maxNewTokens \in Tokens
  /\ load \in [kvUsed : KvLevels, running : Counts, queued : Counts,
               thermal : ThermalState, pressure : MemoryPressure]

Resize ==
  /\ promptTokens' \in {n \in Tokens : n >= 0}
  /\ maxNewTokens' \in Tokens
  /\ UNCHANGED load

ChargeOrRelease ==
  /\ \E n \in KvLevels : load' = [load EXCEPT !.kvUsed = n]
  /\ UNCHANGED <<promptTokens, maxNewTokens>>

ArriveOrRetire ==
  /\ \E n, m \in Counts : load' = [load EXCEPT !.running = n, !.queued = m]
  /\ UNCHANGED <<promptTokens, maxNewTokens>>

SensorsChange ==
  /\ \E t \in ThermalState, p \in MemoryPressure :
       load' = [load EXCEPT !.thermal = t, !.pressure = p]
  /\ UNCHANGED <<promptTokens, maxNewTokens>>

Next == Resize \/ ChargeOrRelease \/ ArriveOrRetire \/ SensorsChange

Spec == Init /\ [][Next]_gateVars

------------------------------------------------------------------------------
GateTypeOK ==
  /\ promptTokens \in Nat
  /\ maxNewTokens \in Int
  /\ load \in Snapshot

Severity(s) == CASE s = "normal" -> 0 [] s = "warn" -> 1 [] s = "critical" -> 2

\* The new situation is at least as heavy as the old one in every respect.
NoLighter ==
  /\ promptTokens' >= promptTokens
  /\ maxNewTokens' >= maxNewTokens
  /\ load'.kvUsed >= load.kvUsed
  /\ load'.running + load'.queued >= load.running + load.queued
  /\ Severity(load'.thermal) >= Severity(load.thermal)
  /\ Severity(load'.pressure) >= Severity(load.pressure)

Verdict == Decide(promptTokens, maxNewTokens, load)

\* "decision never relaxes from REJECT to ACCEPT" while the load does not drop:
\* stated by the class for kv_used, checked here for every input of decide.
NeverRelaxes == NoLighter /\ Verdict # "ACCEPT" => Verdict' # "ACCEPT"
Monotonic == [][NeverRelaxes]_gateVars
==============================================================================
