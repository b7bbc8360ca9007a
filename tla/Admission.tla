------------------------------ MODULE Admission ------------------------------
(***************************************************************************)
(* scheduler/admission.py: the pure gate between the API and the engine.   *)
(* A snapshot of the engine goes in, a decision comes out; the four checks *)
(* are made in the order of the code, the first that fails decides.        *)
(* Byte amounts are integers, as in the code: KvBudget is                  *)
(* ResidencyBudget.kv_budget_bytes, HeadroomPercent stands for the float   *)
(* scheduler.admission_headroom (a percentage keeps the product integral), *)
(* BytesPerToken for 2 * layers * heads * head_dim * bits/8.               *)
(***************************************************************************)
EXTENDS Integers

CONSTANTS MaxConcurrent,     \* scheduler.max_concurrent_requests
          KvBudget,          \* ResidencyBudget.kv_budget_bytes
          HeadroomPercent,   \* scheduler.admission_headroom, in percent
          BytesPerToken      \* KV bytes of one token

ASSUME AdmissionAssumption ==
  /\ MaxConcurrent \in Nat \ {0}
  /\ KvBudget \in Nat
  /\ HeadroomPercent \in 0..50
  /\ BytesPerToken \in Nat \ {0}

ThermalState == {"normal", "warn", "critical"}
MemoryPressure == {"normal", "warn", "critical"}

\* types.AdmissionSnapshot; kv_budget_bytes is carried there too, but decide
\* reads the controller's own budget.
Snapshot == [kvUsed : Nat, running : Nat, queued : Nat,
             thermal : ThermalState, pressure : MemoryPressure]

ProjectPeak(promptTokens, maxNewTokens) ==
  (promptTokens + maxNewTokens) * BytesPerToken

HeadroomBytes == (KvBudget * HeadroomPercent) \div 100

Available(snap) == KvBudget - snap.kvUsed - HeadroomBytes

\* Slips of Decide: a full server still admits one more; a sensor is compared
\* with the level below critical.
DecideOneTooMany(promptTokens, maxNewTokens, snap) ==
  IF "critical" \in {snap.thermal, snap.pressure} THEN "REJECT_THERMAL"
  ELSE IF snap.running + snap.queued > MaxConcurrent THEN "REJECT_QUEUE_FULL"
  ELSE IF ProjectPeak(promptTokens, maxNewTokens) > Available(snap)
       THEN "REJECT_OVER_BUDGET"
  ELSE "ACCEPT"
DecideOnWarn(promptTokens, maxNewTokens, snap) ==
  IF snap.thermal = "warn" THEN "REJECT_THERMAL"
  ELSE IF snap.pressure = "critical" THEN "REJECT_MEMORY_PRESSURE"
  ELSE IF snap.running + snap.queued >= MaxConcurrent THEN "REJECT_QUEUE_FULL"
  ELSE IF ProjectPeak(promptTokens, maxNewTokens) > Available(snap)
       THEN "REJECT_OVER_BUDGET"
  ELSE "ACCEPT"

Decide(promptTokens, maxNewTokens, snap) ==
  IF snap.thermal = "critical" THEN "REJECT_THERMAL"
  ELSE IF snap.pressure = "critical" THEN "REJECT_MEMORY_PRESSURE"
  ELSE IF snap.running + snap.queued >= MaxConcurrent THEN "REJECT_QUEUE_FULL"
  ELSE IF ProjectPeak(promptTokens, maxNewTokens) > Available(snap)
       THEN "REJECT_OVER_BUDGET"
  ELSE "ACCEPT"
==============================================================================
