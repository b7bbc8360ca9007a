------------------------- MODULE AdmissionGateProofs -------------------------
(***************************************************************************)
(* Proof that the admission gate is monotonic, for every budget, headroom, *)
(* limit and request size: the class claims it for kv_used_bytes alone.    *)
(***************************************************************************)
EXTENDS AdmissionGate, TLAPS

\* A product grows with its first factor.
LEMMA ProductGrows == \A m, n \in Int, k \in Nat : m <= n => m * k <= n * k
<1> SUFFICES ASSUME NEW m \in Int, NEW n \in Int, NEW k \in Nat, m <= n
             PROVE  m * k <= n * k
  OBVIOUS
<1>1. (n - m) * k \in Nat
  BY SMT
<1>2. (n - m) * k = n * k - m * k
  BY SMT
<1> QED
  BY <1>1, <1>2

\* A larger request is never projected to need less.
LEMMA LargerProjectsHigher ==
  ASSUME NEW p \in Int, NEW q \in Int, NEW m \in Int, NEW n \in Int,
         p <= q, m <= n
  PROVE  ProjectPeak(p, m) <= ProjectPeak(q, n)
<1>1. p + m \in Int /\ q + n \in Int /\ p + m <= q + n
  OBVIOUS
<1>2. BytesPerToken \in Nat
  BY AdmissionAssumption
<1>3. (p + m) * BytesPerToken <= (q + n) * BytesPerToken
  BY <1>1, <1>2, ProductGrows
<1> QED
  BY <1>3 DEF ProjectPeak

\* decide accepts exactly when none of its four checks fires.
LEMMA AcceptsWhen ==
  ASSUME NEW p \in Int, NEW m \in Int, NEW s \in Snapshot
  PROVE  Decide(p, m, s) = "ACCEPT" <=>
           /\ s.thermal # "critical"
           /\ s.pressure # "critical"
           /\ ~(s.running + s.queued >= MaxConcurrent)
           /\ ~(ProjectPeak(p, m) > Available(s))
  BY DEF Decide

\* The gate's variables have their types.
LEMMA GateTypes == Spec => []GateTypeOK
<1>1. Init => GateTypeOK
  <2> SUFFICES ASSUME Init PROVE GateTypeOK
    OBVIOUS
  <2>1. promptTokens \in Nat /\ maxNewTokens \in Int
    BY GateAssumption DEF Init
  <2>2. load \in Snapshot
    BY GateAssumption DEF Init, Snapshot
  <2> QED
    BY <2>1, <2>2 DEF GateTypeOK
<1>2. GateTypeOK /\ [Next]_gateVars => GateTypeOK'
  <2> SUFFICES ASSUME GateTypeOK, [Next]_gateVars PROVE GateTypeOK'
    OBVIOUS
  <2> USE GateAssumption DEF GateTypeOK, Snapshot
  <2>1. CASE Resize
    BY <2>1 DEF Resize
  <2>2. CASE ChargeOrRelease
    BY <2>2 DEF ChargeOrRelease
  <2>3. CASE ArriveOrRetire
    BY <2>3 DEF ArriveOrRetire
  <2>4. CASE SensorsChange
    BY <2>4 DEF SensorsChange
  <2>5. CASE UNCHANGED gateVars
    BY <2>5 DEF gateVars
  <2> QED
    BY <2>1, <2>2, <2>3, <2>4, <2>5 DEF Next
<1> QED
  BY <1>1, <1>2, PTL DEF Spec

\* A request the gate refused is refused under a snapshot that is nowhere lighter.
LEMMA HeavierStaysRejected == GateTypeOK /\ GateTypeOK' => NeverRelaxes
<1> SUFFICES ASSUME GateTypeOK, GateTypeOK', NoLighter, Verdict' = "ACCEPT"
             PROVE  Verdict = "ACCEPT"
  BY DEF NeverRelaxes
<1>1. /\ load'.thermal # "critical" /\ load'.pressure # "critical"
      /\ ~(load'.running + load'.queued >= MaxConcurrent)
      /\ ~(ProjectPeak(promptTokens', maxNewTokens') > Available(load'))
  BY AcceptsWhen DEF GateTypeOK, Verdict
<1>2. load.thermal # "critical" /\ load.pressure # "critical"
  BY <1>1 DEF GateTypeOK, Snapshot, NoLighter, Severity, ThermalState, MemoryPressure
<1>3. ~(load.running + load.queued >= MaxConcurrent)
  BY <1>1, AdmissionAssumption DEF GateTypeOK, Snapshot, NoLighter
<1>4. ProjectPeak(promptTokens, maxNewTokens) <= ProjectPeak(promptTokens', maxNewTokens')
  <2>1. /\ promptTokens \in Int /\ maxNewTokens \in Int
        /\ promptTokens' \in Int /\ maxNewTokens' \in Int
    BY DEF GateTypeOK
  <2>2. promptTokens <= promptTokens' /\ maxNewTokens <= maxNewTokens'
    BY <2>1 DEF NoLighter
  <2> QED
    BY <2>1, <2>2, LargerProjectsHigher
<1>5. Available(load') <= Available(load)
  <2>1. HeadroomBytes \in Int
    BY AdmissionAssumption DEF HeadroomBytes
  <2> QED
    BY <2>1, AdmissionAssumption DEF GateTypeOK, Snapshot, NoLighter, Available
<1>6. ~(ProjectPeak(promptTokens, maxNewTokens) > Available(load))
  <2>1. /\ ProjectPeak(promptTokens, maxNewTokens) \in Int
        /\ ProjectPeak(promptTokens', maxNewTokens') \in Int
        /\ Available(load) \in Int /\ Available(load') \in Int
    BY AdmissionAssumption
       DEF GateTypeOK, Snapshot, ProjectPeak, Available, HeadroomBytes
  <2> QED
    BY <1>1, <1>4, <1>5, <2>1
<1> QED
  BY <1>2, <1>3, <1>6, AcceptsWhen DEF GateTypeOK, Verdict

\* AdmissionController's invariant: while sizes, charges, counts and sensors do
\* not improve, a rejection never becomes an acceptance.
THEOREM GateIsMonotonic == Spec => Monotonic
<1>1. GateTypeOK /\ GateTypeOK' /\ [Next]_gateVars => [NeverRelaxes]_gateVars
  BY HeavierStaysRejected
<1> QED
  BY <1>1, GateTypes, PTL DEF Spec, Monotonic
==============================================================================
