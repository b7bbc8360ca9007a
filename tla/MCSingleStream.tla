--------------------------- MODULE MCSingleStream ---------------------------
(***************************************************************************)
(* Instances of SingleStreamEngine for TLC.                                *)
(***************************************************************************)
EXTENDS SingleStreamEngine

CONSTANTS r1, r2

PromptOne == [r \in Requests |-> 1]

\* r1 needs a first token, a chunk of two and a cut one.
LimitMixed == [r \in Requests |-> IF r = r1 THEN 4 ELSE 2]
==============================================================================
