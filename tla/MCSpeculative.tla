---------------------------- MODULE MCSpeculative ----------------------------
(***************************************************************************)
(* Instances of SpeculativeEngine for TLC.                                 *)
(***************************************************************************)
EXTENDS SpeculativeEngine

CONSTANTS r1, r2

PromptOne == [r \in Requests |-> 1]

\* r1 has room for a round cut by its limit and, after a rejection, another one;
\* r2's limit is below one.
LimitMixed == [r \in Requests |-> IF r = r1 THEN 3 ELSE 0]
==============================================================================
