------------------------- MODULE MCContinuousEngine -------------------------
(***************************************************************************)
(* Instances of ContinuousEngine for TLC.                                  *)
(***************************************************************************)
EXTENDS ContinuousEngineInv

CONSTANTS r1, r2, r3

PromptOne == [r \in Requests |-> 1]

\* Limits.  LimitMixed: r1 needs a chunk of two and a cut one.  LimitEdge: the
\* values the schema of a chat request lets in below one, and one that decodes.
LimitShort == [r \in Requests |-> IF r = r1 THEN 2 ELSE 1]
LimitMixed == [r \in Requests |-> IF r = r1 THEN 4 ELSE 2]
LimitEdge == [r \in Requests |-> IF r = r1 THEN -1 ELSE IF r = r2 THEN 0 ELSE 2]
==============================================================================
