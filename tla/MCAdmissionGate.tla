--------------------------- MODULE MCAdmissionGate ---------------------------
(***************************************************************************)
(* An instance of AdmissionGate for TLC: sizes around the limit, one of    *)
(* them negative, as the schema lets it be.                                *)
(***************************************************************************)
EXTENDS AdmissionGate

SizesAround == {-1, 0, 1, 2, 3}
LevelsAround == {0, 1, 5, 6, 7}
CountsAround == 0..2
==============================================================================
