---------------------------- MODULE RequestStates ----------------------------
(***************************************************************************)
(* The lifecycle states of a request (types.RequestState) and the legal    *)
(* moves between them (Request._TRANSITIONS).  Request.transition raises   *)
(* ValueError on any other move, and none of the engines that call it      *)
(* catches the exception on the decode path.                               *)
(***************************************************************************)

RequestState == {"QUEUED", "ADMITTED", "PREFILLING", "DECODING",
                 "COMPLETED", "CANCELLED", "REJECTED"}

Transitions ==
  [QUEUED     |-> {"ADMITTED", "REJECTED"},
   ADMITTED   |-> {"PREFILLING", "CANCELLED"},
   PREFILLING |-> {"DECODING", "CANCELLED"},
   DECODING   |-> {"COMPLETED", "CANCELLED"},
   COMPLETED  |-> {},
   CANCELLED  |-> {},
   REJECTED   |-> {}]

\* The states in which the engines drop a request they hold.
Terminal == {"COMPLETED", "CANCELLED"}

\* Request.finish_reason; NoReason is Python's None.
NoReason == "none"
FinishReason == {NoReason, "stop", "length", "cancelled", "error"}
==============================================================================
