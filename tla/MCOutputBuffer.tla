--------------------------- MODULE MCOutputBuffer ---------------------------
(***************************************************************************)
(* Instances of OutputBuffer.  Either every call has a request id of its   *)
(* own, as when the gateway generates them, and the longer output belongs  *)
(* to the call that is evicted; or both clients choose the same id, and    *)
(* the workers do nothing wrong.                                           *)
(***************************************************************************)
EXTENDS OutputBuffer

CONSTANTS a, b

Own == [x \in Calls |-> [id |-> x, max |-> IF x = a THEN 2 ELSE 0, ends |-> Ends]]
Same == [x \in Calls |-> [id |-> a, max |-> 1, ends |-> {"stop"}]]
MCWorkloads == {Own, Same}

=============================================================================
