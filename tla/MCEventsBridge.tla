--------------------------- MODULE MCEventsBridge ---------------------------
(* Small instances of EventsBridge. *)
EXTENDS EventsBridge

CONSTANTS b1, b2
=============================================================================
