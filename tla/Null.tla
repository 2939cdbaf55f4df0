-------------------------------- MODULE Null --------------------------------
(* The null pointer: no event record, no timer, no cookie, no request, no   *)
(* buffer, no answer.                                                       *)
CONSTANT NULL
=============================================================================
