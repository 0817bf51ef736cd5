-------------------------- MODULE MCRuntimeDelivery --------------------------
(* RuntimeDelivery for a runtime that is replaced once. *)
EXTENDS RuntimeDelivery
=============================================================================
