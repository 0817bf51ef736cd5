-------------------------- MODULE MCProviderEvents --------------------------
(* ProviderEvents for two workers and a poison event. *)
EXTENDS ProviderEvents
=============================================================================
