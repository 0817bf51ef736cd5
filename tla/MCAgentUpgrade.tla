--------------------------- MODULE MCAgentUpgrade ---------------------------
(* AgentUpgrade with one version that does not run. *)
EXTENDS AgentUpgrade
=============================================================================
