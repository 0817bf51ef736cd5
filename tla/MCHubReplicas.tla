---------------------------- MODULE MCHubReplicas ----------------------------
EXTENDS HubReplicas, TLC

CONSTANTS r1, r2

\* The second host's clock runs ahead of the first's.
TwoClocks == r1 :> 0 @@ r2 :> 1
=============================================================================
