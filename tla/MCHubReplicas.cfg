SPECIFICATION Spec
CONSTANTS
    r1 = r1
    r2 = r2
    Replicas = {r1, r2}
    Nobody = Nobody
    Lifetime = 2
    ClaimLife = 3
    Clock <- TwoClocks
    Skew = 1
    MaxBackoff = 2
    MaxGeneration = 3
    MaxFaults = 1
INVARIANT LeaderHoldsLease
INVARIANT OneTickPerClaim
PROPERTY CommitsInOrder
PROPERTY ImplementsFence
PROPERTY ReconcileGoesOn
