SPECIFICATION FairBreakerSpec
CONSTANTS
    c1 = c1
    c2 = c2
    c3 = c3
    c4 = c4
    Callers <- FourCallers
    Threshold = 3
    Cooldown = 5
INVARIANT OpenMeansThreshold
PROPERTIES OpenEnds
