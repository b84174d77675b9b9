SPECIFICATION Spec
CONSTANTS
    es = es
    kp = kp
    None = None
    Country <- MCCountry
    HighRisk <- MCHighRisk
    Tier2 <- MCTier2
    Order <- MCOrder
    Rule <- MCRule
    MaxRules = 1
INVARIANTS
    MissingSignalNeverBlocks
\* The gate of an order ends.
CHECK_DEADLOCK FALSE
