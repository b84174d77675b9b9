SPECIFICATION Spec
CONSTANTS
    w1 = w1
    w2 = w2
    m1 = m1
    s1 = s1
    s2 = s2
    prod = prod
    unsafe = unsafe
    unset = unset
    bad = bad
    Merchant = {m1}
    Secret = {s1, s2}
    Registered <- MCRegistered
    Base = {prod, unsafe}
    SafeBase = {prod}
    Unset = unset
    Wizard = {w1, w2}
    Malformed = bad
    Sessions <- MCSessions
    Stored <- MCStored
    MaxSaves = 2
SYMMETRY Symmetric
INVARIANTS
    TypeOK
    PassedIsEarned
    SecretIsPasted
CHECK_DEADLOCK FALSE
