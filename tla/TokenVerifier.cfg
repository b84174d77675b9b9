SPECIFICATION Spec
CONSTANTS
    alice = alice
    bob = bob
    n1 = n1
    n2 = n2
    short = short
    lone = lone
    order = order
    other = other
    shop = shop
    j1 = j1
    nojti = nojti
    nan = nan
    inf = inf
    huge = huge
    k1 = k1
    k2 = k2
    Did <- MCDid
    Nonce <- MCNonce
    BadNonce = {short}
    Surrogate = {lone}
    Jti = {j1}
    NoJti = nojti
    NaN = nan
    Infinity = inf
    Huge = huge
    Intent <- MCIntent
    Key = {k1, k2}
    NonceKey <- MCNonceKey
    Token <- MCToken
    NonceTTL = 5
    MaxWindow = 5
    ExpSkew = 1
    Resolver <- MCDid
    MaxTime = 8
    MaxEpoch = 1
INVARIANTS
    TypeOK
    AcceptancesSpaced
    ReuseOnlyOfYoungTokens
    NonceSpentBySigner
PROPERTY
    LiveEntryKept
