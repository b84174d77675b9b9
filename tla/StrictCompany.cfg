SPECIFICATION Spec
CONSTANTS
    oa = oa
    oo = oo
    oc = oc
    c1 = c1
    m1 = m1
    pend = pend
    w1 = w1
    w2 = w2
    p1 = p1
    alice = alice
    na = na
    nc = nc
    nx = nx
    ja = ja
    jc = jc
    nojti = nojti
    nan = nan
    inf = inf
    huge = huge
    notoken = notoken
    nodid = nodid
    nosnap = nosnap
    noorder = noorder
    Did = {alice}
    Nonce <- MCNonce
    BadNonce = {}
    Surrogate = {}
    Jti = {ja, jc}
    NoJti = nojti
    NaN = nan
    Infinity = inf
    Huge = huge
    Intent <- MCIntent
    Key <- MCNonce
    NonceKey <- MCNonceKey
    Token <- MCToken
    NonceTTL = 2
    MaxWindow = 2
    ExpSkew = 1
    Order <- MCOrder
    Batch <- MCBatch
    Company = {c1}
    Configured <- MCConfigured
    Merchant = {m1}
    Pending = pend
    Worker = {w1}
    Process = {p1}
    ProcessOf <- OneProcess
    Op = {"confirm", "write", "create"}
    TokenOn <- MCTokenOn
    CtxToken <- MCCtxToken
    NoToken = notoken
    NoDid = nodid
    NoSnapshot = nosnap
    NoOrder = noorder
    Policy <- OnePolicy
    InitPolicy <- NoInitPolicy
    InitStatus <- MCInitStatus
    MaxTime = 2
    MaxCalls = 1
    MaxTries = 1
    MaxChanges = 0
    MaxCrashes = 0
INVARIANT
    StrictCompanyFailsClosed
\* Calls and clock are bounded: the instance comes to an end.
CHECK_DEADLOCK FALSE
