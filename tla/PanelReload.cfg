SPECIFICATION MCSpec
CONSTANTS
    p1 = p1
    p2 = p2
    acme = acme
    beta = beta
    nobody = nobody
    m1 = m1
    s1 = s1
    prod = prod
    stage = stage
    unset = unset
    trust = trust
    Panel = {p1, p2}
    Company = {acme, beta}
    HomeCompany = acme
    NoCompany = nobody
    Merchant = {m1}
    Secret = {s1}
    Registered <- MCRegistered
    Base = {prod, stage}
    SafeBase = {prod, stage}
    DefaultBase = prod
    Language = {"es", "en"}
    BrowserLanguage = "en"
    UserLang = unset
    ContextLang = "es"
    Unset = unset
    Section = {trust}
    DefaultSection = trust
    RequestedSection <- MCRequestedSection
    Sessions <- MCSessions
    Configurations <- MCConfigurations
    MaxMoves = 3
    MaxSaves = 1
INVARIANT
    SwitchReloads
CHECK_DEADLOCK FALSE
