SPECIFICATION MCSpec
CONSTANTS
    cron = cron
    order = order
    k1 = k1
    k2 = k2
    nokid = nokid
    Thread = {cron, order}
    Recurrent = {cron}
    Kid = {k1, k2}
    NoKid = nokid
    MinTTL = 1
    MaxTTL = 1
    ValidFor = {1}
    MaxAge = 1
    MaxVersion = 2
    MaxRestarts = 0
PROPERTY
    CatchesUp
