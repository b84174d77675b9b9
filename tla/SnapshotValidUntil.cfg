SPECIFICATION Spec
CONSTANTS
    cron = cron
    order = order
    k1 = k1
    k2 = k2
    nokid = nokid
    Thread = {cron}
    Recurrent = {cron}
    Kid = {k1}
    NoKid = nokid
    MinTTL = 1
    MaxTTL = 2
    ValidFor = {1, 3}
    MaxAge = 1
    MaxVersion = 2
    MaxRestarts = 0
INVARIANT
    EntryWithinValidUntil
