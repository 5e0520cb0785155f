SPECIFICATION FairSpec
CONSTANTS
    c1 = c1
    e1 = e1  e2 = e2
    t1 = t1  t2 = t2
    NoConv = NoConv  NoEntry = NoEntry
    Convs = {c1}
    Entries = {e1, e2}
    Tasks = {t1}
    MaxJoinRounds = 2
    MaxEvents = 1
    MaxLifecycle = 2
    MaxAnnounced = 1
    PublishMayFail = FALSE
    RepeatsLeave = FALSE
PROPERTIES MemberIsPolled
