SPECIFICATION FairSpec
CONSTANTS
    c1 = c1
    e1 = e1  e2 = e2
    t1 = t1  t2 = t2
    NoConv = NoConv  NoEntry = NoEntry
    Convs = {c1}
    Entries = {e1, e2}
    Tasks = {t1, t2}
    MaxJoinRounds = 1
    MaxEvents = 0
    MaxLifecycle = 1
    MaxAnnounced = 1
    PublishMayFail = FALSE
    RepeatsLeave = FALSE
VIEW Running
PROPERTIES LiveGetsFanout TasksEnd JoinResolves TornIsEvicted
