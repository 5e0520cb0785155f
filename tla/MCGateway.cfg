SPECIFICATION Spec
CONSTANTS
    c1 = c1
    e1 = e1  e2 = e2  e3 = e3
    t1 = t1  t2 = t2
    NoConv = NoConv  NoEntry = NoEntry
    Convs = {c1}
    Entries = {e1, e2, e3}
    Tasks = {t1, t2}
    MaxJoinRounds = 2
    MaxEvents = 1
    MaxLifecycle = 2
    MaxAnnounced = 2
    PublishMayFail = TRUE
    RepeatsLeave = FALSE
VIEW UsedState
SYMMETRY Symmetric
INVARIANTS TypeOK FanoutMatchesRegistry FinalizerOwnsSlot NoOrphanScope
PROPERTIES NeverDropsMember ImplementsMembership
