SPECIFICATION FairSpec
CONSTANTS
    g1 = g1
    g2 = g2
    p1 = p1
    p2 = p2
    NoGroup = NoGroup
    Groups <- MCGroups
    Proposals <- MCProposals
    Elections <- MCElections
    GroupOf <- MCGroupOf
    Phases <- MCPhases
    MaxHistory = 1
    MaxNews = 2
    MaxBacklog = 1
    MaxRecords = 1
    MaxLogins = 2
    MaxClicks = 2
INVARIANTS TypeOK ShownIsOpened  DecidedLeavesBanner
           HistoryIsLatest
PROPERTIES UiSettles OpenedGetsState
CHECK_DEADLOCK FALSE
