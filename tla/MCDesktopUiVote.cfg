SPECIFICATION Spec
CONSTANTS
    g1 = g1
    g2 = g2
    p1 = p1
    p2 = p2
    NoGroup = NoGroup
    Groups <- MCGroups
    Proposals <- MCProposals
    Elections <- MCElections
    GroupOf <- MCGroupOf
    Phases <- MCPhases
    MaxHistory = 1
    MaxNews = 2
    MaxBacklog = 2
    MaxRecords = 1
    MaxLogins = 1
    MaxClicks = 2
INVARIANT LoopSurvives
CHECK_DEADLOCK FALSE
