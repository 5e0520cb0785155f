SPECIFICATION FairSpec
CONSTANTS
    w1 = w1  w2 = w2
    Callers = {w1, w2}
    Pump = Pump
    NoWorker = NoWorker
    MaxBurst = 2
    MaxPackets = 4
    MayFail = TRUE
INVARIANTS NoDuplicates NothingVanishes OkMeansTaken CallsKeepOrder
 
