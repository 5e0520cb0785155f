SPECIFICATION FairSpec
CONSTANTS
    s1 = s1  s2 = s2  s3 = s3
    Clones = {s1, s2, s3}
    First = s1
    None = None
    QueueCap = 1
    MaxPackets = 3
    MayPanic = TRUE
INVARIANTS TypeOK OkMeansRelayed
PROPERTIES ErrorIsFinal PublishReturns StartAnswers LastCloneStopsNode
