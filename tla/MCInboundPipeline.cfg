SPECIFICATION FairSpec
CONSTANTS
    Names <- MCNames
    SubCap = 2
    RingCap = 2
    MaxMessages = 3
    NoPacket = NoPacket
INVARIANTS TypeOK PipelineInOrder NothingVanishes BurstsLoseNothing RoutedHome
PROPERTIES CancelStops PacketsMoveOn
CHECK_DEADLOCK FALSE
