SPECIFICATION MCSpec
CONSTANTS
    HALF = 8
INVARIANTS
    RootQueueSound
    MainQueueSound
    ApplySound
    HierarchySound
    SpecificSound
    SourceSound
    TimerSound
    ManagerSound
    DataSound
    TimeSound
    TransformFaithful
    ChannelsSound
    DiskSound
    StreamSound
    OperationSound
PROPERTIES
    StreamOpRunsToEnd
CHECK_DEADLOCK FALSE
