\* Two instances start and two windows create rooms, with two failures anywhere.
SPECIFICATION FairSpec
CONSTANTS
    i1 = i1
    i2 = i2
    w1 = w1
    w2 = w2
    general = general
    trading = trading
    Instances = {i1, i2}
    Front = i1
    Windows = {w1, w2}
    Names = {general, trading}
    DefaultName = general
    MaxFailures = 2
CHECK_DEADLOCK FALSE
INVARIANTS
    IInv
    OneRoomPerName
    ServingMeansSeeded
    OfferedOnlyIfStored
    MissingRoomsAccounted
PROPERTIES
    CreationEnds
