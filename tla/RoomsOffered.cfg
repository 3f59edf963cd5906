\* A room created while a window is loading or reconnecting.
SPECIFICATION Spec
CONSTANTS
    i1 = i1
    i2 = i2
    w1 = w1
    w2 = w2
    general = general
    trading = trading
    Instances = {i1, i2}
    Front = i1
    Windows = {w1, w2}
    Names = {general, trading}
    DefaultName = general
    MaxFailures = 1
SYMMETRY Symmetric
CHECK_DEADLOCK FALSE
INVARIANTS
    OpenWindowsOfferEveryRoom
