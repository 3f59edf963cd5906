\* A post of the room just left, under way while the window switches.
SPECIFICATION Spec
CONSTANTS
    lobby = lobby
    trading = trading
    None = None
    Rooms = {lobby, trading}
    Landing = lobby
    HistoryLimit = 1
    MaxPosts = 1
    MaxSwitches = 1
    MaxDrops = 0
CHECK_DEADLOCK FALSE
INVARIANTS
    ShowsOnlyItsRoom
