\* A send that fails after its commit.
SPECIFICATION Spec
CONSTANTS
    lobby = lobby
    trading = trading
    None = None
    Rooms = {lobby, trading}
    Landing = lobby
    HistoryLimit = 1
    MaxPosts = 1
    MaxSwitches = 0
    MaxDrops = 1
CHECK_DEADLOCK FALSE
INVARIANTS
    NotSentMeansNotStored
