\* More posts than the history holds while the window is disconnected.
SPECIFICATION Spec
CONSTANTS
    lobby = lobby
    trading = trading
    None = None
    Rooms = {lobby, trading}
    Landing = lobby
    HistoryLimit = 1
    MaxPosts = 2
    MaxSwitches = 0
    MaxDrops = 1
CHECK_DEADLOCK FALSE
INVARIANTS
    RejoinFillsWhatWasMissed
