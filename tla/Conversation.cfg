\* One command, two posts, and one switch, lost connection or post of another.
SPECIFICATION ConversationSpec
CONSTANTS
    lobby = lobby
    trading = trading
    None = None
    Rooms = {lobby, trading}
    Landing = lobby
    HistoryLimit = 1
    MaxPosts = 2
    MaxSwitches = 1
    MaxDrops = 1
    MaxDisturbances = 1
CHECK_DEADLOCK FALSE
INVARIANTS
    ConversationIInv
    BannerHasItsLine
    HistoryRecoversStored
PROPERTIES
    CommandEndsVisibly
