\* Two posts, two switches and one lost connection, in every order.
SPECIFICATION FairSpec
CONSTANTS
    lobby = lobby
    trading = trading
    None = None
    Rooms = {lobby, trading}
    Landing = lobby
    HistoryLimit = 1
    MaxPosts = 2
    MaxSwitches = 2
    MaxDrops = 1
CHECK_DEADLOCK FALSE
INVARIANTS
    IInv
    NoGap
    NoRepeats
    FollowsShownRoom
PROPERTIES
    JoiningEnds
