SPECIFICATION LiveSpec
CONSTANTS
    FeedNames = {"a", "b"}
    FeedChanges = 2
    FeedFaults = 1
    FeedChanCap = 1
    UpFiles = {"a", "k"}
    UpDirs = {}
    UpKids = {"k"}
    UpName <- MCName
    UpChunks = 1
    UpLimit = 1
    UpTries = 2
    UpSubmits = 1
    UpFaults = 2
    UpRemoves = 1
    UpEvents = 3
    TermNames = {"a"}
    TermOpens = 0
    TermDrops = 0
    TermKeys = 0
    TermPrints = 0
    TermFits = 0
    TermChanges = 0
    TermEvents = 0
    TermPending = 1
    EdFiles = {"e"}
    EdLarge = {}
    EdTexts = {""}
    EdOpens = 0
    EdEdits = 0
    EdSaves = 0
    WsNames = {"a"}
    WsMoves = 0
    WsForms = 0
    WsChanges = 0
    WsReloads = 0
    WsEvents = 0
    SelPaths = {"f"}
    SelDirs = {}
    Inside <- MCInside
    SelRuns = 0
    SelClicks = 0
    BrNames = {"a"}
    BrDirs = {}
    BrLong = {}
    BrSwitches = 0
    BrAsks = 0
    BrActs = 0
PROPERTIES
    PageConverges
    UpUnlocks
CHECK_DEADLOCK FALSE
