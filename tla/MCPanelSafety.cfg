SPECIFICATION PanelSpec
CONSTANTS
    FeedNames = {"a", "b"}
    FeedChanges = 2
    FeedFaults = 1
    FeedChanCap = 1
    UpFiles = {"a"}
    UpDirs = {"g"}
    UpKids = {"g"}
    UpName <- MCName
    UpChunks = 2
    UpLimit = 2
    UpTries = 1
    UpSubmits = 2
    UpFaults = 1
    UpRemoves = 1
    UpEvents = 3
    TermNames = {"a", "b"}
    TermOpens = 2
    TermDrops = 2
    TermKeys = 2
    TermPrints = 1
    TermFits = 1
    TermChanges = 1
    TermEvents = 6
    TermPending = 1
    EdFiles = {"e", "f"}
    EdLarge = {"e"}
    EdTexts = {"", "t"}
    EdOpens = 2
    EdEdits = 2
    EdSaves = 2
    WsNames = {"a", "b"}
    WsMoves = 3
    WsForms = 1
    WsChanges = 1
    WsReloads = 1
    WsEvents = 3
    SelPaths = {"f", "d", "g", "s", "h"}
    SelDirs = {"d", "s"}
    Inside <- MCInside
    SelRuns = 1
    SelClicks = 4
    BrNames = {"a", "b"}
    BrDirs = {"d"}
    BrLong = {""}
    BrSwitches = 2
    BrAsks = 1
    BrActs = 2
INVARIANTS
    PanelTypeOK
    FeedNeverSilent
    UpShownIsTrue
    TermConnection
    TermDrawn
    EdChangesHonest
    WsTabAgrees
    SelBatchMatches
    BrShowsLatest
    BrExtractOwn
PROPERTIES
    WsTextKept
CHECK_DEADLOCK FALSE
