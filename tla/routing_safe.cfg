SPECIFICATION MCSpec
CONSTANTS
    MaxSources = 4
    MaxViews = 3
    Feeds = {"f", "g"}
    Sources = {0, 1}
    Qualities = {0, 1}
    Offsets = {0, 3}
    FrameUnits = 3
    ServoStep = 2
    Cap = 3
    MaxQueue = 2
    MaxChanges = 2
    MaxStarts = 2
    Leads = {20, 30}
    Spike = 5
    Guard = 1
    MinExchanges = 2
    LossThreshold = 2
    MaxNow = 1
    MaxRounds = 8
    MaxSpikes = 1
    MaxSteps = 1
    Urls = {"u", "w"}
    MaxListed = 2
    MaxLinks = 2
    MaxPosted = 2
    MaxEdits = 3
    DelayedFeeds = {"g"}
    Lengths = {1, 2}
    MaxBuffer = 2
    MaxEvents = 3
    MaxSession = 2
    Clients = {"a", "b"}
    MaxSent = 2
    MaxSurface = 1
    MaxPos = 1
    MaxVersion = 1
    MaxInbox = 1
INVARIANTS
    SlotMapIsMaximal
    EveryTrackHasOneWriter
    ViewRecordsItsSource
    SessionTrustsTheLiving
    StudioIsConsistent
    ClientsKnow
PROPERTIES
    CamerasSettle
