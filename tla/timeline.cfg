SPECIFICATION MCSpec
CONSTANTS
    NumSources = 2
    NumViews = 2
    Fps = 3
    Units = 10
    UnitSamples = 1
    MaxPerTick = 2
    MaxElapsed = 17
    MaxRemaps = 1
    ForwardJump = 3
    BackTolerance = 1
    Wrap = 40
    HalfWrap = 20
    Lead = 1
    DecodeDelay = 0
    ClampAhead = 6
    Resync = 1
    RemTolerance = 2
    Starts = {38}
    Jumps = {2, 6}
    MaxNow = 3
    MaxUpsets = 1
    Csids = {3, 4}
    ChunkSizes = {1, 2}
    Lengths = {1, 3, 4}
    Steps = {1, 4}
    Extended = 4
    FirstSize = 1
    MaxMessage = 3
    MaxHeld = 3
    MaxMessages = 3
    MaxControl = 1
    MaxBuffer = 3
    Pids = {"v"}
    Modulus = 4
    MaxBurst = 2
    PesLengths = {1, 2, 3, 4}
    MaxAssembly = 3
    MaxPes = 3
    Keys = {"k1", "k2"}
    Depth = 2
    MaxUnits = 4
    MaxChanges = 1
    StreamFormats = {"aac44", "aac48"}
    Layouts = {"aac44", "aac48", "he48"}
    MaxSound = 3
    MaxInFlight = 5
    MaxPictures = 4
    MaxMishaps = 2
INVARIANTS
    EveryFrameExactlyOnce
    SoundFollowsPicture
    SoundMeetsPicture
    MediaComesOutWhole
PROPERTIES
    CodecCallsEnd
