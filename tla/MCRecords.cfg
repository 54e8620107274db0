SPECIFICATION RecordsSpec
CHECK_DEADLOCK FALSE
CONSTANTS
    start = start
    stop = stop
    config = config
    worker = worker
    callback = callback
    client = client
    supervisor = supervisor
    Ops = {config}
    Type <- MCType
    Writers = {worker, callback, client, supervisor}
    Supervisor = supervisor
    MayRecord <- MCMayRecord
    LegacyOps = {}
    MaxVersion = 2
    Fetchers = {snapshotter}
    Snapshotter = snapshotter
    Readers = {r1}
    Ids = {i1, i2}
    Names = {n1, n2, n3}
    Editors = {w1, w2}
    Users = {u1, u2}
    Logins = {l1, l2}
    Sessions = {s1, s2}
    MaxTime = 4
    Weights = {1, 2, 4, 6}
    Window = 1
    Overlap = 1
    Threshold = 3
    MaxAmount = 4
    Worker = worker
    Scanners = {worker, cli}
    Grams = {0, 6, 12, 30, 54}
    Steps = {1, 2, 4}
    MaxSamples = 4
    RiseReset = 12
    TransientMax = 30
    Tolerance = 6
    MaxRate = 6
    Adjacent = 1
    TransientWindow = 2
    RateWindow = 3
    MaxGap = 3
    Radius = 1
    Growth = 2
    HalfDay = 6
    MedianDays = 2
    ListedDays = 3
    Cards = {c1, c2, c3}
    Ttl = 2
    MaxClock = 6
    Raws = {0, 2, 3, 5, 8}
    MaxRawJump = 2
    ConfirmCount = 3
INVARIANTS
    RecordsTypeOK
    ReadsAreCurrent
    OneTank
    SessionHasUser
    CollectionIsStored
    TrailAddsUp
    NoiseIsCountedOnce
    AnalysisCoversPeriod
    DayIsBetweenHalves
    NearestIsFound
    MedianIsRead
    LevelIsFollowed
PROPERTIES
    LifecycleSpec
    TankIsReplaced
    DeletedStaysDeleted
    DeletedIsNotRepeated
    FetchIsShared
    SpikesAreSkipped
