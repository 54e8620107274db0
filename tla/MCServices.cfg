SPECIFICATION ServicesSpec
CHECK_DEADLOCK FALSE
CONSTANTS
    MaxVersion = 2
    Fetchers = {snapshotter, refresh}
    Snapshotter = snapshotter
    Readers = {}
    Devices = {d1, d2}
    Concurrency = 1
    Scopes = {s1}
    Bodies = {b1, b2}
    Clients = {c1, c2}
    MaxFailures = 1
    MaxCrashes = 1
    MaxPurges = 1
    Probed = {d1, d2}
    NoDevice = NoDevice
INVARIANTS
    ServicesTypeOK
    ConfirmedIsSettled
    RunsOnce
    
PROPERTIES
    SnapshotsRepair
    PresenceFollows
    
    AnsweredEventually
