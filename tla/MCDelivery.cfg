SPECIFICATION ScenarioSpec
SYMMETRY MCSymmetry
CHECK_DEADLOCK FALSE
CONSTANTS
    start = start
    start2 = start2
    stop = stop
    config = config
    config2 = config2
    other = other
    other2 = other2
    callback = callback
    client = client
    client2 = client2
    supervisor = supervisor
    worker_ = worker
    NoOp = NoOp
    Ops = {start, stop, other, other2}
    Clients = {client, client2}
    Worker = worker
    Callback = callback
    Supervisor = supervisor
    Writers = {client, client2, worker, callback, supervisor}
    Type <- MCType
    Key <- MCKey
    MayRecord <- MCMayRecord
    MayRequest <- MCMayRequest
    LegacyOps = {}
    requests1 = {"fill", "stop", "ask", "cancel"}
    requests2 = {"clear"}
    MaxLostAnswers = 0
    MaxCrashes = 0
INVARIANTS
    DeliveryTypeOK
    StatusIsEarned
    
    QueuedMeansStored
PROPERTIES
    PopsAreRecorded
