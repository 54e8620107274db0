SPECIFICATION UnconfirmedSpec
CHECK_DEADLOCK FALSE
CONSTANTS
    start = start
    start2 = start2
    stop = stop
    config = config
    config2 = config2
    other = other
    other2 = other2
    callback = callback
    client = client
    client2 = client2
    supervisor = supervisor
    worker_ = worker
    NoOp = NoOp
    Ops = {start, config, config2}
    Clients = {client}
    Worker = worker
    Callback = callback
    Supervisor = supervisor
    Writers = {client, worker, callback, supervisor}
    Type <- MCType
    Key <- MCKey
    MayRecord <- MCMayRecord
    MayRequest <- MCMayRequest
    LegacyOps = {}
    requests1 = {"fill"}
    requests2 = {}
    MaxLostAnswers = 1
    MaxCrashes = 0
INVARIANTS
    ConfirmedWereApplied
    StartsOnce
