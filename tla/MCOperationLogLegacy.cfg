SPECIFICATION LogSpec
CONSTANTS
    start = start
    stop = stop
    config = config
    worker = worker
    callback = callback
    client = client
    supervisor = supervisor
    Ops = {start}
    Type <- MCType
    Writers = {callback, client, supervisor}
    Supervisor = supervisor
    MayRecord <- MCMayRecord
    LegacyOps = {start}
INVARIANT MisreadAckCanFinish
