CONSTANTS
    Starts = {w1}
    NoStart = NoStart
SPECIFICATION Spec
INVARIANTS
    AwakeWhileWatering
