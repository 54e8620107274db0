CONSTANTS
    Starts = {w1, w2}
    NoStart = NoStart
SPECIFICATION FairSpec
INVARIANTS
    SleepsWithPumpOff
PROPERTIES
    SleepBarrier
    TankSpec
    StopEnds
