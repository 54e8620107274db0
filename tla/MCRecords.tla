------------------------------- MODULE MCRecords -------------------------------
(* Small instances of the components that keep records and compute from       *)
(* them, for their safety: in a behaviour one of them runs, the others rest.  *)
EXTENDS MCOperationLog, DeviceState, DeviceRegistry, UserSessions, WateringHistory,
        Consumption, StatisticsCache, WeightSensor

VARIABLE part   \* the component that runs

Parts == {"log", "cards", "registry", "sessions", "history", "consumption", "statistics",
          "sensor"}

LightestWeight == CHOOSE w \in Weights \ {0} : \A v \in Weights \ {0} : w <= v
GreatestWeight == CHOOSE w \in Weights : \A v \in Weights : v <= w

RecordsInit ==
    /\ LogInit /\ StateInit /\ RegistryInit /\ SessionsInit
    /\ HistoryInit /\ ConsumptionInit /\ StatisticsInit /\ SensorInit
    /\ part \in Parts
    \* bounds: a series begins with the lightest weight, rises, ends heaviest;
    \* where none is scanned it is constant.
    /\ weight[1] = LightestWeight
    /\ IF part = "history" THEN weight[2] # LightestWeight /\ weight[MaxTime] = GreatestWeight
       ELSE \A t \in Time : weight[t] = LightestWeight

Others(p) ==
    /\ p # "log" => UNCHANGED logVars
    /\ p # "cards" => UNCHANGED stateVars
    /\ p # "registry" => UNCHANGED registryVars
    /\ p # "sessions" => UNCHANGED sessionVars
    /\ p # "history" => UNCHANGED historyVars
    /\ p # "consumption" => UNCHANGED consumptionVars
    /\ p # "statistics" => UNCHANGED statisticsVars
    /\ p # "sensor" => UNCHANGED sensorVars

RecordsNext ==
    /\ UNCHANGED part
    /\ \/ part = "log" /\ LogNext
       \/ part = "cards" /\ StateNext
       \/ part = "registry" /\ RegistryNext
       \/ part = "sessions" /\ SessionsNext
       \/ part = "history" /\ HistoryNext
       \/ part = "consumption" /\ Measure
       \/ part = "statistics" /\ StatisticsNext
       \/ part = "sensor" /\ SensorNext
    /\ Others(part)

recordsVars == <<logVars, stateVars, registryVars, sessionVars, historyVars,
                 consumptionVars, statisticsVars, sensorVars, part>>

RecordsSpec == RecordsInit /\ [][RecordsNext]_recordsVars

\* The type invariants of the components, with what each says of its own state.
RecordsTypeOK ==
    /\ LogTypeOK /\ StateTypeOK /\ RegistryTypeOK /\ SessionsTypeOK
    /\ HistoryTypeOK /\ ConsumptionTypeOK /\ StatisticsTypeOK /\ SensorTypeOK
=============================================================================
