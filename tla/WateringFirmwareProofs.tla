------------------------- MODULE WateringFirmwareProofs -------------------------
(***************************************************************************)
(* The safety properties of WateringFirmware, for any number of starts.    *)
(* All follow from one invariant, FwInv: the types and Safe, which has the *)
(* checked invariants with what makes StopReaches inductive (OneTask and   *)
(* StartingIsNew), the pump pin while its owner has not lowered it         *)
(* (HighIsAttended), the pins during sleep (PinsDisabled), and the barrier *)
(* of the handler that enables sleep (Barrier).                            *)
(***************************************************************************)
EXTENDS WateringFirmware, TLAPS

HighIsAttended == high => \E o \in Starts : task[o] \in {"control", "judge", "low"}

PinsDisabled == main = "asleep" => ~out

Barrier == web \in {"set", "post", "clear"} \/ (web = "save" /\ ~sleepDisabled) => critical

\* While no two tasks overlap, a start is accepted only when no task is left.
OneTask ==
    ~overlap =>
      /\ \A o, p \in Unfinished : o = p
      /\ web \in {"start", "accept"} => \A o \in Starts : task[o] \notin Watering
      /\ web = "create" => active /\ Unfinished = {}

\* Once app_main has found that nothing waters, a watering is one accepted since.
Watched ==
    \/ main \in {"disabled", "critical"} /\ ~seenActive
    \/ main \in {"web", "low", "gpio", "asleep"}
    => ~active \/ late \/ overlap

\* The operation of the start request that is being handled has no task.
StartingIsNew == web \in {"start", "accept", "create"} => starting \notin Unfinished

Safe ==
    /\ StartingIsNew
    /\ HighIsAttended /\ PinsDisabled /\ Barrier
    /\ ActiveIsAttended /\ Watched
    /\ OneTask /\ StopReaches

FwInv == FirmwareTypeOK /\ Safe

-----------------------------------------------------------------------------

\* After a boot nothing runs.
LEMMA InitInv == Init => FwInv
<1> SUFFICES ASSUME Init PROVE FwInv
    OBVIOUS
<1>1. FirmwareTypeOK
    BY DEF Init, FirmwareTypeOK
<1>2. HighIsAttended /\ PinsDisabled /\ Barrier /\ ActiveIsAttended /\ Watched
    BY DEF Init, HighIsAttended, PinsDisabled, Barrier, ActiveIsAttended, Watched
<1>3. StartingIsNew /\ OneTask /\ StopReaches
    BY DEF Init, StartingIsNew, OneTask, StopReaches, Unfinished, Watering, Ending
<1> QED
    BY <1>1, <1>2, <1>3 DEF FwInv, Safe

\* Every step keeps the types.
LEMMA TypeStep == FirmwareTypeOK /\ Next => FirmwareTypeOK'
<1> SUFFICES ASSUME FirmwareTypeOK, Next PROVE FirmwareTypeOK'
    OBVIOUS
<1> USE DEF FirmwareTypeOK, status, pin, tasks, server, app, history
<1>1. ASSUME Requests PROVE FirmwareTypeOK'
  <2>1. ASSUME NEW o \in Starts, StartRequest(o) PROVE FirmwareTypeOK'
      BY <2>1 DEF StartRequest, WebStep
  <2>2. CASE StopRequest
    <3> USE <2>2 DEF StopRequest, WebStep, Answered
    <3>1. old' \in BOOLEAN /\ stop' \in BOOLEAN
        OBVIOUS
    <3> QED
        BY <3>1
  <2>3. CASE SleepEnableRequest
      BY <2>3 DEF SleepEnableRequest, WebStep, Held
  <2>4. CASE SleepDisableRequest
      BY <2>4 DEF SleepDisableRequest, SetSleep, WebStep
  <2> QED
      BY <1>1, <2>1, <2>2, <2>3, <2>4 DEF Requests
<1>2. ASSUME HandlerStep PROVE FirmwareTypeOK'
  <2>1. CASE StartCheck
    <3> USE <2>1 DEF StartCheck, WebStep, Held, Answered
    <3>1. CASE active
      <4>1. old' \in BOOLEAN
          BY <3>1
      <4> QED
          BY <3>1, <4>1
    <3>2. CASE ~active
        BY <3>2
    <3> QED
        BY <3>1, <3>2
  <2>2. CASE StartRefused
    <3> USE <2>2 DEF StartRefused, WebStep, Answered
    <3>1. old' \in BOOLEAN
        OBVIOUS
    <3>2. /\ active' \in BOOLEAN /\ stop' \in BOOLEAN /\ (stop' => active')
          /\ UNCHANGED sleepDisabled
      <4>1. CASE UNCHANGED status
          BY <4>1
      <4>2. CASE Transition(FALSE)
          BY <4>2 DEF Transition
      <4> QED
          BY <4>1, <4>2
    <3> QED
        BY <3>1, <3>2
  <2>3. CASE StartAccepted
      BY <2>3 DEF StartAccepted, WebStep, Transition, Held, Answered
  <2>4. CASE CreateTask
    <3> USE <2>4 DEF CreateTask, WebStep, Answered
    <3>1. old' \in BOOLEAN
        OBVIOUS
    <3>2. /\ active' \in BOOLEAN /\ stop' \in BOOLEAN /\ (stop' => active')
          /\ UNCHANGED sleepDisabled
      <4>1. CASE UNCHANGED status
          BY <4>1
      <4>2. CASE Transition(FALSE)
          BY <4>2 DEF Transition
      <4> QED
          BY <4>1, <4>2
    <3>3. /\ task' \in [Starts -> {"none", "done"} \cup Watering \cup Ending]
          /\ result' \in [Starts -> {"none", "stopped", "success", "error"}]
        BY DEF Watering
    <3> QED
        BY <3>1, <3>2, <3>3
  <2>5. CASE SleepEnable
    <3> USE <2>5 DEF SleepEnable, SetSleep, WebStep
    <3>1. sleepDisabled' \in BOOLEAN
        OBVIOUS
    <3> QED
        BY <3>1
  <2>6. CASE SaveSleep
    <3> USE <2>6 DEF SaveSleep, WebStep, Held, Answered
    <3>1. /\ old' \in BOOLEAN /\ sleepDisabled' \in BOOLEAN /\ flash' \in BOOLEAN
          /\ web' \in {"post", "clear", "idle"}
          /\ starting' \in Starts \cup {NoStart}
        OBVIOUS
    <3>2. UNCHANGED <<active, stop, critical, pin, tasks, app, history>>
        OBVIOUS
    <3> QED
        BY <3>1, <3>2
  <2>7. CASE PostResult
      BY <2>7 DEF PostResult, WebStep, Held
  <2>8. CASE LowerBarrier
    <3> USE <2>8 DEF LowerBarrier, WebStep, Answered
    <3>1. old' \in BOOLEAN /\ critical' \in BOOLEAN /\ web' = "idle" /\ starting' = NoStart
          /\ UNCHANGED <<status, flash, pin, tasks, app, history>>
        OBVIOUS
    <3> QED
        BY <3>1
  <2> QED
      BY <1>2, <2>1, <2>2, <2>3, <2>4, <2>5, <2>6, <2>7, <2>8 DEF HandlerStep
<1>3. ASSUME NEW o \in Starts, TaskStep(o) PROVE FirmwareTypeOK'
  <2> USE <1>3 DEF Watering, Ending, TaskUnchanged, Goto, End, Transition, status, pin,
              server, app, history
  <2>0. TaskUnchanged
      BY DEF TaskStep
  <2>1. CASE Delay(o)
      BY <2>0, <2>1 DEF Delay
  <2>2. CASE Sample(o)
    <3> USE <2>0, <2>2 DEF Sample
    <3>1. /\ active' \in BOOLEAN /\ stop' \in BOOLEAN /\ (stop' => active')
          /\ UNCHANGED sleepDisabled
        OBVIOUS
    <3>2. /\ task' \in [Starts -> {"none", "done"} \cup Watering \cup Ending]
          /\ result' \in [Starts -> {"none", "stopped", "success", "error"}]
        OBVIOUS
    <3>3. UNCHANGED <<flash, critical, pin, server, app, history>>
        OBVIOUS
    <3> QED
        BY ONLY FirmwareTypeOK, <3>1, <3>2, <3>3 DEF FirmwareTypeOK, pin, server, app, history
  <2>3. CASE PumpOn(o)
      BY <2>0, <2>3 DEF PumpOn
  <2>4. CASE Control(o)
    <3> USE <2>0, <2>4 DEF Control
    <3>1. /\ active' \in BOOLEAN /\ stop' \in BOOLEAN /\ (stop' => active')
          /\ UNCHANGED sleepDisabled
        OBVIOUS
    <3>2. /\ task' \in [Starts -> {"none", "done"} \cup Watering \cup Ending]
          /\ result' \in [Starts -> {"none", "stopped", "success", "error"}]
        OBVIOUS
    <3>3. UNCHANGED <<flash, critical, pin, server, app, history>>
        OBVIOUS
    <3> QED
        BY ONLY FirmwareTypeOK, <3>1, <3>2, <3>3 DEF FirmwareTypeOK, pin, server, app, history
  <2>5. CASE Judge(o)
    <3> USE <2>0, <2>5 DEF Judge
    <3>1. /\ active' \in BOOLEAN /\ stop' \in BOOLEAN /\ (stop' => active')
          /\ UNCHANGED sleepDisabled
      <4>1. CASE UNCHANGED status
          BY <4>1
      <4>2. CASE Transition(FALSE)
          BY <4>2
      <4> QED
          BY <4>1, <4>2
    <3>2. /\ task' \in [Starts -> {"none", "done"} \cup Watering \cup Ending]
          /\ result' \in [Starts -> {"none", "stopped", "success", "error"}]
        OBVIOUS
    <3>3. UNCHANGED <<flash, critical, pin, server, app, history>>
        OBVIOUS
    <3> QED
        BY ONLY FirmwareTypeOK, <3>1, <3>2, <3>3 DEF FirmwareTypeOK, pin, server, app, history
  <2>6. CASE PumpOff(o)
    <3> USE <2>0, <2>6 DEF PumpOff
    <3>1. high' \in BOOLEAN
        OBVIOUS
    <3> QED
        BY <3>1
  <2>7. CASE Close(o)
    <3> USE <2>0, <2>7 DEF Close
    <3>1. /\ active' \in BOOLEAN /\ stop' \in BOOLEAN /\ (stop' => active')
          /\ UNCHANGED sleepDisabled
        OBVIOUS
    <3>2. /\ task' \in [Starts -> {"none", "done"} \cup Watering \cup Ending]
          /\ result' \in [Starts -> {"none", "stopped", "success", "error"}]
        OBVIOUS
    <3>3. UNCHANGED <<flash, critical, pin, server, app, history>>
        OBVIOUS
    <3> QED
        BY ONLY FirmwareTypeOK, <3>1, <3>2, <3>3 DEF FirmwareTypeOK, pin, server, app, history
  <2>8. CASE Override(o)
    <3> USE <2>0, <2>8 DEF Override
    <3>1. /\ active' \in BOOLEAN /\ stop' \in BOOLEAN /\ (stop' => active')
          /\ UNCHANGED sleepDisabled
        OBVIOUS
    <3>2. /\ task' \in [Starts -> {"none", "done"} \cup Watering \cup Ending]
          /\ result' \in [Starts -> {"none", "stopped", "success", "error"}]
        OBVIOUS
    <3>3. UNCHANGED <<flash, critical, pin, server, app, history>>
        OBVIOUS
    <3> QED
        BY ONLY FirmwareTypeOK, <3>1, <3>2, <3>3 DEF FirmwareTypeOK, pin, server, app, history
  <2>9. CASE Report(o)
      BY <2>0, <2>9 DEF Report
  <2> QED
      BY <2>1, <2>2, <2>3, <2>4, <2>5, <2>6, <2>7, <2>8, <2>9 DEF TaskStep
<1>4. ASSUME MainProgress PROVE FirmwareTypeOK'
  <2>1. CASE ReadActive
    <3> USE <2>1 DEF ReadActive, MainStep
    <3>1. late' \in BOOLEAN
        OBVIOUS
    <3> QED
        BY <3>1
  <2>2. CASE ReadDisabled
      BY <2>2 DEF ReadDisabled, MainStep
  <2>3. CASE Decide
    <3> USE <2>3 DEF Decide, MainStep
    <3>1. seenActive' \in BOOLEAN /\ seenDisabled' \in BOOLEAN
        OBVIOUS
    <3>2. main' \in {"active", "web"}
          /\ UNCHANGED <<status, flash, critical, tasks, history, pin, server>>
        OBVIOUS
    <3> QED
        BY <3>1, <3>2
  <2>4. CASE StopWeb
      BY <2>4 DEF StopWeb, MainStep, Held
  <2>5. CASE PrepareForSleep
    <3> USE <2>5 DEF PrepareForSleep, MainStep
    <3>1. high' \in BOOLEAN
        OBVIOUS
    <3> QED
        BY <3>1
  <2>6. CASE Sleep
    <3> USE <2>6 DEF Sleep, MainStep
    <3>1. out' \in BOOLEAN
        OBVIOUS
    <3> QED
        BY <3>1
  <2>7. CASE Wake
      BY <2>7 DEF Wake
  <2> QED
      BY <1>4, <2>1, <2>2, <2>3, <2>4, <2>5, <2>6, <2>7 DEF MainProgress
<1> QED
    BY <1>1, <1>2, <1>3, <1>4 DEF Next

\* Every step keeps the rest of the invariant.
LEMMA SafeStep == FwInv /\ Next => Safe'
<1> SUFFICES ASSUME FwInv, Next PROVE Safe'
    OBVIOUS
<1> USE DEF FwInv, Safe, StartingIsNew, HighIsAttended, PinsDisabled, Barrier,
            ActiveIsAttended, Watched, OneTask, StopReaches, FirmwareTypeOK, Unfinished, Watering,
            Ending, status, pin, tasks, server, app, history
<1>1. ASSUME Awake, Requests PROVE Safe'
  <2>1. ASSUME NEW o \in Starts, StartRequest(o) PROVE Safe'
      BY <2>1 DEF StartRequest, WebStep
  <2>2. CASE StopRequest
      BY <2>2 DEF StopRequest, WebStep, Answered
  <2>3. CASE SleepEnableRequest
      BY <2>3 DEF SleepEnableRequest, WebStep, Held
  <2>4. CASE SleepDisableRequest
      BY <2>4 DEF SleepDisableRequest, SetSleep, WebStep
  <2> QED
      BY <1>1, <2>1, <2>2, <2>3, <2>4 DEF Requests
<1>2. ASSUME Awake, HandlerStep PROVE Safe'
  <2> USE DEF WebStep, Held, Answered
  <2>1. CASE StartCheck
      BY <2>1 DEF StartCheck
  <2>2. CASE StartRefused
      BY <2>2 DEF StartRefused, Transition
  <2>3. CASE StartAccepted
    <3> USE <2>3 DEF StartAccepted, Transition
    <3>1. ~overlap' => ~overlap /\ \A o \in Starts : task[o] \notin Watering \cup Ending
        OBVIOUS
    <3>2. active' /\ UNCHANGED tasks /\ web' = "create"
        OBVIOUS
    <3>3. OneTask' /\ StopReaches'
        BY ONLY <3>1, <3>2 DEF OneTask, StopReaches, Unfinished, tasks
    <3>4. StartingIsNew' /\ HighIsAttended' /\ PinsDisabled' /\ Barrier' /\ ActiveIsAttended'
          /\ Watched'
        OBVIOUS
    <3> QED
        BY ONLY <3>3, <3>4 DEF Safe
  <2>4. CASE CreateTask
      BY <2>4 DEF CreateTask, Transition
  <2>5. CASE SleepEnable
      BY <2>5 DEF SleepEnable, SetSleep
  <2>6. CASE SaveSleep
      BY <2>6 DEF SaveSleep
  <2>7. CASE PostResult
      BY <2>7 DEF PostResult
  <2>8. CASE LowerBarrier
      BY <2>8 DEF LowerBarrier
  <2> QED
      BY <1>2, <2>1, <2>2, <2>3, <2>4, <2>5, <2>6, <2>7, <2>8 DEF HandlerStep
<1>3. ASSUME NEW o \in Starts, TaskStep(o) PROVE Safe'
  <2> USE DEF TaskUnchanged, Goto, End, Transition
  <2>0. TaskUnchanged
      BY <1>3 DEF TaskStep
  <2>1. CASE Delay(o)
      BY <2>0, <2>1 DEF Delay
  <2>2. CASE Sample(o)
      BY <2>0, <2>2 DEF Sample
  <2>3. CASE PumpOn(o)
      BY <2>0, <2>3 DEF PumpOn
  <2>4. CASE Control(o)
      BY <2>0, <2>4 DEF Control
  <2>5. CASE Judge(o)
      BY <2>0, <2>5 DEF Judge
  <2>6. CASE PumpOff(o)
      BY <2>0, <2>6 DEF PumpOff
  <2>7. CASE Close(o)
      BY <2>0, <2>7 DEF Close
  <2>8. CASE Override(o)
      BY <2>0, <2>8 DEF Override
  <2>9. CASE Report(o)
      BY <2>0, <2>9 DEF Report
  <2> QED
      BY <1>3, <2>1, <2>2, <2>3, <2>4, <2>5, <2>6, <2>7, <2>8, <2>9 DEF TaskStep
<1>4. ASSUME MainProgress PROVE Safe'
  <2> USE DEF MainStep, Held
  <2>1. CASE ReadActive
      BY <2>1 DEF ReadActive
  <2>2. CASE ReadDisabled
      BY <2>2 DEF ReadDisabled
  <2>3. CASE Decide
      BY <2>3 DEF Decide
  <2>4. CASE StopWeb
      BY <2>4 DEF StopWeb
  <2>5. CASE PrepareForSleep
      BY <2>5 DEF PrepareForSleep
  <2>6. CASE Sleep
      BY <2>6 DEF Sleep
  <2>7. CASE Wake
      BY <2>7 DEF Wake
  <2> QED
      BY <1>4, <2>1, <2>2, <2>3, <2>4, <2>5, <2>6, <2>7 DEF MainProgress
<1> QED
    BY <1>1, <1>2, <1>3, <1>4 DEF Next

LEMMA FirmwareInv == Spec => []FwInv
<1>1. FwInv /\ [Next]_vars => FwInv'
  <2> SUFFICES ASSUME FwInv, [Next]_vars PROVE FwInv'
      OBVIOUS
  <2>1. CASE Next
      BY <2>1, TypeStep, SafeStep DEF FwInv
  <2>2. CASE UNCHANGED vars
      BY <2>2 DEF vars, status, pin, tasks, server, app, history, FwInv, FirmwareTypeOK, Safe,
                  StartingIsNew, HighIsAttended, PinsDisabled, Barrier, ActiveIsAttended,
                  Watched, OneTask, StopReaches, Unfinished
  <2> QED
      BY <2>1, <2>2
<1> QED
    BY <1>1, InitInv, PTL DEF Spec

-----------------------------------------------------------------------------

\* The variables keep their types, and no stop request is left for a watering
\* that has yet to begin (watering_transition_locked).
THEOREM FirmwareTypeCorrect == Spec => []FirmwareTypeOK
<1>1. FwInv => FirmwareTypeOK
    BY DEF FwInv
<1> QED
    BY <1>1, FirmwareInv, PTL

\* Whenever the pump runs, some control task has yet to switch it off.
THEOREM PumpAttended == Spec => []PumpIsAttended
<1>1. FwInv => PumpIsAttended
    BY DEF FwInv, Safe, HighIsAttended, PumpIsAttended, Pumping
<1> QED
    BY <1>1, FirmwareInv, PTL

\* The status is active only while somebody has yet to close it.
THEOREM ActiveAttended == Spec => []ActiveIsAttended
<1>1. FwInv => ActiveIsAttended
    BY DEF FwInv, Safe
<1> QED
    BY <1>1, FirmwareInv, PTL

\* Without overlapping starts the status is active during every watering.
THEOREM StopsReach == Spec => []StopReaches
<1>1. FwInv => StopReaches
    BY DEF FwInv, Safe
<1> QED
    BY <1>1, FirmwareInv, PTL

\* The pump is off during deep sleep.
THEOREM PumpOffAsleep == Spec => []SleepsWithPumpOff
<1>1. FwInv => SleepsWithPumpOff
    BY DEF FwInv, Safe, PinsDisabled, SleepsWithPumpOff, Pumping
<1> QED
    BY <1>1, FirmwareInv, PTL

\* Deep sleep cuts a watering only if its start came after app_main's look.
THEOREM OnlyLateCuts == Spec => []CutsAreLate
<1>1. FwInv => CutsAreLate
    BY DEF FwInv, Safe, Watched, CutsAreLate
<1> QED
    BY <1>1, FirmwareInv, PTL

\* app_main stays behind the barrier of a handler that enables sleep.
THEOREM BarrierHolds == Spec => SleepBarrier
<1>1. FwInv /\ [Next]_vars => [main = "critical" /\ main' = "web" => ~Enabling]_vars
  <2> SUFFICES ASSUME FwInv, Next, main = "critical", main' = "web" PROVE ~Enabling
      OBVIOUS
  <2>1. main' # main
      OBVIOUS
  <2>2. ~Requests /\ ~HandlerStep /\ ~ \E o \in Starts : TaskStep(o)
    <3>1. UNCHANGED app => ~(main' # main)
        BY DEF app
    <3>2. Requests \/ HandlerStep => UNCHANGED app
        BY DEF Requests, StartRequest, StopRequest, SleepEnableRequest, SleepDisableRequest,
               SetSleep, HandlerStep, StartCheck, StartRefused, StartAccepted, CreateTask,
               SleepEnable, SaveSleep, PostResult, LowerBarrier, WebStep, Answered
    <3>3. \A o \in Starts : TaskStep(o) => UNCHANGED app
        BY DEF TaskStep, TaskUnchanged
    <3> QED
        BY <2>1, <3>1, <3>2, <3>3
  <2>3. Decide
      BY <2>2 DEF Next, MainProgress, ReadActive, ReadDisabled, StopWeb, PrepareForSleep, Sleep,
                  Wake, MainStep
  <2>4. ~critical
      BY <2>3 DEF Decide, MainStep
  <2> QED
      BY <2>4 DEF FwInv, Safe, Barrier, Enabling
<1> QED
    BY <1>1, FirmwareInv, PTL DEF Spec, SleepBarrier

-----------------------------------------------------------------------------
(* The controller is the backend's tank. *)

\* The start that is watered, or about to get its task.
Current(o) == IF web = "create" THEN o = starting ELSE o \in Unfinished

LEMMA UnderWayIs ==
    ASSUME FwInv, active, ~overlap
    PROVE  /\ UnderWay \in Starts /\ UnderWay # NoStart /\ Current(UnderWay)
           /\ \A o \in Starts : Current(o) => o = UnderWay
<1>1. CASE web = "create"
    BY <1>1, StartAssumption DEF UnderWay, Current, FwInv, FirmwareTypeOK
<1>2. CASE web # "create"
  <2>1. Unfinished # {} /\ Unfinished \subseteq Starts /\ \A o, p \in Unfinished : o = p
      BY <1>2 DEF FwInv, Safe, ActiveIsAttended, OneTask, Unfinished, Watering, Ending
  <2>2. UnderWay \in Unfinished
      BY <1>2, <2>1 DEF UnderWay
  <2> QED
      BY <1>2, <2>1, <2>2, StartAssumption DEF Current
<1> QED
    BY <1>1, <1>2

LEMMA UnderWayIsNext ==
    ASSUME FwInv', active', ~overlap', NEW o \in Starts, Current(o)'
    PROVE  UnderWay' = o
<1>1. CASE web' = "create"
    BY <1>1 DEF UnderWay, Current
<1>2. CASE web' # "create"
  <2>1. Unfinished' # {} /\ Unfinished' \subseteq Starts /\ \A p, q \in Unfinished' : p = q
      BY <1>2 DEF FwInv, Safe, ActiveIsAttended, OneTask, Unfinished, Watering, Ending
  <2>2. UnderWay' \in Unfinished'
      BY <1>2, <2>1 DEF UnderWay
  <2> QED
      BY <1>2, <2>1, <2>2 DEF Current
<1> QED
    BY <1>1, <1>2

\* An overlap is noted up to the next boot.
LEMMA OverlapStays ==
    ASSUME Next, active', overlap
    PROVE  overlap'
<1> USE DEF status, app, history
<1>1. ASSUME Requests \/ HandlerStep PROVE overlap'
    BY <1>1 DEF Requests, StartRequest, StopRequest, SleepEnableRequest, SleepDisableRequest,
                SetSleep, HandlerStep, StartCheck, StartRefused, StartAccepted, CreateTask,
                SleepEnable, SaveSleep, PostResult, LowerBarrier
<1>2. ASSUME NEW p \in Starts, TaskStep(p) PROVE overlap'
    BY <1>2 DEF TaskStep, TaskUnchanged
<1>3. ASSUME MainProgress PROVE overlap'
    BY <1>3 DEF MainProgress, MainStep, ReadActive, ReadDisabled, Decide, StopWeb,
                PrepareForSleep, Sleep, Wake
<1> QED
    BY <1>1, <1>2, <1>3 DEF Next

\* While the status stays active the watering under way stays the same.
LEMMA CurrentStays ==
    ASSUME FwInv, Next, active, active', ~overlap', NEW o \in Starts, Current(o)
    PROVE  ~overlap /\ Current(o)'
<1> USE DEF Current, Unfinished, FwInv, Safe, FirmwareTypeOK, ActiveIsAttended, OneTask,
            Watering, Ending, tasks, server, status, app, pin, history
<1>1. ASSUME Awake, Requests PROVE ~overlap /\ Current(o)'
    BY <1>1 DEF Requests, StartRequest, StopRequest, SleepEnableRequest, SleepDisableRequest,
                SetSleep, WebStep, Held, Answered
<1>2. ASSUME Awake, HandlerStep PROVE ~overlap /\ Current(o)'
  <2> USE DEF WebStep, Held, Answered
  <2>1. CASE StartCheck
      BY <2>1 DEF StartCheck
  <2>2. CASE StartRefused
      BY <2>2 DEF StartRefused
  <2>3. CASE StartAccepted
      BY <2>3 DEF StartAccepted
  <2>4. CASE CreateTask
      BY <2>4 DEF CreateTask, Transition
  <2>5. CASE SleepEnable \/ SaveSleep \/ PostResult \/ LowerBarrier
      BY <2>5 DEF SleepEnable, SetSleep, SaveSleep, PostResult, LowerBarrier
  <2> QED
      BY <1>2, <2>1, <2>2, <2>3, <2>4, <2>5 DEF HandlerStep
<1>3. ASSUME NEW p \in Starts, TaskStep(p) PROVE ~overlap /\ Current(o)'
  <2>1. ~overlap /\ UNCHANGED server
      BY <1>3 DEF TaskStep, TaskUnchanged
  <2>2. p \in Unfinished /\ p = o /\ web # "create"
      BY <1>3, <2>1 DEF TaskStep, Delay, Sample, PumpOn, Control, Judge, PumpOff, Close,
                        Override, Report
  <2>3. task[p] # "report"
      BY <2>1, <2>2
  <2>4. task'[p] \in Watering \cup Ending
    <3>1. ASSUME NEW next \in Watering \cup Ending, task' = [task EXCEPT ![p] = next]
          PROVE  task'[p] \in Watering \cup Ending
        BY <3>1
    <3>2. \E next \in Watering \cup Ending : task' = [task EXCEPT ![p] = next]
        BY ONLY <1>3, <2>3
           DEF Goto, End, Watering, Ending, TaskStep, Delay, Sample, PumpOn, Control, Judge,
               PumpOff, Close, Override, Report
    <3> QED
        BY <3>1, <3>2
  <2> QED
      BY <2>1, <2>2, <2>4
<1>4. ASSUME MainProgress PROVE ~overlap /\ Current(o)'
    BY <1>4 DEF MainProgress, MainStep, ReadActive, ReadDisabled, Decide, StopWeb,
                PrepareForSleep, Sleep, Wake, Held
<1> QED
    BY <1>1, <1>2, <1>3, <1>4 DEF Next

\* Only an accepted start makes the status active.
LEMMA OnlyStarts ==
    ASSUME FwInv, Next, ~active, active', ~overlap'
    PROVE  /\ ~overlap /\ ~Pumping /\ ~Pumping' /\ ~stop'
           /\ web' = "create" /\ starting' \in Starts
<1> USE DEF Unfinished, FwInv, Safe, FirmwareTypeOK, StopReaches, HighIsAttended, Pumping,
            Watering, Ending, tasks, server, status, app, pin, history
<1>1. StartAccepted
  <2>1. ~Requests
      BY DEF Requests, StartRequest, StopRequest, SleepEnableRequest, SleepDisableRequest,
             SetSleep
  <2>2. HandlerStep => StartAccepted
      BY DEF HandlerStep, StartCheck, StartRefused, CreateTask, Transition, SleepEnable,
             SetSleep, SaveSleep, PostResult, LowerBarrier
  <2>3. ASSUME NEW p \in Starts, TaskStep(p) PROVE FALSE
      BY <2>3 DEF TaskStep, TaskUnchanged, Delay, Sample, PumpOn, Control, Judge, PumpOff,
                  Close, Override, Report, Transition
  <2>4. ~MainProgress
      BY DEF MainProgress, MainStep, ReadActive, ReadDisabled, Decide, StopWeb,
             PrepareForSleep, Sleep, Wake
  <2> QED
      BY <2>1, <2>2, <2>3, <2>4 DEF Next
<1> QED
    BY <1>1 DEF StartAccepted, Transition, WebStep, Held

\* The pump is switched on only while the status is active.
LEMMA OnlyWhileActive ==
    ASSUME FwInv, Next, ~overlap', Pumping', ~(Pumping /\ ~overlap)
    PROVE  active /\ active' /\ UNCHANGED stop
<1> USE DEF Pumping, tasks, server, status, app, pin, history
<1> DEFINE Kept == (Pumping' => Pumping) /\ (overlap => overlap')
<1>1. ASSUME Requests PROVE Kept
    BY <1>1 DEF Requests, StartRequest, StopRequest, SleepEnableRequest, SleepDisableRequest,
                SetSleep, WebStep, Answered
<1>2. ASSUME HandlerStep PROVE Kept
    BY <1>2 DEF HandlerStep, StartCheck, StartRefused, StartAccepted, CreateTask, SleepEnable,
                SetSleep, SaveSleep, PostResult, LowerBarrier, WebStep, Answered
<1>3. ASSUME MainProgress PROVE Kept \/ ~Pumping'
    BY <1>3 DEF MainProgress, MainStep, ReadActive, ReadDisabled, Decide, StopWeb,
                PrepareForSleep, Sleep, Wake
<1>4. PICK p \in Starts : TaskStep(p)
    BY <1>1, <1>2, <1>3 DEF Next
<1>5. PumpOn(p) /\ ~overlap
    BY <1>4 DEF TaskStep, TaskUnchanged, Delay, Sample, Control, Judge, PumpOff,
                Close, Override, Report
<1>6. task[p] \in Watering /\ UNCHANGED <<active, stop>>
    BY <1>5 DEF PumpOn, Watering
<1> QED
    BY <1>5, <1>6 DEF FwInv, Safe, StopReaches

\* A stop request changes nothing but the flag.
LEMMA StopAlone ==
    ASSUME FwInv, Next, active, active', ~overlap'
    PROVE  stop' = stop \/ (stop' = TRUE /\ UNCHANGED pin)
<1> USE DEF FwInv, FirmwareTypeOK, status, app, history
<1>1. ASSUME Requests \/ HandlerStep PROVE stop' = stop \/ (stop' = TRUE /\ UNCHANGED pin)
    BY <1>1 DEF Requests, StartRequest, StopRequest, SleepEnableRequest, SleepDisableRequest,
                SetSleep, HandlerStep, StartCheck, StartRefused, StartAccepted, CreateTask,
                SleepEnable, SaveSleep, PostResult, LowerBarrier, WebStep, Answered, Transition
<1>2. ASSUME NEW p \in Starts, TaskStep(p) PROVE stop' = stop
    BY <1>2 DEF TaskStep, Delay, Sample, PumpOn, Control, Judge, PumpOff, Close, Override,
                Report, Transition
<1>3. ASSUME MainProgress PROVE stop' = stop
    BY <1>3 DEF MainProgress, MainStep, ReadActive, ReadDisabled, Decide, StopWeb,
                PrepareForSleep, Sleep, Wake
<1> QED
    BY <1>1, <1>2, <1>3 DEF Next

LEMMA TankStep ==
    ASSUME FwInv, FwInv', [Next]_vars
    PROVE  [Tank!Next]_(Tank!deviceVars)
<1>1. CASE UNCHANGED vars
    BY <1>1 DEF vars, status, pin, tasks, server, history, Tank!deviceVars, UnderWay,
                Unfinished, Pumping
<1>2. ASSUME Next PROVE [Tank!Next]_(Tank!deviceVars)
  <2>0. /\ (stop => active) /\ (stop' => active')
        /\ stop \in BOOLEAN /\ stop' \in BOOLEAN /\ active \in BOOLEAN /\ active' \in BOOLEAN
        /\ overlap \in BOOLEAN /\ overlap' \in BOOLEAN
        /\ Pumping \in BOOLEAN /\ Pumping' \in BOOLEAN
      BY DEF FwInv, FirmwareTypeOK, Pumping
  <2>1. (~active \/ overlap => UnderWay = NoStart) /\ (~active' \/ overlap' => UnderWay' = NoStart)
      BY DEF UnderWay
  <2>2. CASE ~active' \/ overlap'
    <3>1. (Pumping' /\ ~overlap') \in {Pumping /\ ~overlap, FALSE}
        BY <1>2, <2>0, <2>2, OnlyWhileActive
    <3>2. (stop' /\ ~overlap') = FALSE /\ UnderWay' = NoStart
        BY <2>0, <2>1, <2>2
    <3>3. CASE ~active \/ overlap
      <4>1. (stop /\ ~overlap) = FALSE /\ UnderWay = NoStart
          BY <2>0, <2>1, <3>3
      <4>2. Tank!PumpOff \/ UNCHANGED Tank!deviceVars
          BY <2>0, <3>1, <3>2, <4>1 DEF Tank!PumpOff, Tank!deviceVars
      <4> QED
          BY <4>2 DEF Tank!Next
    <3>4. CASE active /\ ~overlap
      <4>1. UnderWay # NoStart
          BY <3>4, UnderWayIs
      <4>2. Tank!End
          BY <3>1, <3>2, <4>1 DEF Tank!End
      <4> QED
          BY <4>2 DEF Tank!Next
    <3> QED
        BY <3>3, <3>4
  <2>3. CASE active' /\ ~overlap' /\ ~active
    <3>1. /\ ~overlap /\ ~Pumping /\ ~Pumping' /\ ~stop'
          /\ web' = "create" /\ starting' \in Starts
        BY <1>2, <2>3, OnlyStarts
    <3>2. UnderWay = NoStart /\ UnderWay' = starting'
        BY <2>1, <2>3, <3>1 DEF UnderWay
    <3>3. Tank!Accept(starting')
        BY <2>0, <2>3, <3>1, <3>2 DEF Tank!Accept
    <3> QED
        BY <3>1, <3>3 DEF Tank!Next
  <2>4. CASE active' /\ ~overlap' /\ active
    <3>1. ASSUME NEW o \in Starts, Current(o) PROVE ~overlap /\ Current(o)'
        BY <1>2, <2>4, <3>1, CurrentStays
    <3>2. ~overlap
        BY <1>2, <2>4, OverlapStays
    <3>3. UnderWay \in Starts /\ UnderWay # NoStart /\ Current(UnderWay)
        BY <2>4, <3>2, UnderWayIs
    <3>4. UnderWay' = UnderWay
        BY <2>4, <3>1, <3>3, UnderWayIsNext
    <3>5. stop' = stop \/ (stop' = TRUE /\ UNCHANGED pin)
        BY <1>2, <2>4, StopAlone
    <3>6. Tank!RequestStop \/ Tank!PumpOn \/ Tank!PumpOff
        BY <2>0, <2>4, <3>2, <3>3, <3>4, <3>5
           DEF Tank!RequestStop, Tank!PumpOn, Tank!PumpOff, pin, Pumping
    <3> QED
        BY <3>6 DEF Tank!Next
  <2> QED
      BY <2>0, <2>2, <2>3, <2>4
<1> QED
    BY <1>1, <1>2

\* The controller behaves as the tank that CommandDelivery takes it for, with any
\* interleaving of its tasks, up to an overlap (and again from the next boot on).
THEOREM FirmwareImplementsTank == Spec => TankSpec
<1>1. Init => Tank!Init
    BY DEF Init, Tank!Init, UnderWay, Pumping
<1> QED
    BY <1>1, TankStep, FirmwareInv, PTL DEF Spec, TankSpec, Tank!Spec
=================================================================================
