---------------------------- MODULE WateringFirmware ----------------------------
(***************************************************************************)
(* The controller's tasks (firmware/main): the HTTP handlers, which run    *)
(* one at a time; one control task per accepted start, which drives the    *)
(* pump; and app_main, which puts the controller to deep sleep.  They      *)
(* share g_status (under its mutex, so that an access is one step), the    *)
(* pump pin, the flag g_critical_operation_active and the flash (NVS).     *)
(*                                                                         *)
(* A tank.  Of the handlers only those are here that touch the watering or *)
(* the sleep mode.  Weights are abstract: at any look the target may be    *)
(* reached or the weight may have stopped changing.  Time is abstract: the *)
(* online window may be over at any look of app_main.                      *)
(***************************************************************************)
CONSTANTS
    Starts,   \* watering_start operations that may reach the controller
    NoStart

ASSUME StartAssumption == NoStart \notin Starts

VARIABLES
    active, stop, sleepDisabled,      \* g_status; stop is stop_requested
    flash,                            \* sleep_disabled in NVS
    critical,                         \* g_critical_operation_active
    high, out,                        \* the pump pin: its level, is it an output
    task, result,                     \* the control task of each start
    web, starting, old,               \* the HTTP handler and what it holds
    main, seenActive, seenDisabled,   \* app_main and what it has read
    overlap,  \* history: a start was accepted before a control task was through
    late      \* history: one was accepted after app_main looked at the status

status == <<active, stop, sleepDisabled>>
pin    == <<high, out>>
tasks  == <<task, result>>
server == <<web, starting, old>>
app    == <<main, seenActive, seenDisabled>>
history == <<overlap, late>>
vars   == <<status, flash, critical, pin, tasks, server, app, history>>

\* Steps of a control task that waters or is about to ...
Watering == {"delay", "sample", "pump", "control", "judge"}
\* ... and of one that has stopped watering.
Ending == {"low", "close", "override", "report"}

\* A stop request is for the watering that is active: none is left for the next.
FirmwareTypeOK ==
    /\ active \in BOOLEAN /\ stop \in BOOLEAN /\ sleepDisabled \in BOOLEAN
    /\ stop => active
    /\ flash \in BOOLEAN /\ critical \in BOOLEAN
    /\ high \in BOOLEAN /\ out \in BOOLEAN
    /\ task \in [Starts -> {"none", "done"} \cup Watering \cup Ending]
    /\ result \in [Starts -> {"none", "stopped", "success", "error"}]
    /\ web \in {"idle", "start", "accept", "create", "set", "save", "post", "clear", "off"}
    /\ starting \in Starts \cup {NoStart} /\ old \in BOOLEAN
    /\ web \in {"start", "accept", "create"} => starting \in Starts
    /\ main \in {"active", "disabled", "critical", "web", "low", "gpio", "asleep"}
    /\ seenActive \in BOOLEAN /\ seenDisabled \in BOOLEAN
    /\ overlap \in BOOLEAN /\ late \in BOOLEAN

\* Nothing runs yet but app_main, which has started the server; or, without
\* Wi-Fi or server, is about to sleep.
Init ==
    /\ flash \in BOOLEAN /\ sleepDisabled = flash
    /\ active = FALSE /\ stop = FALSE /\ critical = FALSE
    /\ high = FALSE /\ out = TRUE
    /\ task = [o \in Starts |-> "none"] /\ result = [o \in Starts |-> "none"]
    /\ starting = NoStart /\ old = FALSE
    /\ seenActive = FALSE /\ seenDisabled = FALSE
    /\ \/ web = "idle" /\ main = "active"
       \/ web = "off" /\ main = "low"
    /\ overlap = FALSE /\ late = FALSE

\* Mutant: a stop request outlives its watering.
TransitionKeepsStop(now) ==
    /\ active' = now
    /\ UNCHANGED <<stop, sleepDisabled>>

\* watering_transition_locked
Transition(now) ==
    /\ active' = now
    /\ stop' = (now /\ stop)
    /\ UNCHANGED sleepDisabled

Unfinished == {o \in Starts : task[o] \in Watering \cup Ending}

-----------------------------------------------------------------------------
(* The HTTP handlers (web.c) and what they call in watering.c. *)

WebStep(next) ==
    /\ web' = next
    /\ UNCHANGED <<pin, app>>

Held == UNCHANGED <<starting, old>>

Answered == WebStep("idle") /\ starting' = NoStart /\ old' = FALSE

\* watering_post_handler: a start is refused while active (409).
StartRequest(o) ==
    /\ web = "idle" /\ o \notin Unfinished
    /\ ~active
    /\ WebStep("start") /\ starting' = o
    /\ UNCHANGED <<status, flash, critical, tasks, old, history>>

\* watering_start looks again.
StartCheck ==
    /\ web = "start"
    /\ IF active THEN Answered ELSE WebStep("accept") /\ Held
    /\ UNCHANGED <<status, flash, critical, tasks, history>>

\* No tank, or no memory, which closes the status.
StartRefused ==
    /\ web = "accept"
    /\ UNCHANGED status \/ Transition(FALSE)
    /\ Answered
    /\ UNCHANGED <<flash, critical, tasks, history>>

\* The status shows the watering ...
StartAccepted ==
    /\ web = "accept"
    /\ Transition(TRUE)
    /\ overlap' = (overlap \/ Unfinished # {})
    /\ late' = (main # "active")
    /\ WebStep("create") /\ Held
    /\ UNCHANGED <<flash, critical, tasks>>

\* ... and its control task is created, or cannot be.
CreateTask ==
    /\ web = "create"
    /\ \/ /\ task' = [task EXCEPT ![starting] = "delay"]
          /\ result' = [result EXCEPT ![starting] = "none"]
          /\ UNCHANGED status
       \/ Transition(FALSE) /\ UNCHANGED tasks
    /\ Answered
    /\ UNCHANGED <<flash, critical, history>>

\* watering_stop_post_handler: watering_request_stop is one critical section.
StopRequest ==
    /\ web = "idle"
    /\ active
    /\ stop' = TRUE /\ UNCHANGED <<active, sleepDisabled>>
    /\ Answered
    /\ UNCHANGED <<flash, critical, tasks, history>>

\* sleep_enable_post_handler raises the barrier first ...
SleepEnableRequest ==
    /\ web = "idle"
    /\ critical' = TRUE
    /\ WebStep("set") /\ Held
    /\ UNCHANGED <<status, flash, tasks, history>>

\* watering_set_sleep_disabled: the setting is changed ...
SetSleep(disabled) ==
    /\ sleepDisabled' = disabled /\ old' = sleepDisabled
    /\ WebStep("save")
    /\ UNCHANGED <<active, stop, flash, critical, tasks, starting, history>>

SleepEnable == web = "set" /\ SetSleep(FALSE)

\* sleep_disable_post_handler has no barrier.
SleepDisableRequest == web = "idle" /\ SetSleep(TRUE)

\* Mutant: the barrier is lowered before the result is delivered.
SaveSleepLowering ==
    /\ web = "save"
    /\ \/ /\ flash' = sleepDisabled /\ UNCHANGED status
          /\ IF critical THEN WebStep("post") /\ Held ELSE Answered
       \/ /\ sleepDisabled' = old /\ UNCHANGED <<active, stop, flash>>
          /\ IF critical THEN WebStep("clear") /\ Held ELSE Answered
    /\ critical' = FALSE
    /\ UNCHANGED <<tasks, history>>

\* ... and saved; its value in RAM is restored if that fails.
SaveSleep ==
    /\ web = "save"
    /\ \/ /\ flash' = sleepDisabled /\ UNCHANGED status
          /\ IF critical THEN WebStep("post") /\ Held ELSE Answered
       \/ /\ sleepDisabled' = old /\ UNCHANGED <<active, stop, flash>>
          /\ IF critical THEN WebStep("clear") /\ Held ELSE Answered
    /\ UNCHANGED <<critical, tasks, history>>

\* The result of an enabled sleep is delivered before the barrier is lowered.
PostResult ==
    /\ web = "post"
    /\ WebStep("clear") /\ Held
    /\ UNCHANGED <<status, flash, critical, tasks, history>>

LowerBarrier ==
    /\ web = "clear"
    /\ critical' = FALSE
    /\ Answered
    /\ UNCHANGED <<status, flash, tasks, history>>

HandlerStep ==
    \/ StartCheck \/ StartRefused \/ StartAccepted \/ CreateTask
    \/ SleepEnable \/ SaveSleep \/ PostResult \/ LowerBarrier

Requests ==
    \/ \E o \in Starts : StartRequest(o)
    \/ StopRequest \/ SleepEnableRequest \/ SleepDisableRequest

-----------------------------------------------------------------------------
(* The control task of a start (watering.c, control_task). *)

Goto(o, next) == task' = [task EXCEPT ![o] = next] /\ UNCHANGED result

End(o, how) ==
    /\ task' = [task EXCEPT ![o] = "low"]
    /\ result' = [result EXCEPT ![o] = how]

TaskUnchanged == UNCHANGED <<flash, critical, server, app, history>>

\* The start delay (wait_or_stop), up to the last look at the stop flag.
Delay(o) ==
    /\ task[o] = "delay"
    /\ IF stop THEN End(o, "stopped") ELSE Goto(o, "sample")
    /\ UNCHANGED <<status, pin>>

\* Waits for a weight; without one it looks at the stop flag.
Sample(o) ==
    /\ task[o] = "sample"
    /\ \/ Transition(TRUE) /\ Goto(o, "pump")
       \/ stop /\ End(o, "stopped") /\ UNCHANGED status
    /\ UNCHANGED pin

PumpOn(o) ==
    /\ task[o] = "pump"
    /\ high' = TRUE /\ UNCHANGED out
    /\ Goto(o, "control")
    /\ UNCHANGED status

\* Mutant: the control loop waits without looking at the stop flag.
ControlDeaf(o) ==
    /\ task[o] = "control"
    /\ Transition(TRUE) /\ Goto(o, "judge")
    /\ UNCHANGED pin

\* Waits for the next measurement (wait_or_stop); the status shows it.
Control(o) ==
    /\ task[o] = "control"
    /\ \/ stop /\ End(o, "stopped") /\ UNCHANGED status
       \/ ~stop /\ Transition(TRUE) /\ Goto(o, "judge")
    /\ UNCHANGED pin

\* Neither target reached nor weight stuck; or one of them, which closes the status.
Judge(o) ==
    /\ task[o] = "judge"
    /\ \/ Goto(o, "control") /\ UNCHANGED status
       \/ \E how \in {"success", "error"} : End(o, how) /\ Transition(FALSE)
    /\ UNCHANGED pin

PumpOff(o) ==
    /\ task[o] = "low"
    /\ high' = FALSE /\ UNCHANGED out
    /\ Goto(o, "close")
    /\ UNCHANGED status

\* A stopped watering closes the status; another one looks whether it is closed.
Close(o) ==
    /\ task[o] = "close"
    /\ IF result[o] = "stopped" THEN Transition(FALSE) /\ Goto(o, "report")
       ELSE UNCHANGED status /\ Goto(o, IF active THEN "override" ELSE "report")
    /\ UNCHANGED pin

\* "stopped_unexpectedly": another start has been accepted meanwhile.
Override(o) ==
    /\ task[o] = "override"
    /\ Transition(FALSE)
    /\ task' = [task EXCEPT ![o] = "report"]
    /\ result' = [result EXCEPT ![o] = "error"]
    /\ UNCHANGED pin

\* The callback, and the end of the task.
Report(o) ==
    /\ task[o] = "report"
    /\ Goto(o, "done")
    /\ UNCHANGED <<status, pin>>

TaskStep(o) ==
    /\ \/ Delay(o) \/ Sample(o) \/ PumpOn(o) \/ Control(o) \/ Judge(o)
       \/ PumpOff(o) \/ Close(o) \/ Override(o) \/ Report(o)
    /\ TaskUnchanged

-----------------------------------------------------------------------------
(* app_main (main.c): the loop reads three flags, one after the other, and *)
(* leaves for deep sleep.                                                  *)

MainStep(next) ==
    /\ main' = next
    /\ UNCHANGED <<status, flash, critical, tasks, overlap>>

ReadActive ==
    /\ main = "active"
    /\ MainStep("disabled")
    /\ seenActive' = active
    /\ late' = FALSE
    /\ UNCHANGED <<seenDisabled, pin, server>>

ReadDisabled ==
    /\ main = "disabled"
    /\ MainStep("critical")
    /\ seenDisabled' = sleepDisabled
    /\ UNCHANGED <<late, seenActive, pin, server>>

\* Without online window, watering, disabled sleep or critical operation the
\* loop ends.
Decide ==
    /\ main = "critical"
    /\ \/ MainStep("active")
       \/ ~critical /\ ~seenDisabled /\ ~seenActive /\ MainStep("web")
    /\ seenActive' = FALSE /\ seenDisabled' = FALSE   \* not read again
    /\ UNCHANGED <<late, pin, server>>

\* web_stop waits for the handler that is running.
StopWeb ==
    /\ main = "web" /\ web = "idle"
    /\ MainStep("low")
    /\ web' = "off" /\ Held
    /\ UNCHANGED <<late, seenActive, seenDisabled, pin>>

\* watering_prepare_for_sleep
PrepareForSleep ==
    /\ main = "low"
    /\ MainStep("gpio")
    /\ high' = FALSE
    /\ UNCHANGED <<late, seenActive, seenDisabled, out, server>>

\* Mutant: the pin is trusted to be low.
SleepWithPin ==
    /\ main = "gpio"
    /\ MainStep("asleep")
    /\ UNCHANGED <<late, seenActive, seenDisabled, pin, server>>

\* The pins are disabled, then deep sleep ends all tasks.
Sleep ==
    /\ main = "gpio"
    /\ MainStep("asleep")
    /\ out' = FALSE
    /\ UNCHANGED <<late, seenActive, seenDisabled, high, server>>

\* Deep sleep ends in a boot: all but the flash begins anew.
Wake ==
    /\ main = "asleep"
    /\ sleepDisabled' = flash /\ UNCHANGED flash
    /\ active' = FALSE /\ stop' = FALSE /\ critical' = FALSE
    /\ high' = FALSE /\ out' = TRUE
    /\ task' = [o \in Starts |-> "none"] /\ result' = [o \in Starts |-> "none"]
    /\ starting' = NoStart /\ old' = FALSE
    /\ seenActive' = FALSE /\ seenDisabled' = FALSE
    /\ \/ web' = "idle" /\ main' = "active"
       \/ web' = "off" /\ main' = "low"
    /\ overlap' = FALSE /\ late' = FALSE

MainProgress ==
    ReadActive \/ ReadDisabled \/ Decide \/ StopWeb \/ PrepareForSleep \/ Sleep \/ Wake

-----------------------------------------------------------------------------

Awake == main # "asleep"

Next ==
    \/ Awake /\ (Requests \/ HandlerStep \/ \E o \in Starts : TaskStep(o))
    \/ MainProgress

Spec == Init /\ [][Next]_vars

\* The scheduler lets every task run.  Nothing is assumed of the requests, nor
\* of the weight: a watering may go on for ever.
Fairness ==
    /\ WF_vars(Awake /\ HandlerStep)
    /\ \A o \in Starts : WF_vars(Awake /\ TaskStep(o))
    /\ WF_vars(MainProgress)

FairSpec == Spec /\ Fairness

-----------------------------------------------------------------------------
(* Properties. *)

Pumping == high /\ out

\* The pump never runs without a control task that has yet to switch it off,
\* though several may share the pin.
PumpIsAttended ==
    Pumping => \E o \in Starts : task[o] \in {"control", "judge", "low"}

\* The status says active only while somebody has yet to close it; otherwise
\* the controller would refuse every start and never sleep again.
ActiveIsAttended ==
    active =>
      \/ web = "create"
      \/ \E o \in Starts :
           \/ task[o] \in Watering
           \/ task[o] \in {"low", "close"} /\ result[o] = "stopped"

\* A stop request reaches every watering: the status is active while a control
\* task waters or is about to, unless a start was accepted in the moment
\* between the end of a watering and the end of its task.
StopReaches ==
    ~overlap => \A o \in Starts : task[o] \in Watering => active

\* web.c: a handler that enables sleep keeps app_main behind the barrier until
\* its result has been delivered (sleep was disabled until then).
Enabling == web \in {"save", "post"} /\ old /\ ~sleepDisabled
SleepBarrier ==
    [][main = "critical" /\ main' = "web" => ~Enabling]_vars

\* Deep sleep finds the pump off, whatever control tasks do while app_main is
\* on its way (firmware/README.md: GPIOs are disabled before deep sleep).
SleepsWithPumpOff == main = "asleep" => ~Pumping

\* A stop that finds the watering active ends it, unless the controller sleeps.
StopEnds ==
    \A o \in Starts :
      (stop /\ task[o] \in Watering /\ ~overlap) ~>
        (task[o] \notin Watering \/ overlap)

\* What the backend takes the controller for: the watering under way is the one
\* that the status shows, of the start being handled or of its task.  A start
\* that is accepted before an earlier task is through breaks this up to the next
\* boot, as if the watering had ended.
UnderWay ==
    IF ~active \/ overlap THEN NoStart
    ELSE IF web = "create" THEN starting ELSE CHOOSE o \in Unfinished : TRUE

Tank == INSTANCE TankDevice WITH op <- UnderWay,
                                 pump <- Pumping /\ ~overlap,
                                 stop <- stop /\ ~overlap
TankSpec == Tank!Spec

\* firmware/README.md: stays awake past the window while watering is active.
AwakeWhileWatering == main = "asleep" => ~active

\* What remains of it: deep sleep cuts a watering only if its start was accepted
\* after app_main had looked at the status (or an overlapping task had closed
\* the status of another).
CutsAreLate == main = "asleep" /\ active => late \/ overlap
=============================================================================
