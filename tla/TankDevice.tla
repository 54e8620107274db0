------------------------------- MODULE TankDevice -------------------------------
(***************************************************************************)
(* What a tank is to the backend: one watering at a time.  A start is      *)
(* accepted only when no watering is under way and the pump is off; the    *)
(* pump is switched on only for the watering under way; a stop request is  *)
(* for it and for no later one.  Whatever ends a watering (its task, sleep *)
(* or a loss of power) may switch the pump off, at once or later.          *)
(*                                                                         *)
(* The device of CommandDelivery is this one, and so is the controller of  *)
(* WateringFirmware as long as no two of its control tasks overlap.        *)
(***************************************************************************)
CONSTANTS Starts, NoStart

VARIABLES
    op,     \* the start whose watering is under way
    pump,   \* the pump runs
    stop    \* the watering under way is to be stopped

deviceVars == <<op, pump, stop>>

Init == op = NoStart /\ pump = FALSE /\ stop = FALSE

Accept(o) ==
    /\ op = NoStart /\ ~pump
    /\ op' = o /\ stop' = FALSE
    /\ UNCHANGED pump

RequestStop ==
    /\ op # NoStart
    /\ stop' = TRUE
    /\ UNCHANGED <<op, pump>>

PumpOn ==
    /\ op # NoStart
    /\ pump' = TRUE
    /\ UNCHANGED <<op, stop>>

PumpOff ==
    /\ pump' = FALSE
    /\ UNCHANGED <<op, stop>>

End ==
    /\ op # NoStart
    /\ op' = NoStart /\ stop' = FALSE
    /\ pump' \in {pump, FALSE}

Next == (\E o \in Starts : Accept(o)) \/ RequestStop \/ PumpOn \/ PumpOff \/ End

Spec == Init /\ [][Next]_deviceVars
=============================================================================
