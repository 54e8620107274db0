------------------------------- MODULE MCServices ------------------------------
(* Small instances of four components that meet only through what other      *)
(* modules model: in a behaviour one of them runs, and the others rest.      *)
EXTENDS DeviceState, DevicePresence, IdempotentRequests, CallbackCheck

VARIABLE part   \* the component that runs

Parts == {"state", "presence", "requests", "check"}

ServicesInit ==
    /\ StateInit /\ PresenceInit /\ RequestsInit /\ CheckInit
    /\ part \in Parts
    /\ part # "requests" => \A c \in Clients : request[c].body = CHOOSE b \in Bodies : TRUE

ServicesNext ==
    /\ UNCHANGED part
    /\ \/ /\ part = "state" /\ StateNext
          /\ UNCHANGED <<presenceVars, requestVars, checkVars>>
       \/ /\ part = "presence" /\ PresenceNext
          /\ UNCHANGED <<stateVars, requestVars, checkVars>>
       \/ /\ part = "requests" /\ RequestsNext
          /\ UNCHANGED <<stateVars, presenceVars, checkVars>>
       \/ /\ part = "check" /\ CheckNext
          /\ UNCHANGED <<stateVars, presenceVars, requestVars>>

servicesVars == <<stateVars, presenceVars, requestVars, checkVars, part>>

\* A fetch and a callback under way end.
StateRuns == part = "state"
StateFairness ==
    /\ \A f \in Fetchers : WF_stateVars(StateRuns /\ FetchProgress(f))
    /\ WF_stateVars(StateRuns /\ NodeProgress)

\* The monitor goes on, its semaphore is first come first served, and a refresh
\* under way ends.
PresenceRuns == part = "presence"
PresenceFairness ==
    /\ WF_presenceVars(PresenceRuns /\ BeginCycle)
    /\ \A d \in Devices : /\ SF_presenceVars(PresenceRuns /\ Probe(d))
                          /\ WF_presenceVars(PresenceRuns /\ Record(d))
                          /\ WF_presenceVars(PresenceRuns /\ MarkOnline(d))

\* Clients repeat, executions end, what a crash left is removed in the end, and
\* of the answers to a client not every one gets lost.
RequestsRun == part = "requests"
RequestsFairness ==
    /\ \A c \in Clients :
          /\ SF_requestVars(RequestsRun /\ (Begin(c) \/ Conflict(c) \/ Replay(c)))
          /\ WF_requestVars(RequestsRun /\ Application(c))
          /\ SF_requestVars(RequestsRun /\ Deliver(c))
    /\ \A s \in Scopes : WF_requestVars(RequestsRun /\ PurgePending(s))

\* The CLI goes on and time passes.
CheckRuns == part = "check"
CheckFairness ==
    WF_checkVars(CheckRuns /\ CLISteps) /\ WF_checkVars(CheckRuns /\ TimeIsOver)

ServicesSpec ==
    /\ ServicesInit /\ [][ServicesNext]_servicesVars
    /\ StateFairness /\ PresenceFairness /\ RequestsFairness /\ CheckFairness

\* The type invariants of the components, with what each says of its own state.
ServicesTypeOK == StateTypeOK /\ PresenceTypeOK /\ RequestsTypeOK /\ CheckTypeOK
=============================================================================
