-------------------------- MODULE MCKernelServices --------------------------
(***************************************************************************)
(* The services of the kernel, each with user code that calls it from      *)
(* inside.  No service calls another: each is explored by itself, and the  *)
(* parts of KernelDispatch one at a time.                                  *)
(***************************************************************************)
EXTENDS ProcessTable, MemoryRegions

CONSTANTS
    MaxNested,                                                            \* bound: calls and runs under way
    Labels, Priorities, Policies, MaxItems, MaxBoosts,                    \* KernelDispatch
    MaxZones, MaxTasks,                                                   \* Hypervisor
    Nodes, MaxListed, MaxRuns, MaxSessions,                               \* EngineRuns
    ChannelNames, MaxChannels                                             \* RoutingTopology

VARIABLES
    under,
    tasks, ready, policies, messages, queues, channel, handlers, trapLog, signals,
    subscribers, busChannel, published, events, emitted, stack, boosts, taken, ended,
    zones, zone, kernel, booted, sandbox, executing, logs, started, failed,
    nodes, links, processes, list, session, records, modelState, frames, begun, executed, done,
    routes, added, since

Dispatch == INSTANCE KernelDispatch WITH Names <- Labels, MaxDepth <- MaxNested
Zones == INSTANCE Hypervisor WITH MaxDepth <- MaxNested
Engines == INSTANCE EngineRuns WITH
    Names <- Nodes, MaxItems <- MaxListed, MaxDepth <- MaxNested,
    history <- records, stack <- frames, runs <- begun,
    Lists <- {"flow", "pipeline", "attached", "phase", "rules"}
Routing == INSTANCE RoutingTopology WITH nodes <- routes

ASSUME MemoryAssumption == ConstantsOK
ASSUME DispatchAssumption == Dispatch!ConstantsOK
ASSUME NodesAssumption == Nodes # {}

memoryVars == vars
dispatchVars ==
    <<tasks, ready, policies, messages, queues, channel, handlers, trapLog, signals,
      subscribers, busChannel, published, events, emitted, stack, boosts, taken, ended>>
zoneVars == <<zones, zone, kernel, booted, sandbox, executing, logs, started, failed>>
engineVars == <<nodes, links, processes, list, session, records, modelState, frames, begun, executed, done>>
routingVars == <<routes, added, since>>

Parts ==
    {"scheduler", "ipc", "signals", "bus", "runtime", "processes", "memory", "hypervisor",
     "orchestration", "pipelines", "attached", "worlds", "models", "routing"}

MCInit ==
    /\ under \in Parts
    /\ TableInit /\ Init /\ Dispatch!Init /\ Zones!Init /\ Engines!Init /\ Routing!Init

Dispatching ==
    /\ \/ Dispatch!Returns \/ Dispatch!Raises
       \/ /\ under = "scheduler"
          /\ \/ Dispatch!RunOnce \/ Dispatch!PolicyReturns
             \/ \E p \in Priorities : Dispatch!AddTask(p) \/ Dispatch!PolicyDrops(p)
             \/ \E n \in Policies : Dispatch!AddPolicy(n)
             \/ \E i \in DOMAIN tasks : Dispatch!PolicyBoosts(i)
       \/ /\ under = "ipc"
          /\ \E n \in Labels : Dispatch!CreateChannel(n) \/ Dispatch!Send(n) \/ Dispatch!DispatchMessage(n) \/ Dispatch!RegisterHandler("message", n)
       \/ under = "signals" /\ \E n \in Labels : Dispatch!RaiseSignal(n) \/ Dispatch!RegisterHandler("signal", n)
       \/ under = "bus" /\ \E n \in Labels : Dispatch!CreateBusChannel(n) \/ Dispatch!Subscribe(n) \/ Dispatch!Publish(n)
       \/ under = "runtime" /\ (Dispatch!Tick \/ \E n \in Labels : Dispatch!Emit(n) \/ Dispatch!RegisterHandler("event", n))
    /\ UNCHANGED <<tableVars, memoryVars, zoneVars, engineVars, routingVars>>

\* The first name stands for the items of lists that do not look names up.
First == CHOOSE n \in Nodes : TRUE

Running ==
    /\ \/ Engines!Step
       \/ under = "orchestration" /\ Engines!RunFlow
       \/ /\ under = "orchestration"
          /\ \E n \in Nodes : Engines!AddNode(n) \/ Engines!AddItem("flow", n) \/ \E m \in Nodes : Engines!AddLink(n, m)
       \/ under = "pipelines" /\ (Engines!RunPipeline \/ Engines!RunPhase)
       \/ under = "attached" /\ (Engines!Execute \/ \E n \in Nodes : Engines!AddProcess(n) \/ Engines!AttachProcess(n))
       \/ under = "pipelines" /\ \E k \in {"pipeline", "phase"} : Engines!AddItem(k, First)
       \/ under = "worlds" /\ (Engines!RunWorldTick \/ Engines!AddItem("rules", First) \/ Engines!CreateSession)
       \/ under = "models" /\ (Engines!RunModelStep \/ Engines!RunFunction \/ Engines!InitializeModel \/ Engines!CreateSession)
    /\ UNCHANGED <<dispatchVars, tableVars, memoryVars, zoneVars, routingVars>>

MCNext ==
    /\ UNCHANGED under
    /\ \/ Dispatching \/ Running
       \/ under = "processes" /\ TableNext /\ UNCHANGED <<dispatchVars, memoryVars, zoneVars, engineVars, routingVars>>
       \/ under = "memory" /\ Next /\ UNCHANGED <<dispatchVars, tableVars, zoneVars, engineVars, routingVars>>
       \/ under = "hypervisor" /\ Zones!Next /\ UNCHANGED <<dispatchVars, tableVars, memoryVars, engineVars, routingVars>>
       \/ under = "routing" /\ Routing!Next /\ UNCHANGED <<dispatchVars, tableVars, memoryVars, zoneVars, engineVars>>

MCSpec == MCInit /\ [][MCNext]_<<under, dispatchVars, tableVars, memoryVars, zoneVars, engineVars, routingVars>>

-----------------------------------------------------------------------------

\* The types of all parts, and of each the invariants its state is to be read with.
ServicesInv ==
    /\ TableTypeOK /\ RunningIsRunning
    /\ TypeOK /\ UsedExplained /\ WithinCapacity
    /\ Dispatch!TypeOK
    /\ Zones!TypeOK /\ Zones!ZonesConsistent
    /\ Engines!TypeOK /\ Engines!SessionsTell /\ Engines!StepsKept
    /\ Routing!TypeOK /\ Routing!DispatchFollows

\* See KernelDispatch.
HandledOnce == Dispatch!HandledOnce
\* See KernelDispatch.
TakenInOrder == Dispatch!TakenInOrder
\* See EngineRuns.
RunsComplete == Engines!RunsComplete
=============================================================================
