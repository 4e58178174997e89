----------------------------- MODULE Hypervisor -----------------------------
(***************************************************************************)
(* hypervisor/: zones, the virtual kernels and sandboxes that belong to    *)
(* them, and the manager that finds each by the name of the zone.  A task  *)
(* runs inside HypervisorSandbox.execute and may call the hypervisor.      *)
(***************************************************************************)
EXTENDS Naturals, Sequences, FiniteSets

CONSTANTS
    Names,     \* names of zones
    MaxZones,  \* bound: HypervisorZone objects
    MaxTasks,  \* bound: tasks executed
    MaxDepth   \* bound: tasks under way

VARIABLES
    zones,     \* the state of each HypervisorZone
    zone,      \* HypervisorManager.zones: the object of each name, 0 if there is none
    kernel,    \* kernels: the zone of the kernel of each name, 0 if there is none
    booted,    \* zones with a booted kernel
    sandbox,   \* sandboxes: the zone of the sandbox of each name, 0 if there is none
    executing, \* tasks under way: the zone of each, the innermost last
    logs,      \* number of tasks logged for each zone
    started,   \* history: number of tasks started in each zone
    failed     \* history: number of tasks of each zone that raised

vars == <<zones, zone, kernel, booted, sandbox, executing, logs, started, failed>>

ZoneState == [initialized : BOOLEAN, running : BOOLEAN, terminated : BOOLEAN]

Init ==
    /\ zones = <<>> /\ zone = [n \in Names |-> 0]
    /\ kernel = [n \in Names |-> 0] /\ booted = {} /\ sandbox = [n \in Names |-> 0]
    /\ executing = <<>> /\ logs = <<>> /\ started = <<>> /\ failed = <<>>

\* A zone of that name is replaced; its kernel and its sandbox keep the old zone.
CreateZone(n) ==
    /\ Len(zones) < MaxZones
    /\ zones' = Append(zones, [initialized |-> FALSE, running |-> FALSE, terminated |-> FALSE])
    /\ zone' = [zone EXCEPT ![n] = Len(zones')]
    /\ logs' = Append(logs, 0) /\ started' = Append(started, 0) /\ failed' = Append(failed, 0)
    /\ UNCHANGED <<kernel, booted, sandbox, executing>>

Initialized(z) == [z EXCEPT !.initialized = TRUE]

Initialize(z) ==
    /\ zones' = [zones EXCEPT ![z] = Initialized(@)]
    /\ UNCHANGED <<zone, kernel, booted, sandbox, executing, logs, started, failed>>

\* boot_kernel initializes the zone, so that VirtualKernel.boot is not refused.
BootKernel(n) ==
    /\ zone[n] # 0
    /\ kernel' = [kernel EXCEPT ![n] = zone[n]]
    /\ zones' = [zones EXCEPT ![zone[n]] = Initialized(@)]
    /\ booted' = booted \cup {zone[n]}
    /\ UNCHANGED <<zone, sandbox, executing, logs, started, failed>>

CreateSandbox(n) ==
    /\ zone[n] # 0
    /\ sandbox' = [sandbox EXCEPT ![n] = zone[n]]
    /\ UNCHANGED <<zones, zone, kernel, booted, executing, logs, started, failed>>

\* A terminated zone may be started again and stays marked as terminated.
Start(z) ==
    /\ zones[z].initialized
    /\ zones' = [zones EXCEPT ![z].running = TRUE]
    /\ UNCHANGED <<zone, kernel, booted, sandbox, executing, logs, started, failed>>

Terminate(z) ==
    /\ zones' = [zones EXCEPT ![z].terminated = TRUE, ![z].running = FALSE]
    /\ UNCHANGED <<zone, kernel, booted, sandbox, executing, logs, started, failed>>

Execute(n) ==
    /\ Len(executing) < MaxDepth
    /\ sandbox[n] # 0 /\ zones[sandbox[n]].running /\ started[sandbox[n]] < MaxTasks
    /\ executing' = Append(executing, sandbox[n])
    /\ started' = [started EXCEPT ![sandbox[n]] = @ + 1]
    /\ UNCHANGED <<zones, zone, kernel, booted, sandbox, logs, failed>>

Innermost == executing[Len(executing)]
Unwound == SubSeq(executing, 1, Len(executing) - 1)

\* The zone may have been terminated meanwhile: the task is logged all the same.
TaskReturns ==
    /\ executing # <<>>
    /\ executing' = Unwound
    /\ logs' = [logs EXCEPT ![Innermost] = @ + 1]
    /\ UNCHANGED <<zones, zone, kernel, booted, sandbox, started, failed>>

TaskRaises ==
    /\ executing # <<>>
    /\ executing' = Unwound
    /\ failed' = [failed EXCEPT ![Innermost] = @ + 1]
    /\ UNCHANGED <<zones, zone, kernel, booted, sandbox, started, logs>>

Next ==
    \/ \E n \in Names : CreateZone(n) \/ BootKernel(n) \/ CreateSandbox(n) \/ Execute(n)
    \/ \E z \in DOMAIN zones : Initialize(z) \/ Start(z) \/ Terminate(z)
    \/ TaskReturns \/ TaskRaises

Spec == Init /\ [][Next]_vars

-----------------------------------------------------------------------------

TypeOK ==
    /\ zones \in Seq(ZoneState)
    /\ zone \in [Names -> 0 .. Len(zones)] /\ kernel \in [Names -> 0 .. Len(zones)]
    /\ sandbox \in [Names -> 0 .. Len(zones)] /\ booted \subseteq DOMAIN zones
    /\ executing \in Seq(DOMAIN zones)
    /\ logs \in Seq(Nat) /\ started \in Seq(Nat) /\ failed \in Seq(Nat)

UnderWay(z) == Cardinality({k \in DOMAIN executing : executing[k] = z})

\* Whatever the order of the calls, and for zones whose name was given away too: what
\* runs, or has a booted kernel, was initialized; and the tasks of a zone are all
\* under way, logged or failed, and there are none in a zone that never could start.
ZonesConsistent ==
    \A z \in DOMAIN zones :
        /\ zones[z].running \/ z \in booted \/ started[z] > 0 => zones[z].initialized
        /\ started[z] = UnderWay(z) + logs[z] + failed[z]

=============================================================================
