--------------------------- MODULE ProcessManager ---------------------------
(***************************************************************************)
(* The process manager of the TypeScript runtime (core/processManager.ts)  *)
(* together with the part of core/eventBus.ts it awaits.                   *)
(*                                                                         *)
(* Everything runs on one event loop: the code between two `await`s is     *)
(* atomic, and while a call awaits, any other call may run.  One action    *)
(* below is one such stretch of code.  A call is one invocation of         *)
(* handleEvent or of stopProcess; its record stays after it has returned   *)
(* and so doubles as the history the properties speak of.                  *)
(***************************************************************************)
EXTENDS Naturals, FiniteSets, Sequences

CONSTANTS
    Workspaces,  \* workspaces that emit events
    Names,       \* event names for which a factory may be registered
    Procs,       \* process objects the factories can build
    Calls,       \* invocations of handleEvent and stopProcess
    MaxResets,   \* bound on the invocations of resetForTests
    None         \* JavaScript's undefined

ASSUME NoneIsNoObject == None \notin Procs \cup (Workspaces \X Names)
ASSUME ResetBound == MaxResets \in Nat

VARIABLES
    factories,  \* names with a registered factory
    processes,  \* the Map: process key -> process object, or None
    start,      \* how far the start() promise of each process object is
    origin,     \* key of the event whose factory built the object, or None
    trail,      \* events emitted on the bus about each process object
    call,       \* progress of each invocation
    discarded,  \* objects whose stop('reset') was called by resetForTests
    resets      \* number of invocations of resetForTests so far

vars == <<factories, processes, start, origin, trail, call, discarded, resets>>

\* `${evt.workspace}:${evt.name}` is injective on the workspaces and names used.
Keys == Workspaces \X Names

StartStates == {"unborn", "starting", "running", "failed"}

BusEvents == {"process.started", "process.start.failed", "process.stopped",
              "processManager.error"}

(***************************************************************************)
(* Where an invocation is suspended:                                       *)
(*   routing     awaits existing.onEvent(evt)                              *)
(*   starting    awaits proc.start(evt)                                    *)
(*   announcing  awaits the emit of process.started                        *)
(*   failing     awaits the emit of process.start.failed                   *)
(*   erroring    awaits the emit of processManager.error                   *)
(*   stopping    awaits proc.stop('manual-stop')                           *)
(*   closing     awaits the emit of process.stopped                        *)
(***************************************************************************)
Suspended == {"routing", "starting", "announcing", "failing", "erroring",
              "stopping", "closing"}

CallRecord == [pc   : {"idle", "done"} \cup Suspended,
               op   : {"none", "event", "stop"},
               key  : Keys \cup {None},
               proc : Procs \cup {None},
               removed : BOOLEAN]

IdleCall == [pc |-> "idle", op |-> "none", key |-> None, proc |-> None,
             removed |-> FALSE]

Listed == {p \in Procs : \E k \in Keys : processes[k] = p}

Idle(c) == call[c].pc = "idle"

Emit(p, e) == trail' = [trail EXCEPT ![p] = Append(@, e)]

Goto(c, pc) == call' = [call EXCEPT ![c].pc = pc]

\* this.processes.delete(key): whatever object the key holds at that moment.
DeleteKey(c) ==
    processes' = [processes EXCEPT ![call[c].key] = None]

-----------------------------------------------------------------------------
Init ==
    /\ factories = {}
    /\ processes = [k \in Keys |-> None]
    /\ start = [p \in Procs |-> "unborn"]
    /\ origin = [p \in Procs |-> None]
    /\ trail = [p \in Procs |-> <<>>]
    /\ call = [c \in Calls |-> IdleCall]
    /\ discarded = {}
    /\ resets = 0

RegisterFactory(n) ==
    /\ n \notin factories
    /\ factories' = factories \cup {n}
    /\ UNCHANGED <<processes, start, origin, trail, call, discarded, resets>>

-----------------------------------------------------------------------------
(* handleEvent *)

\* Existing process: its onEvent is called, whether or not start() has settled.
RouteEvent(c, k) ==
    /\ Idle(c)
    /\ processes[k] # None
    /\ call' = [call EXCEPT ![c] = [pc |-> "routing", op |-> "event", key |-> k,
                                    proc |-> processes[k], removed |-> FALSE]]
    /\ UNCHANGED <<factories, processes, start, origin, trail, discarded, resets>>

\* Slip: the check for an existing process is forgotten.
CreateProcess_NoCheck(c, k, p) ==
    /\ Idle(c)
    /\ k[2] \in factories
    /\ start[p] = "unborn"
    /\ processes' = [processes EXCEPT ![k] = p]
    /\ start' = [start EXCEPT ![p] = "starting"]
    /\ origin' = [origin EXCEPT ![p] = k]
    /\ call' = [call EXCEPT ![c] = [pc |-> "starting", op |-> "event", key |-> k,
                                    proc |-> p, removed |-> FALSE]]
    /\ UNCHANGED <<factories, trail, discarded, resets>>

\* No process: the factory builds one, which is registered before its start()
\* is awaited.
CreateProcess(c, k, p) ==
    /\ Idle(c)
    /\ processes[k] = None
    /\ k[2] \in factories
    /\ start[p] = "unborn"
    /\ processes' = [processes EXCEPT ![k] = p]
    /\ start' = [start EXCEPT ![p] = "starting"]
    /\ origin' = [origin EXCEPT ![p] = k]
    /\ call' = [call EXCEPT ![c] = [pc |-> "starting", op |-> "event", key |-> k,
                                    proc |-> p, removed |-> FALSE]]
    /\ UNCHANGED <<factories, trail, discarded, resets>>

\* No process and no factory, or the factory returns null.
IgnoreEvent(c, k) ==
    /\ Idle(c)
    /\ processes[k] = None
    /\ call' = [call EXCEPT ![c] = [pc |-> "done", op |-> "event", key |-> k,
                                    proc |-> None, removed |-> FALSE]]
    /\ UNCHANGED <<factories, processes, start, origin, trail, discarded, resets>>

HandleEvent(c, k) ==
    \/ RouteEvent(c, k)
    \/ \E p \in Procs : CreateProcess(c, k, p)
    \/ IgnoreEvent(c, k)

OnEventResolves(c) ==
    /\ call[c].pc = "routing"
    /\ Goto(c, "done")
    /\ UNCHANGED <<factories, processes, start, origin, trail, discarded, resets>>

\* The wildcard subscriber catches what handleEvent throws and reports it.
OnEventRejects(c) ==
    /\ call[c].pc = "routing"
    /\ Emit(call[c].proc, "processManager.error")
    /\ Goto(c, "erroring")
    /\ UNCHANGED <<factories, processes, start, origin, discarded, resets>>

\* Slip: the process is registered (again) once start() has resolved.
StartResolves_Registers(c) ==
    /\ call[c].pc = "starting"
    /\ start' = [start EXCEPT ![call[c].proc] = "running"]
    /\ processes' = [processes EXCEPT ![call[c].key] = call[c].proc]
    /\ Emit(call[c].proc, "process.started")
    /\ Goto(c, "announcing")
    /\ UNCHANGED <<factories, origin, discarded, resets>>

StartResolves(c) ==
    /\ call[c].pc = "starting"
    /\ start' = [start EXCEPT ![call[c].proc] = "running"]
    /\ Emit(call[c].proc, "process.started")
    /\ Goto(c, "announcing")
    /\ UNCHANGED <<factories, processes, origin, discarded, resets>>

\* The catch block: reached when start() rejects, and also when the emit of
\* process.started rejects because a subscriber threw synchronously.
CleanUp(c) ==
    /\ DeleteKey(c)
    /\ Emit(call[c].proc, "process.start.failed")
    /\ call' = [call EXCEPT ![c].pc = "failing", ![c].removed = TRUE]
    /\ UNCHANGED <<factories, origin, discarded, resets>>

\* Slip: the failed start is reported but its entry is left behind.
StartRejects_NoDelete(c) ==
    /\ call[c].pc = "starting"
    /\ start' = [start EXCEPT ![call[c].proc] = "failed"]
    /\ Emit(call[c].proc, "process.start.failed")
    /\ Goto(c, "failing")
    /\ UNCHANGED <<factories, processes, origin, discarded, resets>>

StartRejects(c) ==
    /\ call[c].pc = "starting"
    /\ start' = [start EXCEPT ![call[c].proc] = "failed"]
    /\ CleanUp(c)

AnnounceRejects(c) ==
    /\ call[c].pc = "announcing"
    /\ CleanUp(c)
    /\ UNCHANGED start

\* handleEvent rethrows after process.start.failed has been emitted.
FailureEmitted(c) ==
    /\ call[c].pc = "failing"
    /\ Emit(call[c].proc, "processManager.error")
    /\ Goto(c, "erroring")
    /\ UNCHANGED <<factories, processes, start, origin, discarded, resets>>

-----------------------------------------------------------------------------
(* stopProcess *)

\* The argument, a key or an id, resolved to an entry of the Map.
StopEntry(c, k) ==
    /\ Idle(c)
    /\ processes[k] # None
    /\ call' = [call EXCEPT ![c] = [pc |-> "stopping", op |-> "stop", key |-> k,
                                    proc |-> processes[k], removed |-> FALSE]]
    /\ UNCHANGED <<factories, processes, start, origin, trail, discarded, resets>>

\* The argument names no entry: nothing is done.
StopNothing(c) ==
    /\ Idle(c)
    /\ call' = [call EXCEPT ![c] = [pc |-> "done", op |-> "stop", key |-> None,
                                    proc |-> None, removed |-> FALSE]]
    /\ UNCHANGED <<factories, processes, start, origin, trail, discarded, resets>>

StopByKey(c, k) ==
    \/ StopEntry(c, k)
    \/ processes[k] = None /\ StopNothing(c)

StopById(c, p) ==
    \/ \E k \in Keys : processes[k] = p /\ StopEntry(c, k)
    \/ p \notin Listed /\ StopNothing(c)

\* Slip: the clean-up is not in a finally block, so a rejected stop() skips it.
StopSettles_NoFinally(c) ==
    /\ call[c].pc = "stopping"
    /\ \/ /\ DeleteKey(c)
          /\ Emit(call[c].proc, "process.stopped")
          /\ call' = [call EXCEPT ![c].pc = "closing", ![c].removed = TRUE]
       \/ /\ Goto(c, "done")
          /\ UNCHANGED <<processes, trail>>
    /\ UNCHANGED <<factories, start, origin, discarded, resets>>

\* stop() has settled; the finally block runs whether it resolved or rejected.
StopSettles(c) ==
    /\ call[c].pc = "stopping"
    /\ DeleteKey(c)
    /\ Emit(call[c].proc, "process.stopped")
    /\ call' = [call EXCEPT ![c].pc = "closing", ![c].removed = TRUE]
    /\ UNCHANGED <<factories, start, origin, discarded, resets>>

\* The last emit of a call has settled and the call returns.
Return(c) ==
    /\ call[c].pc \in {"announcing", "erroring", "closing"}
    /\ Goto(c, "done")
    /\ UNCHANGED <<factories, processes, start, origin, trail, discarded, resets>>

-----------------------------------------------------------------------------
\* stop('reset') is called on every registered object but not awaited.
ResetForTests ==
    /\ resets < MaxResets
    /\ resets' = resets + 1
    /\ discarded' = discarded \cup Listed
    /\ processes' = [k \in Keys |-> None]
    /\ factories' = {}
    /\ UNCHANGED <<start, origin, trail, call>>

-----------------------------------------------------------------------------
\* What the outside does: emit events, stop processes, register, reset.
Request ==
    \/ \E n \in Names : RegisterFactory(n)
    \/ \E c \in Calls, k \in Keys : HandleEvent(c, k) \/ StopByKey(c, k)
    \/ \E c \in Calls, p \in Procs : StopById(c, p)
    \/ ResetForTests

\* What the event loop does: continue a call whose awaited promise settled.
Continue(c) ==
    \/ OnEventResolves(c)
    \/ OnEventRejects(c)
    \/ StartResolves(c)
    \/ StartRejects(c)
    \/ AnnounceRejects(c)
    \/ FailureEmitted(c)
    \/ StopSettles(c)
    \/ Return(c)

Next == Request \/ \E c \in Calls : Continue(c)

Spec == Init /\ [][Next]_vars

\* Fairness: the event loop continues every call whose promise has settled, and
\* the promises of start, onEvent, stop and emit are assumed to settle.
FairSpec == Spec /\ \A c \in Calls : WF_vars(Continue(c))

-----------------------------------------------------------------------------
(* Properties *)

\* Every variable stays within its type.
TypeOK ==
    /\ factories \subseteq Names
    /\ processes \in [Keys -> Procs \cup {None}]
    /\ start \in [Procs -> StartStates]
    /\ origin \in [Procs -> Keys \cup {None}]
    /\ trail \in [Procs -> Seq(BusEvents)]
    /\ call \in [Calls -> CallRecord]
    /\ discarded \subseteq Procs
    /\ resets \in 0..MaxResets

\* The Map lists an object only under the key of the event that created it, and
\* never one whose start() has failed, however stops and starts interleave.
ListedIsLive ==
    \A k \in Keys : processes[k] # None =>
        /\ origin[processes[k]] = k
        /\ start[processes[k]] \in {"starting", "running"}

\* Once one invocation has cleaned up an object (its start failed, or the
\* finally block of a stop ran), no key holds that object any more: a caller
\* whose stopProcess returned will not see the process in listActive again.
RemovedIsUnlisted ==
    \A c \in Calls : call[c].removed => call[c].proc \notin Listed

\* An object registered under k was removed twice: by two overlapping stops, by a
\* stop overlapping a start that then failed, or by resetForTests and a clean-up.
RemovedTwice(k) ==
    \E c \in Calls :
        /\ call[c].removed
        /\ call[c].key = k
        /\ \/ call[c].proc \in discarded
           \/ \E d \in Calls \ {c} : call[d].removed /\ call[d].proc = call[c].proc

\* An invocation cleaned this very object up.
CleanedUp(p) == \E c \in Calls : call[c].removed /\ call[c].proc = p

\* delete(key) removes whatever the key holds at that moment, so a late clean-up
\* can remove a newer process than the one it stopped.  That is the only way to
\* lose one: an object leaves the Map by its own clean-up, by resetForTests, or
\* after an earlier object of the same key was removed twice.
OrphanNeedsOverlap ==
    \A p \in Procs :
        origin[p] # None /\ p \notin Listed /\ p \notin discarded
            => CleanedUp(p) \/ RemovedTwice(origin[p])

\* The documented reading of listActive ("List active processes (for admin /
\* introspection)"): a process that is running, and that nobody has stopped or
\* reported as failed, is listed.
ActiveAreListed ==
    \A p \in Procs :
        /\ start[p] = "running"
        /\ p \notin discarded
        /\ ~ \E c \in Calls : call[c].proc = p
                              /\ (call[c].op = "stop" \/ call[c].removed)
        => p \in Listed

Quiet == \A c \in Calls : call[c].pc \in {"idle", "done"}

\* The lifecycle events of a trail: everything but the reports of errors.
Lifecycle(tr) == {i \in DOMAIN tr : tr[i] # "processManager.error"}

\* Of the lifecycle events there has been one only, and it is e.
OnlyLifecycle(tr, e) == \E i \in DOMAIN tr : Lifecycle(tr) = {i} /\ tr[i] = e

\* When no call is in flight, the lifecycle events emitted about a listed object
\* are exactly one process.started: an observer of the bus and listActive agree
\* on every listed process.
QuietTrail ==
    Quiet => \A p \in Listed : OnlyLifecycle(trail[p], "process.started")

\* What the Map holds is live, of its key and announced, and stays away once removed.
ManagerInv == TypeOK /\ ListedIsLive /\ RemovedIsUnlisted /\ QuietTrail

\* A process object leaves the registry for good and keys never share objects:
\* the manager implements the registry ProcessRegistry describes.
Registry == INSTANCE ProcessRegistry WITH
                keyOf <- origin, listed <- Listed
RegistrySpec == Registry!Spec

\* Whoever stops a process is eventually rid of it, also when stop() rejects.
StopUnlists ==
    \A c \in Calls :
        call[c].pc = "stopping" ~> call[c].pc = "done" /\ call[c].proc \notin Listed

\* Every process that is created is eventually announced on the bus as started
\* or as failed, whatever stops overlap its start.
StartIsReported ==
    \A p \in Procs :
        start[p] = "starting" ~>
            \E i \in DOMAIN trail[p] :
                trail[p][i] \in {"process.started", "process.start.failed"}

\* The calls of the manager come to their end, on the bus and in the Map.
CallsEnd == StopUnlists /\ StartIsReported

=============================================================================
