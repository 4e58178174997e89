------------------------- MODULE ReactiveGovernance -------------------------
(***************************************************************************)
(* governance/reactive.ts on top of the process manager: an invocation of  *)
(* applyGovernance (a sweep) stops the processes of the blocked workspaces *)
(* and, inside a maintenance window, every process, one awaited            *)
(* stopProcess at a time, while events and other stops go on.              *)
(*                                                                         *)
(* A sweep is triggered by governance.config.loaded (loadGovernanceConfig  *)
(* puts the lists into the payload), by governance.config.updated (the     *)
(* setters of governance/config.ts put { key, value } there), or by a      *)
(* direct call of applyCurrentGovernance.                                  *)
(***************************************************************************)
EXTENDS ProcessManager

CONSTANTS
    Sweeps,      \* invocations of applyGovernance
    Criticality  \* criticality of the processes the factory of a name builds

CriticalityLevels == {"critical", "medium", "non-critical"}

ASSUME CriticalityType == Criticality \in [Names -> CriticalityLevels]

VARIABLES
    sweep   \* progress of each invocation

rvars == <<vars, sweep>>

Workspace(p) == origin[p][1]

(***************************************************************************)
(*   blocked      awaits a stopProcess of the first loop                   *)
(*   maintenance  awaits a stopProcess of the second loop                  *)
(*   applied      both loops are over                                      *)
(* shape tells a payload with the lists from a { key, value } one; asked   *)
(* and window are what the configuration says; before is the set of        *)
(* process objects that existed when the sweep began, stopped those the    *)
(* second loop stopped.                                                    *)
(***************************************************************************)
SweepRecord == [pc : {"idle", "blocked", "maintenance", "applied"},
                shape : {"none", "lists", "keyvalue"},
                asked : SUBSET Workspaces,
                window : BOOLEAN,
                todo : SUBSET Procs,
                call : Calls \cup {None},
                before : SUBSET Procs,
                stopped : SUBSET Procs]

IdleSweep == [pc |-> "idle", shape |-> "none", asked |-> {}, window |-> FALSE,
              todo |-> {}, call |-> None, before |-> {}, stopped |-> {}]

\* payload.blocked and payload.maintenance, as applyGovernance reads them.
PayloadBlocked(shape, B) == IF shape = "keyvalue" THEN {} ELSE B
PayloadWindow(shape, m) == shape # "keyvalue" /\ m

RInit ==
    /\ Init
    /\ sweep = [s \in Sweeps |-> IdleSweep]

-----------------------------------------------------------------------------
\* Slip: the loop does not await the stopProcess of the last process.
StopNext_Unawaited(s, sw, loop, S) ==
    \E p \in S, c \in Calls :
        /\ StopById(c, p)
        /\ sweep' = [sweep EXCEPT ![s] =
                        [sw EXCEPT !.pc = IF S = {p} THEN "applied" ELSE loop,
                                   !.todo = S \ {p}, !.call = c,
                                   !.stopped = IF loop = "maintenance"
                                               THEN @ \cup {p} ELSE @]]

\* One turn of a loop over the snapshot S: stopProcess(p.id) is called and
\* awaited.  listActive yields insertion order, here any order.
StopNext(s, sw, loop, S) ==
    \E p \in S, c \in Calls :
        /\ StopById(c, p)
        /\ sweep' = [sweep EXCEPT ![s] =
                        [sw EXCEPT !.pc = loop, !.todo = S \ {p}, !.call = c,
                                   !.stopped = IF loop = "maintenance"
                                               THEN @ \cup {p} ELSE @]]

Finish(s, sw) ==
    /\ sweep' = [sweep EXCEPT ![s] =
                    [sw EXCEPT !.pc = "applied", !.todo = {}, !.call = None]]
    /\ UNCHANGED vars

\* The second loop runs over every active process when the window is open.
Maintenance(s, sw) ==
    LET S == IF PayloadWindow(sw.shape, sw.window) THEN Listed ELSE {}
    IN  \/ S # {} /\ StopNext(s, sw, "maintenance", S)
        \/ S = {} /\ Finish(s, sw)

\* The synchronous part of applyGovernance, up to its first await.
Begin(s, shape, B, m) ==
    /\ sweep[s].pc = "idle"
    /\ LET sw == [IdleSweep EXCEPT !.shape = shape, !.asked = B, !.window = m,
                                   !.before = {p \in Procs : origin[p] # None}]
           S  == {p \in Listed : Workspace(p) \in PayloadBlocked(shape, B)}
       IN  \/ S # {} /\ StopNext(s, sw, "blocked", S)
           \/ S = {} /\ Maintenance(s, sw)

\* The awaited stopProcess has returned or thrown: the loop goes on.
Resume(s) ==
    /\ sweep[s].pc \in {"blocked", "maintenance"}
    /\ call[sweep[s].call].pc = "done"
    /\ \/ sweep[s].todo # {} /\ StopNext(s, sweep[s], sweep[s].pc, sweep[s].todo)
       \/ /\ sweep[s].todo = {} /\ sweep[s].pc = "blocked"
          /\ Maintenance(s, sweep[s])
       \/ /\ sweep[s].todo = {} /\ sweep[s].pc = "maintenance"
          /\ Finish(s, sweep[s])

ConfigLoaded(s, B, m)  == Begin(s, "lists", B, m)
ConfigUpdated(s, B, m) == Begin(s, "keyvalue", B, m)
ApplyCurrentGovernance(s, B, m) == Begin(s, "lists", B, m)

RNext ==
    \/ Next /\ UNCHANGED sweep
    \/ \E s \in Sweeps :
        \/ \E B \in SUBSET Workspaces, m \in BOOLEAN :
            \/ ConfigLoaded(s, B, m)
            \/ ConfigUpdated(s, B, m)
            \/ ApplyCurrentGovernance(s, B, m)
        \/ Resume(s)

RSpec == RInit /\ [][RNext]_rvars

-----------------------------------------------------------------------------
(* Properties *)

\* Sweeps stay within their type.
SweepTypeOK == sweep \in [Sweeps -> SweepRecord]

\* Process objects a sweep's payload covers.
Covered(s, p) ==
    \/ Workspace(p) \in PayloadBlocked(sweep[s].shape, sweep[s].asked)
    \/ PayloadWindow(sweep[s].shape, sweep[s].window)

\* When a sweep is over, no process that existed when it began and that its
\* payload covers is still listed, whatever else was started, stopped or
\* replaced while it awaited: the ones it does not find any more have left for
\* good.
SweepClears ==
    \A s \in Sweeps : sweep[s].pc = "applied" =>
        \A p \in sweep[s].before : Covered(s, p) => p \notin Listed

\* A covered process that existed when the sweep began can escape being cleaned
\* up only as an orphan of the process manager: reset, or lost to a removal
\* that ran twice.
EscapeNeedsOrphan ==
    \A s \in Sweeps : sweep[s].pc = "applied" =>
        \A p \in sweep[s].before : Covered(s, p) =>
            CleanedUp(p) \/ p \in discarded \/ RemovedTwice(origin[p])

\* tests/governance.reactive.test.ts: once setBlockedWorkspacesKV has notified
\* the runtime, the non-critical processes of the workspace are stopped.
BlockUpdateStopsNonCritical ==
    \A s \in Sweeps :
        sweep[s].pc = "applied" /\ sweep[s].shape = "keyvalue" =>
            \A p \in sweep[s].before :
                /\ Workspace(p) \in sweep[s].asked
                /\ Criticality[origin[p][2]] = "non-critical"
                => p \notin Listed

=============================================================================
