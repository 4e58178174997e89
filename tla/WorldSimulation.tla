--------------------------- MODULE WorldSimulation ---------------------------
(***************************************************************************)
(* sim/world_simulation_engine: the runtime that steps the physics engine, *)
(* the entities and the event simulator, and run_until.  Everything is     *)
(* synchronous; behaviors of entities, subscribers of events and step      *)
(* callbacks are user code that may call the operations of the other parts *)
(* in the middle of a step.  They do not step the runtime themselves.      *)
(* Time is counted in timesteps; positions and velocities are left out.    *)
(***************************************************************************)
EXTENDS Naturals, Sequences, FiniteSets, SequencesExt

CONSTANTS
    Entities,         \* uuids of entities
    Objects,          \* PhysicsObject objects
    Transitions,      \* pairs of states that state machines of entities allow
    Behaviors,        \* bound: behaviors of an entity
    MaxCascadeDepth,  \* max_cascade_depth
    Affected,         \* numbers of affected entities of an event
    Priorities,       \* priorities of created events
    MaxEvents,        \* bound: events created by users
    MaxSteps,         \* bound: steps begun
    MaxForces,        \* bound: forces applied to one object
    MaxRestores       \* bound: checkpoints restored

SimulationState == {"stopped", "paused", "running"}   \* STEPPING is never set
EntityState ==
    {"inactive", "initializing", "active", "executing", "transitioning", "suspended", "destroyed"}
EventPriority == 0 .. 3
Low == 3

ASSUME SimulationAssumption ==
    /\ Transitions \subseteq EntityState \X EntityState
    /\ Affected \subseteq Nat /\ Priorities \subseteq EventPriority
    /\ {Behaviors, MaxCascadeDepth, MaxSteps, MaxForces} \subseteq Nat

VARIABLES
    state,       \* SimulationState
    simTime,     \* simulation_time
    steps,       \* total_steps
    checkpoints, \* the checkpoints
    target,      \* argument of the run_until in progress, 0 if there is none
    objects,     \* PhysicsEngine.objects
    forces,      \* of each object: permanent and timed forces
    physTime,    \* PhysicsEngine.time
    entities,    \* EntityManager.entities
    active,      \* active_entities
    entityState, \* WorldEntity.state, also of objects that the manager has dropped
    behaviors,   \* number of behaviors of each entity
    destroyed,   \* history: ids that were destroyed
    ev,          \* the events ever queued, in the order of their creation
    queue,       \* event_queue: places in ev
    log,         \* event_log
    depth,       \* cascade_depth
    pc,          \* where the step in progress is; "idle" if there is none
    todo,        \* entities still to update in this step
    current,     \* entity or event under way, with the behaviors it has left, 0 if none is
    aborted,     \* history: steps left by an exception
    lost,        \* history: events popped and not logged
    restores     \* history: checkpoints restored

runtime == <<state, simTime, steps, checkpoints, target, restores>>
physics == <<objects, forces, physTime>>
world == <<entities, active, entityState, behaviors, destroyed>>
events == <<ev, queue, log, depth, lost>>
control == <<pc, todo, current, aborted>>
vars == <<runtime, physics, world, events, control>>

\* batch: the number of the sort that placed the event.
SimulationEvent ==
    [priority : EventPriority, cascade : BOOLEAN, affected : Nat, parent : Nat, batch : Nat]
\* Its states of world and entities are never read.
SimulationCheckpoint == [timestamp : Nat]
Forces == [permanent : Nat, timed : Nat]

NoTurn == [id |-> 0, left |-> 0]
Busy == current.left > 0

PhysicsInit == objects = {} /\ forces = [o \in Objects |-> [permanent |-> 0, timed |-> 0]] /\ physTime = 0

EntitiesInit ==
    /\ entities = {} /\ active = {} /\ destroyed = {}
    /\ entityState = [e \in Entities |-> "inactive"] /\ behaviors = [e \in Entities |-> 0]

EventsInit == ev = <<>> /\ queue = <<>> /\ log = <<>> /\ depth = 0 /\ lost = {}

Init ==
    /\ state = "stopped" /\ simTime = 0 /\ steps = 0 /\ checkpoints = {} /\ target = 0 /\ restores = 0
    /\ PhysicsInit /\ EntitiesInit /\ EventsInit
    /\ pc = "idle" /\ todo = {} /\ current = NoTurn /\ aborted = 0

\* User code runs between steps and inside behaviors, subscribers and callbacks.
MayCall ==
    \/ pc = "idle" /\ target = 0
    \/ pc \in {"entities", "events"} /\ Busy
    \/ pc = "callbacks"

-----------------------------------------------------------------------------
(* SimulationRuntime: operations of users *)

\* start, pause, resume, stop
SetState(from, to) ==
    /\ MayCall /\ state \in from
    /\ state' = to
    /\ UNCHANGED <<simTime, steps, checkpoints, target, restores, physics, world, events, control>>

CreateCheckpoint ==
    /\ MayCall
    /\ checkpoints' = checkpoints \cup {[timestamp |-> simTime]}
    /\ UNCHANGED <<state, simTime, steps, target, restores, physics, world, events, control>>

\* Only the time is restored.
RestoreCheckpoint(c) ==
    /\ MayCall /\ restores < MaxRestores
    /\ c \in checkpoints
    /\ simTime' = c.timestamp
    /\ restores' = restores + 1
    /\ UNCHANGED <<state, steps, checkpoints, target, physics, world, events, control>>

\* run_until starts a stopped simulation.
RunUntil(t) ==
    /\ pc = "idle" /\ target = 0
    /\ target' = t
    /\ state' = IF state = "stopped" THEN "running" ELSE state
    /\ UNCHANGED <<simTime, steps, checkpoints, restores, physics, world, events, control>>

-----------------------------------------------------------------------------
(* PhysicsEngine *)

\* Every call gives the object gravity once more, as a force without a duration.
AddObject(o) ==
    /\ MayCall /\ forces[o].permanent + forces[o].timed < MaxForces
    /\ objects' = objects \cup {o}
    /\ forces' = [forces EXCEPT ![o].permanent = @ + 1]
    /\ UNCHANGED <<physTime, runtime, world, events, control>>

RemoveObject(o) ==
    /\ MayCall /\ o \in objects
    /\ objects' = objects \ {o}
    /\ UNCHANGED <<forces, physTime, runtime, world, events, control>>

\* A force of duration 0 stays for ever, like gravity.
ApplyForce(o, duration) ==
    /\ MayCall /\ forces[o].permanent + forces[o].timed < MaxForces
    /\ forces' = IF duration = 0 THEN [forces EXCEPT ![o].permanent = @ + 1]
                 ELSE [forces EXCEPT ![o].timed = @ + 1]
    /\ UNCHANGED <<objects, physTime, runtime, world, events, control>>

\* Permanent forces are kept, some of the timed ones have expired on the wall clock.
Stepped(f, left) == [f EXCEPT !.timed = left]

\* PhysicsEngine.step; motion and collisions are left out.
StepPhysics ==
    /\ \E left \in [objects -> 0 .. MaxForces] :
          /\ \A o \in objects : left[o] <= forces[o].timed
          /\ forces' = [o \in Objects |->
                           IF o \in objects THEN Stepped(forces[o], left[o]) ELSE forces[o]]
    /\ physTime' = physTime + 1
    /\ UNCHANGED objects

-----------------------------------------------------------------------------
(* EntityManager *)

CreateEntity(e) ==
    /\ MayCall /\ e \notin entities \cup destroyed
    /\ entities' = entities \cup {e}
    /\ UNCHANGED <<active, entityState, behaviors, destroyed, runtime, physics, events, control>>

AddBehavior(e) ==
    /\ MayCall /\ e \in entities /\ behaviors[e] < Behaviors
    /\ behaviors' = [behaviors EXCEPT ![e] = @ + 1]
    /\ UNCHANGED <<entities, active, entityState, destroyed, runtime, physics, events, control>>

\* Neither the manager nor its active entities hear of a transition.
TransitionTo(e, new) ==
    /\ MayCall /\ e \in entities \cup destroyed
    /\ <<entityState[e], new>> \in Transitions
    /\ entityState' = [entityState EXCEPT ![e] = new]
    /\ UNCHANGED <<entities, active, behaviors, destroyed, runtime, physics, events, control>>

\* Slip: a destroyed entity stays among the active ones.
Deactivated_Kept(e) == active
Deactivated(e) == active \ {e}

DestroyEntity(e) ==
    /\ MayCall /\ e \in entities
    /\ entities' = entities \ {e}
    /\ active' = Deactivated(e)
    /\ entityState' = [entityState EXCEPT ![e] = "destroyed"]
    /\ destroyed' = destroyed \cup {e}
    /\ UNCHANGED <<behaviors, runtime, physics, events, control>>

ActivateEntity(e) ==
    /\ MayCall /\ e \in entities
    /\ active' = active \cup {e}
    /\ entityState' = [entityState EXCEPT ![e] = "active"]
    /\ UNCHANGED <<entities, behaviors, destroyed, runtime, physics, events, control>>

-----------------------------------------------------------------------------
(* EventSimulator *)

CreateEvent(priority, cascade, affected) ==
    /\ MayCall /\ Len(ev) < MaxEvents
    /\ ev' = Append(ev, [priority |-> priority, cascade |-> cascade, affected |-> affected, parent |-> 0, batch |-> 0])
    /\ queue' = Append(queue, Len(ev'))
    /\ UNCHANGED <<log, depth, lost, runtime, physics, world, control>>

\* Slip: the events are processed as they were queued.
ByPriority_Unsorted == queue

\* The sort is stable: places of the queue that go before another.
Before(k) ==
    {j \in DOMAIN queue : \/ ev[queue[j]].priority < ev[queue[k]].priority
                          \/ ev[queue[j]].priority = ev[queue[k]].priority /\ j < k}

\* The queue sorted by priority.
ByPriority ==
    [n \in DOMAIN queue |-> queue[CHOOSE k \in DOMAIN queue : Cardinality(Before(k)) = n - 1]]

Cascades(i) == ev[i].cascade /\ depth < MaxCascadeDepth

\* A LOW event has no lower priority to give to the first of its children.
CascadeRaises(i) == Cascades(i) /\ ev[i].affected > 0 /\ ev[i].priority = Low

Children(i) ==
    IF Cascades(i)
    THEN [k \in 1 .. ev[i].affected |->
            [priority |-> ev[i].priority + 1, cascade |-> FALSE, affected |-> ev[i].affected, parent |-> i, batch |-> 0]]
    ELSE <<>>

-----------------------------------------------------------------------------
(* A step *)

Resting == /\ todo' = {} /\ current' = NoTurn /\ pc' = "idle"

\* An exception leaves step, and run_until with it.
Aborts ==
    /\ Resting /\ aborted' = aborted + 1
    /\ target' = 0
    /\ UNCHANGED <<state, simTime, steps, checkpoints, restores>>

\* step is refused only to a stopped simulation, run_until goes on only if running.
StepBegins ==
    /\ pc = "idle" /\ physTime < MaxSteps
    /\ IF target = 0 THEN state # "stopped" ELSE state = "running" /\ simTime < target
    /\ StepPhysics
    /\ pc' = "entities" /\ todo' = active
    /\ UNCHANGED <<runtime, world, events, current, aborted>>

\* Entities destroyed since the step began are passed over.
EntityTurn ==
    /\ pc = "entities" /\ ~ Busy
    /\ \E e \in todo :
          /\ todo' = todo \ {e}
          /\ current' = IF e \in entities THEN [id |-> e, left |-> behaviors[e]] ELSE NoTurn
    /\ UNCHANGED <<pc, aborted, runtime, physics, world, events>>

\* A behavior ran, failed or was skipped: the next follows even if the entity has
\* been destroyed.
BehaviorEnds ==
    /\ pc = "entities" /\ Busy
    /\ current' = IF current.left > 1 THEN [current EXCEPT !.left = @ - 1] ELSE NoTurn
    /\ UNCHANGED <<pc, todo, aborted, runtime, physics, world, events>>

\* Exceptions of actions are caught, those of conditions are not.
ConditionRaises ==
    /\ pc = "entities" /\ Busy
    /\ Aborts
    /\ UNCHANGED <<physics, world, events>>

\* process_events sorts the queue once.
EventsBegin ==
    /\ pc = "entities" /\ ~ Busy /\ todo = {}
    /\ pc' = "events"
    /\ queue' = ByPriority
    /\ ev' = [i \in DOMAIN ev |-> IF Contains(queue, i) THEN [ev[i] EXCEPT !.batch = physTime] ELSE ev[i]]
    /\ UNCHANGED <<log, depth, lost, runtime, physics, world, todo, current, aborted>>

EventTurn ==
    /\ pc = "events" /\ ~ Busy /\ queue # <<>>
    /\ current' = [id |-> Head(queue), left |-> 1]
    /\ queue' = Tail(queue)
    /\ UNCHANGED <<ev, log, depth, lost, pc, todo, aborted, runtime, physics, world>>

Logged(i) == log' = Append(log, i)

\* The subscribers are done; the children join the queue unsorted.
EventEnds ==
    /\ pc = "events" /\ Busy /\ ~ CascadeRaises(current.id)
    /\ ev' = ev \o Children(current.id)
    /\ queue' = queue \o [k \in DOMAIN Children(current.id) |-> Len(ev) + k]
    /\ Logged(current.id)
    /\ current' = NoTurn
    /\ UNCHANGED <<depth, lost, pc, todo, aborted, runtime, physics, world>>

\* Slip: a cascade that fails gives its depth back.
DepthAfterRaise_Restored == depth
\* The depth was incremented and is not decremented.
DepthAfterRaise == depth + 1

EventRaises ==
    /\ pc = "events" /\ Busy /\ CascadeRaises(current.id)
    /\ depth' = DepthAfterRaise
    /\ lost' = lost \cup {current.id}
    /\ Aborts
    /\ UNCHANGED <<ev, queue, log, physics, world>>

EventsEnd ==
    /\ pc = "events" /\ ~ Busy /\ queue = <<>>
    /\ simTime' = simTime + 1 /\ steps' = steps + 1
    /\ pc' = "callbacks"
    /\ UNCHANGED <<state, checkpoints, target, restores, todo, current, aborted, physics, world, events>>

StepEnds ==
    /\ pc = "callbacks"
    /\ pc' = "idle"
    /\ UNCHANGED <<todo, current, aborted, runtime, physics, world, events>>

\* Slip: run_until also waits for a paused simulation to be resumed.
LoopDone_Waits == simTime >= target \/ state = "stopped"
LoopDone == simTime >= target \/ state # "running"

RunUntilReturns ==
    /\ pc = "idle" /\ target # 0 /\ LoopDone
    /\ target' = 0
    /\ UNCHANGED <<state, simTime, steps, checkpoints, restores, physics, world, events, control>>

-----------------------------------------------------------------------------

Step ==
    \/ StepBegins \/ EntityTurn \/ BehaviorEnds \/ EventsBegin \/ EventTurn
    \/ EventEnds \/ EventRaises \/ EventsEnd \/ StepEnds \/ RunUntilReturns

Control ==
    \/ SetState({"stopped"}, "running") \/ SetState({"running"}, "paused")
    \/ SetState({"paused"}, "running") \/ SetState({"running", "paused", "stopped"}, "stopped")
    \/ CreateCheckpoint
    \/ \E c \in checkpoints : RestoreCheckpoint(c)
    \/ \E t \in 1 .. MaxSteps : RunUntil(t)

ActOnObjects ==
    \E o \in Objects :
        \/ AddObject(o) \/ RemoveObject(o)
        \/ \E duration \in 0 .. 1 : ApplyForce(o, duration)

ActOnEntities ==
    \/ \E e \in Entities : CreateEntity(e) \/ DestroyEntity(e) \/ ActivateEntity(e) \/ AddBehavior(e)
          \/ \E new \in {t[2] : t \in Transitions} : TransitionTo(e, new)
    \/ ConditionRaises

ActOnEvents ==
    \E p \in Priorities, cascade \in BOOLEAN, n \in Affected : CreateEvent(p, cascade, n)

Next == Step \/ Control \/ ActOnObjects \/ ActOnEntities \/ ActOnEvents

\* A step under way goes on: user code returns, and only a begun run_until begins steps.
Progress == Step /\ (pc = "idle" => target # 0)

Spec == Init /\ [][Next]_vars /\ WF_vars(Progress)

-----------------------------------------------------------------------------
(* Properties *)

TypeOK ==
    /\ state \in SimulationState
    /\ simTime \in Nat /\ steps \in Nat /\ target \in Nat /\ restores \in Nat
    /\ checkpoints \subseteq SimulationCheckpoint
    /\ objects \subseteq Objects /\ forces \in [Objects -> Forces] /\ physTime \in Nat
    /\ entityState \in [Entities -> EntityState] /\ behaviors \in [Entities -> 0 .. Behaviors]
    /\ ev \in Seq(SimulationEvent) /\ queue \in Seq(DOMAIN ev) /\ log \in Seq(DOMAIN ev)
    /\ depth \in 0 .. MaxCascadeDepth
    /\ pc \in {"idle", "entities", "events", "callbacks"}
    /\ todo \subseteq Entities /\ lost \subseteq DOMAIN ev

\* Entities are created, destroyed and activated by their own and other entities'
\* behaviors, in the middle of an update: none is active that does not exist or was
\* destroyed, and a destroyed one never comes back.
ActiveExists == active \subseteq entities /\ entities \cap destroyed = {}

\* Every step advances the physics, and the runtime's clocks only if no exception
\* left it: the two fall apart by the aborted steps and no further, however often a
\* simulation is paused, stopped or run.
ClocksAgree ==
    /\ physTime = steps + aborted + (IF pc \in {"entities", "events"} THEN 1 ELSE 0)
    /\ restores = 0 => simTime = steps

\* event_history has the events that users created, not those of cascades.
Known(i) == ev[i].parent = 0

\* get_event_causal_chain: from an event back to the one nobody caused, as far as the
\* events are known.
CausalChain[i \in 0 .. Len(ev)] ==
    IF i = 0 THEN <<>> ELSE IF ~ Known(i) THEN <<>> ELSE Append(CausalChain[ev[i].parent], i)

\* get_event_cascade_tree: the events under an event, each with an empty tree.
CascadeTree(i) == IF Known(i) THEN {j \in DOMAIN ev : ev[j].parent = i} ELSE {}

\* Cascades end by themselves: only an event of a user has caused others, one for each
\* affected entity or none at all, never a part of them.  What the simulator tells of
\* the causes of an event ends at the event itself.
CascadesAreShallow ==
    \A i \in DOMAIN ev :
        /\ \A j \in DOMAIN ev : ev[j].parent = i => Known(i)
        /\ Cardinality(CascadeTree(i)) \in {0, ev[i].affected}
        /\ Len(CausalChain[i]) <= 1

SimulationInv == TypeOK /\ ActiveExists /\ ClocksAgree /\ CascadesAreShallow

Occurrences(i) ==
    Cardinality({k \in DOMAIN queue : queue[k] = i}) + Cardinality({k \in DOMAIN log : log[k] = i})
    + (IF i \in lost THEN 1 ELSE 0)
    + (IF pc = "events" /\ Busy /\ current.id = i THEN 1 ELSE 0)

\* Events created inside and outside of steps and by cascades are each waiting, under
\* way or logged, exactly once; only those whose cascade raised are lost, and each of
\* these takes one level of cascade depth away for good.
EventsAccounted ==
    /\ \A i \in DOMAIN ev : Occurrences(i) = 1
    /\ depth = Cardinality(lost)

\* Of the events that were waiting when a batch began, none is logged before one of a
\* higher priority.
NoInversion ==
    \A j, k \in DOMAIN log :
        j < k /\ ev[log[j]].batch = ev[log[k]].batch /\ ev[log[j]].batch > 0
            => ev[log[j]].priority <= ev[log[k]].priority

\* run_until returns: paused, stopped, past its time or by an exception, unless the
\* bound on steps was met, which stands for callbacks that restore checkpoints for
\* ever.
RunEnds == (target # 0) ~> (target = 0 \/ physTime = MaxSteps)

=============================================================================
