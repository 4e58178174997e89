------------------------- MODULE MCWorldSimulation -------------------------
(***************************************************************************)
(* The parts of a step meet only in the runtime: entities, events and the  *)
(* physics with the runtime's own operations are varied one at a time.     *)
(* The collisions of one step of the physics engine, whose positions and   *)
(* velocities WorldSimulation leaves out, and the integrator of cognition, *)
(* which no other part calls, have state of their own.                     *)
(***************************************************************************)
EXTENDS WorldSimulation

CONSTANTS
    Count, Masses, Positions, Radii, Velocities, Unit, Elasticities,
    Agents, Topics, MaxFeedback, MaxRounds

VARIABLES
    under,
    colliding, velocity, scale, pair, began,
    agents, observations, feedbackQueue, feedback, model, sent, emergence, processed, registered, round

Collisions == INSTANCE PhysicsCollisions WITH objects <- colliding
Cognition == INSTANCE CognitionIntegration

ASSUME CollisionsAssumption == Collisions!ConstantsOK
ASSUME CognitionAssumption == Cognition!ConstantsOK

collisionVars == <<colliding, velocity, scale, pair, began>>
cognitionVars == <<agents, observations, feedbackQueue, feedback, model, sent, emergence, processed, registered, round>>

Lightest == [mass |-> 1, position |-> 0, radius |-> 1, elasticity |-> 1]

\* The objects differ only where collisions are explored.
Alike == \A k \in 1 .. Count : colliding[k] = Lightest /\ velocity[k] = 0

MCInit ==
    /\ under \in {"entities", "events", "control", "collisions", "cognition"}
    /\ Init /\ Cognition!Init /\ Collisions!Init
    /\ under # "collisions" => Alike

\* A few operations on the runtime go with each part.
Simulating ==
    /\ under \in {"entities", "events", "control"}
    /\ \/ Step
       \/ under = "entities" /\ (ActOnEntities \/ SetState({"stopped"}, "running"))
       \/ under = "events" /\ (ActOnEvents \/ SetState({"stopped"}, "running"))
       \/ under = "control" /\ (Control \/ ActOnObjects)
    /\ UNCHANGED <<collisionVars, cognitionVars>>

MCNext ==
    /\ UNCHANGED under
    /\ \/ Simulating
       \/ under = "collisions" /\ Collisions!CheckPair /\ UNCHANGED <<vars, cognitionVars>>
       \/ under = "cognition" /\ Cognition!Next /\ UNCHANGED <<vars, collisionVars>>

\* The state machines of the entities; nothing keeps one from ending in "destroyed".
Machine == {<<"active", "suspended">>, <<"suspended", "active">>, <<"suspended", "destroyed">>}

MCVars == <<under, vars, collisionVars, cognitionVars>>
MCSpec == MCInit /\ [][MCNext]_MCVars /\ WF_vars(Progress)

-----------------------------------------------------------------------------

\* The types of all parts, and what the state of the simulation is beside them.
RuntimeInv == SimulationInv /\ Cognition!TypeOK

\* See CognitionIntegration.
LearnsTheLatest == Cognition!LearnsTheLatest

\* See PhysicsCollisions.
NoEnergyGained == Collisions!NoEnergyGained
=============================================================================
