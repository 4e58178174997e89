------------------------- MODULE PhysicsCollisions -------------------------
(***************************************************************************)
(* The collisions of PhysicsEngine.step: every pair of objects is checked  *)
(* once, in the order of the list, and the velocities of a colliding pair  *)
(* are exchanged by mass and damped by the elasticity of each object, so   *)
(* that later pairs see what earlier ones left.  Quantities are integers   *)
(* on one axis; the program's are floats in three dimensions, whose axes   *)
(* do not mix here and whose rounding is left out.  To stay exact every    *)
(* velocity is kept times a common scale.                                  *)
(***************************************************************************)
EXTENDS Integers, Sequences, FiniteSetsExt

CONSTANTS
    Count,      \* number of objects
    Masses,
    Positions,
    Radii,
    Velocities,
    Unit,       \* what stands for an elasticity of 1
    Elasticities

ConstantsOK ==
    /\ Unit \in Nat \ {0} /\ Elasticities \subseteq 0 .. Unit
    /\ Masses \subseteq Nat \ {0} /\ Velocities \subseteq Int /\ Count \in Nat \ {0, 1}

VARIABLES
    objects,  \* objects_list
    velocity, \* velocity of each, times scale
    scale,
    pair,     \* the pair to check next
    began     \* history: velocities before the step

vars == <<objects, velocity, scale, pair, began>>

Places == 1 .. Count
PhysicsObject == [mass : Masses, position : Positions, radius : Radii, elasticity : Elasticities]

\* The pairs of an object with those behind it in the list.
Done == <<Count, Count + 1>>
After(p) ==
    IF p[2] < Count THEN <<p[1], p[2] + 1>>
    ELSE IF p[1] + 1 < Count THEN <<p[1] + 1, p[1] + 2>> ELSE Done

Init ==
    /\ objects \in [Places -> PhysicsObject]
    /\ velocity \in [Places -> Velocities] /\ began = velocity
    /\ scale = 1 /\ pair = <<1, 2>>

Collides(a, b) ==
    LET d == b.position - a.position
        r == a.radius + b.radius
    IN  d * d < r * r

\* Slip: the masses are not exchanged.
Exchanged_OwnMass(m1, m2, v1, v2) == v1 * (m1 - m2) + v2 * 2 * m1
\* The new velocity of the first of two objects, times the sum of their masses.
Exchanged(m1, m2, v1, v2) == v1 * (m1 - m2) + v2 * 2 * m2

\* The velocities of a pair after its collision, times Unit and the sum of masses.
Resolved(a, b, v1, v2) ==
    <<Exchanged(a.mass, b.mass, v1, v2) * a.elasticity, Exchanged(b.mass, a.mass, v2, v1) * b.elasticity>>

CheckPair ==
    LET i == pair[1]
        j == pair[2]
        factor == Unit * (objects[i].mass + objects[j].mass)
        new == Resolved(objects[i], objects[j], velocity[i], velocity[j])
    IN  /\ pair # Done
        /\ pair' = After(pair)
        /\ IF Collides(objects[i], objects[j])
           THEN /\ velocity' = [k \in Places |->
                                  CASE k = i -> new[1] [] k = j -> new[2] [] OTHER -> velocity[k] * factor]
                /\ scale' = scale * factor
           ELSE UNCHANGED <<velocity, scale>>
        /\ UNCHANGED <<objects, began>>

Spec == Init /\ [][CheckPair]_vars

-----------------------------------------------------------------------------

Momentum(v) == MapThenSumSet(LAMBDA k : objects[k].mass * v[k], Places)
Energy(v) == MapThenSumSet(LAMBDA k : objects[k].mass * v[k] * v[k], Places)

\* Whatever objects collide with each other and in which order the pairs are resolved,
\* a step gains no energy; and if all are fully elastic the momentum and the energy of
\* the world are the same as before.
NoEnergyGained ==
    /\ Energy(velocity) <= Energy(began) * scale * scale
    /\ (\A k \in Places : objects[k].elasticity = Unit) =>
          /\ Momentum(velocity) = Momentum(began) * scale
          /\ Energy(velocity) = Energy(began) * scale * scale

=============================================================================
