------------------------------- MODULE MCMesh -------------------------------
(***************************************************************************)
(* Domains, their mesh and their lifecycle, and the channels between them. *)
(* The mesh reads the world id of the registry and the lifecycle manager   *)
(* the registrations; the two do not meet, and channels know neither.      *)
(* Each is explored with as many domains as it can tell apart, and the     *)
(* registry alone with three.                                              *)
(***************************************************************************)
EXTENDS DomainMesh, TLC

CONSTANTS
    d1, d2, d3,
    Channels, Capacity, MaxInFlight, MaxSends, MaxInbound  \* InterDomainChannels

VARIABLES under, pairOf, channelMesh, chan

\* One domain with a channel to each of two others.
TwoPairs == {<<d1, d2>>, <<d1, d3>>}

Between == INSTANCE InterDomainChannels WITH Pairs <- TwoPairs, mesh <- channelMesh

ASSUME ChannelAssumption == Between!ConstantsOK

channelVars == <<pairOf, channelMesh, chan>>

MCInit == Init /\ Between!Init /\ under \in {"registry", "mesh", "lifecycle", "channels"}

MCNext ==
    /\ UNCHANGED under
    /\ \/ /\ \/ under = "registry" /\ Registry
             \/ under = "mesh" /\ (Mesh \/ (Registry /\ issued' \subseteq {d1}))
             \/ under = "lifecycle" /\ (Lifecycle \/ (Registry /\ issued' \subseteq {d1, d2}))
          /\ UNCHANGED channelVars
       \/ under = "channels" /\ Between!Next /\ UNCHANGED vars

MCSpec == MCInit /\ [][MCNext]_<<under, vars, channelVars>>

\* Two ways around a triangle, one of them longer.
Triangle == {<<d1, d2>>, <<d1, d3>>, <<d2, d3>>, <<d3, d2>>}

Symmetry == Permutations(Channels)

-----------------------------------------------------------------------------

\* The inductive invariants of the registry and of the channels, and that no domain is
\* left initializing by itself.
MeshInv == RegistryInv /\ InitializingIsUnderWay /\ Between!ChannelInv

\* See InterDomainChannels.
AckedWasFlushed == Between!AckedWasFlushed
\* See InterDomainChannels.
FlushedInOrder == Between!FlushedInOrder
=============================================================================
