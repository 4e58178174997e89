---------------------------- MODULE MCConsensus ----------------------------
(***************************************************************************)
(* The parts of governance/global_consensus_protocol share no state, so    *)
(* they are explored one at a time: a behaviour picks the part under check *)
(* and the others stay in their initial states.                            *)
(***************************************************************************)
EXTENDS HierarchicalBFT, TLC

CONSTANTS Levels, ConsensusNodes, Ids, Validators, RequiredValidators, MaxVotes, MaxQueue

VARIABLES under, tierNodes, opened, activeRounds, results, proposals, queue, identities, validators

Tally == INSTANCE ConsensusTally
ASSUME TallyAssumption == Tally!ConstantsOK

tally == <<tierNodes, opened, activeRounds, results, proposals, queue, identities, validators>>

MCInit ==
    /\ Init /\ Tally!Init
    /\ under \in {"nodes", "rounds", "proposals", "identities"}

MCNext ==
    /\ UNCHANGED under
    /\ \/ under = "nodes" /\ Next /\ UNCHANGED tally
       \/ under = "rounds" /\ Tally!Coordinate /\ UNCHANGED vars
       \/ under = "proposals" /\ Tally!Propose /\ UNCHANGED vars
       \/ under = "identities" /\ Tally!Verify /\ UNCHANGED vars

MCSpec == MCInit /\ [][MCNext]_<<under, vars, tally>>

Symmetry == Permutations(Senders \ Nodes) \cup Permutations(Proposals)

\* The properties of ConsensusTally, and the type invariants with the strengthened
\* invariant of the nodes.
ConsensusInv == BFTInv /\ Tally!TypeOK
OneResultPerRound == Tally!OneResultPerRound
VerifiedFollowsVotes == Tally!VerifiedFollowsVotes
=============================================================================
