--------------------------- MODULE ConsensusTally ---------------------------
(***************************************************************************)
(* governance/global_consensus_protocol: consensus_coordinator.py, which   *)
(* keeps a round open until somebody hands it the votes counted elsewhere, *)
(* world_governance_protocol.py, the proposals, and                        *)
(* world_identity_consensus.py, the identities that validators verify.     *)
(* They share no state.  Ids are uuids: a fresh one at each creation.      *)
(***************************************************************************)
EXTENDS Integers, Sequences, FiniteSets

CONSTANTS
    Levels,              \* TieredConsensusLevel
    ConsensusNodes,      \* ids registered at a level
    Ids,                 \* uuids: of rounds, proposals and identities
    Validators,
    RequiredValidators,  \* required_validators
    MaxVotes,            \* bound: votes of each kind given to finalize_consensus
    MaxQueue             \* bound: submissions of proposals

ConstantsOK == RequiredValidators \in Int /\ MaxVotes \in Nat

VARIABLES
    tierNodes,    \* tier_consensus_nodes
    opened,       \* history: ids of the rounds initiated
    activeRounds, \* active_rounds: id -> TieredConsensusRound
    results,      \* completed_results
    proposals,    \* GovernanceProposalEngine.proposals: id -> GovernanceProposal
    queue,        \* proposal_queue
    identities,   \* id -> DistributedIdentity
    validators    \* IdentityConsensusValidator.validators, which nobody reads

coordinator == <<tierNodes, opened, activeRounds, results>>
engine == <<proposals, queue>>
verification == <<identities, validators>>
vars == <<coordinator, engine, verification>>

ProposalStatus == {"draft", "submitted"}     \* no other is ever set
IdentityStatus == {"pending", "verified"}   \* no other is ever set

\* The set of participants of a round is the set of its level, not a copy of it.
TieredConsensusRound == [level : Levels, proposal : Ids]
ConsensusResult ==
    [level : Levels, proposal : Ids, approved : BOOLEAN, for : Nat, total : Nat]
\* Its votes are never counted.
GovernanceProposal == [status : ProposalStatus]
DistributedIdentity ==
    [status : IdentityStatus, votes : UNION {[V -> BOOLEAN] : V \in SUBSET Validators}]

Init ==
    /\ tierNodes = [l \in Levels |-> {}]
    /\ opened = {}
    /\ activeRounds = [i \in {} |-> {}]
    /\ results = <<>>
    /\ proposals = [i \in {} |-> {}]
    /\ queue = <<>>
    /\ identities = [i \in {} |-> {}] /\ validators = {}

Put(f, k, v) == [x \in DOMAIN f \cup {k} |-> IF x = k THEN v ELSE f[x]]
Drop(f, k) == [x \in DOMAIN f \ {k} |-> f[x]]

-----------------------------------------------------------------------------
(* WorldConsensusCoordinator *)

RegisterConsensusNode(l, n) ==
    /\ tierNodes' = [tierNodes EXCEPT ![l] = @ \cup {n}]
    /\ UNCHANGED <<opened, activeRounds, results, engine, verification>>

\* Rounds are not told apart by proposal: one may be decided several times.
InitiateConsensus(id, p, l) ==
    /\ id \notin opened
    /\ opened' = opened \cup {id}
    /\ activeRounds' = Put(activeRounds, id, [level |-> l, proposal |-> p])
    /\ UNCHANGED <<tierNodes, results, engine, verification>>

\* required_threshold 0.67: two votes of three are not enough.
MeetsThreshold(for, total) == 100 * for >= 67 * total

\* Slip: the round stays open.
Closed_Kept(id) == activeRounds
Closed(id) == Drop(activeRounds, id)

\* The votes are not compared with the participants; a round handed no vote at
\* all stays open.
FinalizeConsensus(id, for, against, abstain) ==
    LET total == for + against + abstain IN
    /\ id \in DOMAIN activeRounds /\ total # 0
    /\ results' = Append(results,
                    [level |-> activeRounds[id].level, proposal |-> activeRounds[id].proposal,
                     approved |-> MeetsThreshold(for, total), for |-> for, total |-> total])
    /\ activeRounds' = Closed(id)
    /\ UNCHANGED <<tierNodes, opened, engine, verification>>

-----------------------------------------------------------------------------
(* GovernanceProposalEngine *)

CreateProposal(id) ==
    /\ id \notin DOMAIN proposals
    /\ proposals' = Put(proposals, id, [status |-> "draft"])
    /\ UNCHANGED <<coordinator, queue, verification>>

\* A proposal may be submitted again, and is then queued again.
SubmitProposal(id) ==
    /\ id \in DOMAIN proposals /\ Len(queue) < MaxQueue
    /\ proposals' = [proposals EXCEPT ![id].status = "submitted"]
    /\ queue' = Append(queue, id)
    /\ UNCHANGED <<coordinator, verification>>

-----------------------------------------------------------------------------
(* IdentityConsensusValidator *)

RegisterIdentity(id) ==
    /\ id \notin DOMAIN identities
    /\ identities' = Put(identities, id, [status |-> "pending", votes |-> [v \in {} |-> TRUE]])
    /\ UNCHANGED <<coordinator, engine, validators>>

RegisterValidator(v) ==
    /\ validators' = validators \cup {v}
    /\ UNCHANGED <<coordinator, engine, identities>>

\* Slip: more than two thirds are asked for.
Supported_Strict(votes) ==
    /\ Cardinality(DOMAIN votes) >= RequiredValidators
    /\ 3 * Cardinality({v \in DOMAIN votes : votes[v]}) > 2 * Cardinality(DOMAIN votes)

Supported(votes) ==
    /\ Cardinality(DOMAIN votes) >= RequiredValidators
    /\ 3 * Cardinality({v \in DOMAIN votes : votes[v]}) >= 2 * Cardinality(DOMAIN votes)

\* Whether the validator is registered is not asked.  A validator may vote again;
\* no vote takes the status away.
SubmitVerification(id, validator, verified) ==
    /\ id \in DOMAIN identities
    /\ LET votes == Put(identities[id].votes, validator, verified) IN
       identities' = [identities EXCEPT ![id] =
           [status |-> IF Supported(votes) THEN "verified" ELSE @.status, votes |-> votes]]
    /\ UNCHANGED <<coordinator, engine, validators>>

-----------------------------------------------------------------------------

Coordinate ==
    \/ \E l \in Levels, n \in ConsensusNodes : RegisterConsensusNode(l, n)
    \/ \E id, p \in Ids, l \in Levels : InitiateConsensus(id, p, l)
    \/ \E id \in Ids, for, against, abstain \in 0 .. MaxVotes :
          FinalizeConsensus(id, for, against, abstain)

Propose == \E id \in Ids : CreateProposal(id) \/ SubmitProposal(id)

Verify ==
    \/ \E id \in Ids : RegisterIdentity(id)
    \/ \E v \in Validators : RegisterValidator(v)
    \/ \E id \in Ids, v \in Validators, verified \in BOOLEAN : SubmitVerification(id, v, verified)

Next == Coordinate \/ Propose \/ Verify

Spec == Init /\ [][Next]_vars

-----------------------------------------------------------------------------
(* Properties *)

TypeOK ==
    /\ tierNodes \in [Levels -> SUBSET ConsensusNodes]
    /\ opened \subseteq Ids
    /\ DOMAIN activeRounds \subseteq opened
    /\ \A id \in DOMAIN activeRounds : activeRounds[id] \in TieredConsensusRound
    /\ results \in Seq(ConsensusResult)
    /\ DOMAIN proposals \subseteq Ids
    /\ \A id \in DOMAIN proposals : proposals[id] \in GovernanceProposal
    /\ queue \in Seq(DOMAIN proposals)
    /\ DOMAIN identities \subseteq Ids /\ validators \subseteq Validators
    /\ \A id \in DOMAIN identities : identities[id] \in DistributedIdentity

\* A round is decided at most once, however often and with whatever votes it is
\* finalized: those initiated are active or have one result each.
OneResultPerRound ==
    Cardinality(opened) = Cardinality(DOMAIN activeRounds) + Len(results)

\* Validators may change their votes, in any order: an identity is verified whenever
\* two thirds of enough votes support it, and never before enough have voted.  (Where
\* none are required, the first vote is what makes the code look.)
VerifiedFollowsVotes ==
    \A id \in DOMAIN identities :
        LET votes == identities[id].votes
            cast == Cardinality(DOMAIN votes)
            verified == identities[id].status = "verified"
        IN  /\ verified => cast >= RequiredValidators
            /\ cast > 0 /\ cast >= RequiredValidators /\ ~ verified =>
                 3 * Cardinality({v \in DOMAIN votes : ~ votes[v]}) > cast

=============================================================================
