--------------------------- MODULE HierarchicalBFT ---------------------------
(***************************************************************************)
(* governance/global_consensus_protocol/hierarchical_bft.py: the nodes of  *)
(* one tier and the rounds run over them.  Nothing in the repository       *)
(* carries messages between nodes: whoever embeds a node calls its         *)
(* handlers, in any order, with messages of any sender, so every call of a *)
(* handler is possible at every time.  A round calls them itself.          *)
(***************************************************************************)
EXTENDS Integers, Sequences, FiniteSets

CONSTANTS
    Nodes,            \* BFTNode objects of the rounds
    Primary,          \* the node with role PRIMARY
    Senders,          \* ids named as senders of messages
    Views,
    SequenceNumbers,
    Proposals,
    FaultTolerance,   \* fault_tolerance of every node
    MaxCalls          \* bound: calls of handlers and rounds in one behaviour

ASSUME NodesAssumption ==
    /\ IsFiniteSet(Senders) /\ Nodes \subseteq Senders /\ Primary \in Nodes
    /\ FaultTolerance \in Nat /\ MaxCalls \in Nat
    /\ Views \subseteq Int /\ SequenceNumbers \subseteq Int
    /\ 0 \in SequenceNumbers

VARIABLES
    node,    \* state of each node
    rounds,  \* executed BFTConsensusRound objects
    calls    \* calls so far

vars == <<node, rounds, calls>>

\* The keys f"{view}:{sequence}" of the message tables.
Slots == Views \X SequenceNumbers

\* The PREPARE messages of a node, which the caller is to send on.
BFTMessage == [slot : Slots, payload : Proposals]

\* prepares, commits: senders heard of each slot; sent: the PREPARE messages.
BFTNode ==
    [prepares  : [Slots -> SUBSET Senders],
     commits   : [Slots -> SUBSET Senders],
     pending   : Seq(Proposals),
     committed : Seq(Proposals),
     sent      : Seq(BFTMessage)]

BFTConsensusRound == [proposal : Proposals, outcome : BOOLEAN]

Init ==
    /\ node = [n \in Nodes |->
                  [prepares |-> [s \in Slots |-> {}], commits |-> [s \in Slots |-> {}],
                   pending |-> <<>>, committed |-> <<>>, sent |-> <<>>]]
    /\ rounds = {}
    /\ calls = 0

-----------------------------------------------------------------------------
(* Handlers of one node: from its state before the call to its state after *)

\* view_number and the watermarks are never assigned after __init__.
Stale(view) == view < 0
InWatermarks(sequence) == sequence >= 0 /\ sequence <= 1000

\* Slip: f + 1 commits are enough.
Quorum_TooSmall == FaultTolerance + 1
Quorum == 2 * FaultTolerance + 1

OnPrePrepare(x, slot, p) ==
    IF Stale(slot[1]) \/ ~ InWatermarks(slot[2]) THEN x
    ELSE [x EXCEPT !.pending = Append(@, p),
                   !.sent = Append(@, [slot |-> slot, payload |-> p])]

OnPrepare(x, slot, sender) ==
    IF Stale(slot[1]) \/ ~ InWatermarks(slot[2]) THEN x
    ELSE [x EXCEPT !.prepares[slot] = @ \cup {sender}]

\* Slip: the latest pending proposal is committed.
CommitFirst_Latest(x) ==
    IF x.pending = <<>> THEN x
    ELSE [x EXCEPT !.committed = Append(@, x.pending[Len(x.pending)]),
                   !.pending = SubSeq(@, 1, Len(@) - 1)]

\* The first pending proposal is committed, whatever slot it was proposed for.
CommitFirst(x) ==
    IF x.pending = <<>> THEN x
    ELSE [x EXCEPT !.committed = Append(@, Head(x.pending)), !.pending = Tail(@)]

\* Sequence numbers outside the watermarks are accepted here.
OnCommit(x, slot, sender) ==
    IF Stale(slot[1]) THEN x
    ELSE LET y == [x EXCEPT !.commits[slot] = @ \cup {sender}]
         IN  IF Cardinality(y.commits[slot]) >= Quorum THEN CommitFirst(y) ELSE y

-----------------------------------------------------------------------------
(* Calls *)

Counted == calls < MaxCalls /\ calls' = calls + 1

PrePrepare(n, slot, p) ==
    /\ Counted
    /\ node' = [node EXCEPT ![n] = OnPrePrepare(@, slot, p)]
    /\ UNCHANGED rounds

Prepare(n, slot, sender) ==
    /\ Counted
    /\ node' = [node EXCEPT ![n] = OnPrepare(@, slot, sender)]
    /\ UNCHANGED rounds

Commit(n, slot, sender) ==
    /\ Counted
    /\ node' = [node EXCEPT ![n] = OnCommit(@, slot, sender)]
    /\ UNCHANGED rounds

NodeRole(n) == IF n = Primary THEN "primary" ELSE "backup"

\* What the three phases of a round do to one node.
AfterRound(n, slot, p) ==
    LET proposed == IF NodeRole(n) = "primary" THEN node[n] ELSE OnPrePrepare(node[n], slot, p)
    IN  OnCommit(OnPrepare(proposed, slot, Primary), slot, n)

\* Nodes that must have committed for the outcome to be TRUE.
Required == Cardinality(Nodes) - Cardinality(Nodes) \div 3

\* Slip: a proposal that is still pending counts.
Committers_OrPending(nodes, p) ==
    {n \in Nodes : LET all == nodes[n].committed \o nodes[n].pending
                   IN  \E i \in DOMAIN all : all[i] = p}

Committers(nodes, p) ==
    {n \in Nodes : \E i \in DOMAIN nodes[n].committed : nodes[n].committed[i] = p}

ExecuteRound(view, p) ==
    /\ Counted
    /\ node' = [n \in Nodes |-> AfterRound(n, <<view, 0>>, p)]
    /\ rounds' = rounds \cup
         {[proposal |-> p, outcome |-> Cardinality(Committers(node', p)) >= Required]}

Next ==
    \/ \E n \in Nodes, slot \in Slots, p \in Proposals : PrePrepare(n, slot, p)
    \/ \E n \in Nodes, slot \in Slots, s \in Senders : Prepare(n, slot, s)
    \/ \E n \in Nodes, slot \in Slots, s \in Senders : Commit(n, slot, s)
    \/ \E view \in Views, p \in Proposals : ExecuteRound(view, p)

Spec == Init /\ [][Next]_vars

-----------------------------------------------------------------------------
(* Properties *)

TypeOK ==
    /\ node \in [Nodes -> BFTNode]
    /\ rounds \in SUBSET BFTConsensusRound
    /\ calls \in 0 .. MaxCalls

\* A node that has committed anything heard more than 2f senders commit to one
\* slot, however its handlers were called (on_commit).
CommitNeedsQuorum ==
    \A n \in Nodes : node[n].committed # <<>> =>
        \E slot \in Slots : Cardinality(node[n].commits[slot]) > 2 * FaultTolerance

\* Nothing is lost, invented or overtaken: the committed proposals followed by the
\* pending ones are the payloads of the PREPARE messages the node sent, in order.
CommittedInOrder ==
    \A n \in Nodes :
        LET x == node[n] IN
        x.committed \o x.pending = [i \in DOMAIN x.sent |-> x.sent[i].payload]

\* execute_round never reaches a positive outcome by itself when a fault is to be
\* tolerated: it tells every node of its own commit only, so a decided round needs
\* nodes that heard others commit.
RoundNeedsOthers ==
    FaultTolerance > 0 =>
        \A r \in rounds : r.outcome =>
            \E n \in Nodes, slot \in Slots : node[n].commits[slot] \ {n} # {}

BFTInv == TypeOK /\ CommitNeedsQuorum

\* Every pre-prepare accepted for a slot carried the same proposal.
PrimaryConsistent ==
    \A m, n \in Nodes : \A i \in DOMAIN node[m].sent, j \in DOMAIN node[n].sent :
        node[m].sent[i].slot = node[n].sent[j].slot =>
            node[m].sent[i].payload = node[n].sent[j].payload

\* What README.md promises of the protocol: under a primary that does not
\* equivocate, the first proposal committed is the same at every node.
Agreement ==
    PrimaryConsistent =>
        \A m, n \in Nodes :
            (node[m].committed # <<>> /\ node[n].committed # <<>>) =>
                Head(node[m].committed) = Head(node[n].committed)

=============================================================================
