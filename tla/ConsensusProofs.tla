---------------------------- MODULE ConsensusProofs ----------------------------
(***************************************************************************)
(* Proofs about HierarchicalBFT and ConsensusTally, for any nodes,         *)
(* senders, slots, validators and number of faults.  The invariant of the  *)
(* protocol is about one node at a time: a record of a node that satisfies *)
(* NodeOK still does after every handler, whatever its arguments.  That a  *)
(* round needs others then follows from the commit quorum, which a node    *)
(* cannot reach alone, and from what a node heard never being forgotten.   *)
(* Rounds and identities of the tally are counted one by one: finalizing   *)
(* moves a round from the active ones to the results, and a vote is        *)
(* counted against the votes cast on its identity before and after.        *)
(***************************************************************************)
EXTENDS MCConsensus, TLAPS, FiniteSetTheorems, SequenceTheorems

Payloads(messages) == [i \in DOMAIN messages |-> messages[i].payload]

\* CommittedInOrder for one node.
InOrder(x) == x.committed \o x.pending = Payloads(x.sent)

QuorumBehind(x) ==
    x.committed # <<>> =>
        \E slot \in Slots : Cardinality(x.commits[slot]) > 2 * FaultTolerance

NodeOK(x) == x \in BFTNode /\ InOrder(x) /\ QuorumBehind(x)

\* What y heard includes what x heard.
HeardMore(x, y) == \A slot \in Slots : x.commits[slot] \subseteq y.commits[slot]

-----------------------------------------------------------------------------
(* Sequences *)

LEMMA PayloadsAppend ==
    ASSUME NEW messages \in Seq(BFTMessage), NEW m \in BFTMessage
    PROVE  Payloads(Append(messages, m)) = Append(Payloads(messages), m.payload)
<1>1. ASSUME NEW q \in Seq(BFTMessage)
      PROVE  /\ Payloads(q) \in Seq(Proposals) /\ Len(Payloads(q)) = Len(q)
             /\ \A i \in 1 .. Len(q) : Payloads(q)[i] = q[i].payload
    <2>1. DOMAIN q = 1 .. Len(q) /\ Len(q) \in Nat /\ \A i \in 1 .. Len(q) : q[i] \in BFTMessage
        BY <1>1
    <2>2. \A i \in 1 .. Len(q) : q[i].payload \in Proposals
        BY <2>1 DEF BFTMessage
    <2>3. Payloads(q) \in [1 .. Len(q) -> Proposals]
        BY <2>1, <2>2 DEF Payloads
    <2>4. \A i \in 1 .. Len(q) : Payloads(q)[i] = q[i].payload
        BY <2>1 DEF Payloads
    <2> QED
        BY <2>1, <2>3, <2>4
<1> DEFINE longer == Append(messages, m)
<1>2. longer \in Seq(BFTMessage) /\ Len(longer) = Len(messages) + 1
      /\ longer[Len(messages) + 1] = m /\ Len(messages) \in Nat
      /\ \A i \in 1 .. Len(messages) : longer[i] = messages[i]
    BY AppendProperties
<1>3. m.payload \in Proposals
    BY DEF BFTMessage
<1> HIDE DEF longer
<1>4. /\ Append(Payloads(messages), m.payload) \in Seq(Proposals)
      /\ Len(Append(Payloads(messages), m.payload)) = Len(messages) + 1
      /\ \A i \in 1 .. Len(messages) :
             Append(Payloads(messages), m.payload)[i] = messages[i].payload
      /\ Append(Payloads(messages), m.payload)[Len(messages) + 1] = m.payload
    <2>1. /\ Payloads(messages) \in Seq(Proposals) /\ Len(Payloads(messages)) = Len(messages)
          /\ \A i \in 1 .. Len(messages) : Payloads(messages)[i] = messages[i].payload
        BY <1>1
    <2> QED
        BY <1>3, <2>1, AppendProperties
<1>5. Payloads(longer) \in Seq(Proposals) /\ Len(Payloads(longer)) = Len(messages) + 1
    BY <1>1, <1>2
<1>6. ASSUME NEW i \in 1 .. Len(messages) + 1
      PROVE  Payloads(longer)[i] = Append(Payloads(messages), m.payload)[i]
    <2>1. Payloads(longer)[i] = longer[i].payload
        BY <1>1, <1>2
    <2>2. i \in 1 .. Len(messages) \/ i = Len(messages) + 1
        BY <1>2
    <2> QED
        BY <1>2, <1>4, <2>1, <2>2
<1>7. Payloads(longer) = Append(Payloads(messages), m.payload)
    BY <1>4, <1>5, <1>6, SeqEqual
<1> QED
    BY <1>7 DEF longer

LEMMA ConcatAppend ==
    ASSUME NEW s \in Seq(Proposals), NEW t \in Seq(Proposals), NEW p \in Proposals
    PROVE  s \o Append(t, p) = Append(s \o t, p)
<1>1. <<p>> \in Seq(Proposals) /\ s \o t \in Seq(Proposals)
    BY ConcatProperties
<1>2. Append(t, p) = t \o <<p>> /\ Append(s \o t, p) = (s \o t) \o <<p>>
    BY <1>1, AppendIsConcat
<1> QED
    BY <1>1, <1>2, ConcatAssociative

LEMMA ConcatMove ==
    ASSUME NEW S, NEW s \in Seq(S), NEW t \in Seq(S), t # <<>>
    PROVE  Append(s, Head(t)) \o Tail(t) = s \o t
<1>1. Head(t) \in S /\ Tail(t) \in Seq(S) /\ <<Head(t)>> \in Seq(S) /\ Len(t) \in Nat \ {0}
    BY HeadTailProperties
<1>2. t = <<Head(t)>> \o Tail(t)
    <2>1. <<Head(t)>> \o Tail(t) \in Seq(S)
          /\ Len(<<Head(t)>> \o Tail(t)) = Len(t)
          /\ \A i \in 1 .. Len(t) :
                 (<<Head(t)>> \o Tail(t))[i] = IF i <= 1 THEN Head(t) ELSE Tail(t)[i - 1]
        BY <1>1, ConcatProperties, HeadTailProperties
    <2>2. \A i \in 1 .. Len(t) : t[i] = IF i <= 1 THEN Head(t) ELSE Tail(t)[i - 1]
        BY <1>1, HeadTailProperties
    <2> QED
        BY <2>1, <2>2, SeqEqual
<1>3. Append(s, Head(t)) = s \o <<Head(t)>>
    BY <1>1, AppendIsConcat
<1>4. (s \o <<Head(t)>>) \o Tail(t) = s \o (<<Head(t)>> \o Tail(t))
    BY <1>1, ConcatAssociative
<1> QED
    BY <1>2, <1>3, <1>4

-----------------------------------------------------------------------------
(* The handlers *)

\* A larger set of senders has no fewer members.
LEMMA Counting ==
    ASSUME NEW S \in SUBSET Senders, NEW T \in SUBSET Senders, S \subseteq T
    PROVE  /\ Cardinality(S) \in Nat /\ Cardinality(T) \in Nat
           /\ Cardinality(S) <= Cardinality(T)
<1>1. IsFiniteSet(T)
    BY NodesAssumption, FS_Subset
<1>2. IsFiniteSet(S)
    BY NodesAssumption, FS_Subset
<1> QED
    BY <1>1, <1>2, FS_Subset, FS_CardinalityType

LEMMA PrePrepareKeeps ==
    ASSUME NEW x, NodeOK(x), NEW slot \in Slots, NEW p \in Proposals
    PROVE  NodeOK(OnPrePrepare(x, slot, p)) /\ HeardMore(x, OnPrePrepare(x, slot, p))
<1> DEFINE y == [x EXCEPT !.pending = Append(@, p),
                          !.sent = Append(@, [slot |-> slot, payload |-> p])]
<1>1. /\ x \in BFTNode
      /\ x.pending \in Seq(Proposals) /\ x.committed \in Seq(Proposals)
      /\ x.sent \in Seq(BFTMessage) /\ [slot |-> slot, payload |-> p] \in BFTMessage
    BY DEF NodeOK, BFTNode, BFTMessage
<1>2. /\ y.pending = Append(x.pending, p) /\ y.committed = x.committed
      /\ y.sent = Append(x.sent, [slot |-> slot, payload |-> p]) /\ y.commits = x.commits
    BY <1>1 DEF BFTNode
<1>3. y \in BFTNode
    <2> DEFINE pending == Append(x.pending, p)
               sent == Append(x.sent, [slot |-> slot, payload |-> p])
    <2>1. pending \in Seq(Proposals) /\ sent \in Seq(BFTMessage)
        BY <1>1
    <2>2. y = [x EXCEPT !.pending = pending, !.sent = sent]
        BY <1>1 DEF BFTNode
    <2> HIDE DEF y, pending, sent
    <2> QED
        BY <1>1, <2>1, <2>2 DEF BFTNode
<1>4. InOrder(y)
    <2> HIDE DEF y
    <2> DEFINE m == [slot |-> slot, payload |-> p]
    <2>1. m \in BFTMessage /\ m.payload = p
        BY <1>1
    <2>2. y.committed \o y.pending = Append(x.committed \o x.pending, p)
        <3>1. x.committed \in Seq(Proposals) /\ x.pending \in Seq(Proposals)
            BY <1>1
        <3>2. x.committed \o Append(x.pending, p) = Append(x.committed \o x.pending, p)
            BY <3>1, ConcatAppend
        <3> QED
            BY <1>2, <3>2
    <2>3. Payloads(y.sent) = Append(Payloads(x.sent), p)
        BY <1>1, <1>2, <2>1, PayloadsAppend
    <2> QED
        BY <2>2, <2>3 DEF NodeOK, InOrder
<1>5. QuorumBehind(y)
    BY <1>2 DEF NodeOK, QuorumBehind
<1>6. HeardMore(x, y) /\ HeardMore(x, x)
    BY <1>2 DEF HeardMore
<1> QED
    BY <1>3, <1>4, <1>5, <1>6 DEF OnPrePrepare, NodeOK

LEMMA PrepareKeeps ==
    ASSUME NEW x, NodeOK(x), NEW slot \in Slots, NEW s \in Senders
    PROVE  NodeOK(OnPrepare(x, slot, s)) /\ HeardMore(x, OnPrepare(x, slot, s))
<1> DEFINE y == [x EXCEPT !.prepares[slot] = @ \cup {s}]
<1>1. x \in BFTNode
    BY DEF NodeOK
<1>2. /\ y.pending = x.pending /\ y.committed = x.committed
      /\ y.sent = x.sent /\ y.commits = x.commits
    BY <1>1 DEF BFTNode
<1>3. y \in BFTNode
    BY <1>1 DEF BFTNode
<1>4. InOrder(y) /\ QuorumBehind(y) /\ HeardMore(x, y) /\ HeardMore(x, x)
    BY <1>2 DEF NodeOK, InOrder, QuorumBehind, HeardMore
<1> QED
    BY <1>3, <1>4 DEF OnPrepare, NodeOK

\* Moving the first pending proposal keeps the order of all of them.
LEMMA CommitFirstKeeps ==
    ASSUME NEW x \in BFTNode, InOrder(x)
    PROVE  /\ CommitFirst(x) \in BFTNode /\ InOrder(CommitFirst(x))
           /\ CommitFirst(x).commits = x.commits
<1> SUFFICES ASSUME x.pending # <<>>
             PROVE  /\ CommitFirst(x) \in BFTNode /\ InOrder(CommitFirst(x))
                    /\ CommitFirst(x).commits = x.commits
    BY DEF CommitFirst
<1> DEFINE y == CommitFirst(x)
<1>1. /\ x.pending \in Seq(Proposals) /\ x.committed \in Seq(Proposals)
      /\ x.sent \in Seq(BFTMessage)
    BY DEF BFTNode
<1>2. /\ Head(x.pending) \in Proposals /\ Tail(x.pending) \in Seq(Proposals)
      /\ Head(x.pending) = x.pending[1]
    BY <1>1
<1>3. /\ y.pending = Tail(x.pending) /\ y.committed = Append(x.committed, Head(x.pending))
      /\ y.sent = x.sent /\ y.commits = x.commits
    BY DEF CommitFirst, BFTNode
<1>4. y \in BFTNode
    <2> DEFINE committed == Append(x.committed, Head(x.pending))
               pending == Tail(x.pending)
    <2>1. pending \in Seq(Proposals) /\ committed \in Seq(Proposals)
        BY <1>1, <1>2
    <2>2. y = [x EXCEPT !.committed = committed, !.pending = pending]
        BY DEF CommitFirst, BFTNode
    <2> HIDE DEF y, pending, committed
    <2> QED
        BY <2>1, <2>2 DEF BFTNode
<1> HIDE DEF y
<1>7. InOrder(y)
    <2>1. y.committed \o y.pending = x.committed \o x.pending
        BY <1>1, <1>3, ConcatMove
    <2> QED
        BY <1>3, <2>1 DEF InOrder
<1> QED
    BY <1>3, <1>4, <1>7 DEF y

LEMMA CommitKeeps ==
    ASSUME NEW x, NodeOK(x), NEW slot \in Slots, NEW s \in Senders
    PROVE  NodeOK(OnCommit(x, slot, s)) /\ HeardMore(x, OnCommit(x, slot, s))
<1> DEFINE y == [x EXCEPT !.commits[slot] = @ \cup {s}]
<1>1. x \in BFTNode /\ InOrder(x) /\ QuorumBehind(x)
    BY DEF NodeOK
<1>2. /\ y.pending = x.pending /\ y.committed = x.committed /\ y.sent = x.sent
      /\ y.commits = [x.commits EXCEPT ![slot] = @ \cup {s}]
    BY <1>1 DEF BFTNode
<1>3. y \in BFTNode
    BY <1>1 DEF BFTNode
<1>4. InOrder(y)
    BY <1>1, <1>2 DEF InOrder
<1>5. HeardMore(x, y)
    BY <1>1, <1>2 DEF BFTNode, HeardMore
<1> HIDE DEF y
<1>6. QuorumBehind(y)
    <2> SUFFICES ASSUME x.committed # <<>>
                 PROVE  \E t \in Slots : Cardinality(y.commits[t]) > 2 * FaultTolerance
        BY <1>2 DEF QuorumBehind
    <2>1. PICK t \in Slots : Cardinality(x.commits[t]) > 2 * FaultTolerance
        BY <1>1 DEF QuorumBehind
    <2>2. x.commits[t] \in SUBSET Senders /\ y.commits[t] \in SUBSET Senders
        BY <1>1, <1>3 DEF BFTNode
    <2>3. Cardinality(x.commits[t]) <= Cardinality(y.commits[t])
        BY <1>5, <2>2, Counting DEF HeardMore
    <2> QED
        BY <2>1, <2>2, <2>3, Counting, NodesAssumption
<1>7. NodeOK(y)
    BY <1>3, <1>4, <1>6 DEF NodeOK
<1>8. CASE Cardinality(y.commits[slot]) >= Quorum
    <2>1. /\ CommitFirst(y) \in BFTNode /\ InOrder(CommitFirst(y))
          /\ CommitFirst(y).commits = y.commits
        BY <1>3, <1>4, CommitFirstKeeps
    <2>2. y.commits[slot] \in SUBSET Senders
        BY <1>3 DEF BFTNode
    <2>3. Cardinality(y.commits[slot]) > 2 * FaultTolerance
        BY <1>8, <2>2, Counting, NodesAssumption DEF Quorum
    <2>4. NodeOK(CommitFirst(y)) /\ HeardMore(x, CommitFirst(y))
        BY <1>5, <2>1, <2>3 DEF NodeOK, QuorumBehind, HeardMore
    <2> QED
        BY <1>1, <1>8, <2>4 DEF OnCommit, y, NodeOK, HeardMore
<1>9. CASE ~ (Cardinality(y.commits[slot]) >= Quorum)
    BY <1>1, <1>5, <1>7, <1>9 DEF OnCommit, y, NodeOK, HeardMore
<1> QED
    BY <1>8, <1>9

LEMMA HeardMoreTransitive ==
    ASSUME NEW x, NEW y, NEW z, HeardMore(x, y), HeardMore(y, z) PROVE HeardMore(x, z)
    BY DEF HeardMore

\* The three phases of a round are three handlers, one after the other.
LEMMA RoundKeeps ==
    ASSUME NEW n \in Nodes, NodeOK(node[n]), NEW slot \in Slots, NEW p \in Proposals
    PROVE  NodeOK(AfterRound(n, slot, p)) /\ HeardMore(node[n], AfterRound(n, slot, p))
<1> DEFINE x == IF NodeRole(n) = "primary" THEN node[n] ELSE OnPrePrepare(node[n], slot, p)
           y == OnPrepare(x, slot, Primary)
<1>1. n \in Senders /\ Primary \in Senders
    BY NodesAssumption
<1>2. NodeOK(x) /\ HeardMore(node[n], x)
    BY PrePrepareKeeps DEF HeardMore
<1> HIDE DEF x
<1>3. NodeOK(y) /\ HeardMore(x, y)
    BY <1>1, <1>2, PrepareKeeps
<1> HIDE DEF y
<1>4. NodeOK(OnCommit(y, slot, n)) /\ HeardMore(y, OnCommit(y, slot, n))
    BY <1>1, <1>3, CommitKeeps
<1> QED
    BY <1>2, <1>3, <1>4, HeardMoreTransitive DEF AfterRound, x, y

-----------------------------------------------------------------------------
(* The inductive invariant *)

NodesOK == DOMAIN node = Nodes /\ node = [n \in Nodes |-> node[n]] /\ \A n \in Nodes : NodeOK(node[n])

Counts == rounds \in SUBSET BFTConsensusRound /\ calls \in 0 .. MaxCalls

IInv == NodesOK /\ Counts /\ RoundNeedsOthers

\* What every step does: each node goes through handlers.
StepKeeps == NodesOK' /\ \A n \in Nodes : HeardMore(node[n], node'[n])

LEMMA InitIInv == Init => IInv
<1> SUFFICES ASSUME Init PROVE IInv
    OBVIOUS
<1>1. ASSUME NEW n \in Nodes PROVE NodeOK(node[n])
    BY DEF Init, NodeOK, BFTNode, InOrder, Payloads, QuorumBehind
<1>2. NodesOK
    <2>1. node = [n \in Nodes |-> node[n]] /\ DOMAIN node = Nodes
        BY DEF Init
    <2> QED
        BY <1>1, <2>1 DEF NodesOK
<1>3. Counts /\ RoundNeedsOthers
    BY NodesAssumption DEF Init, Counts, RoundNeedsOthers
<1> QED
    BY <1>2, <1>3 DEF IInv

LEMMA CallStep ==
    ASSUME NodesOK, NEW n \in Nodes, NEW x, NodeOK(x), HeardMore(node[n], x),
           node' = [node EXCEPT ![n] = x]
    PROVE  StepKeeps
    BY DEF NodesOK, StepKeeps, HeardMore

LEMMA RoundStep ==
    ASSUME NodesOK, NEW view \in Views, NEW p \in Proposals, ExecuteRound(view, p)
    PROVE  StepKeeps
<1>1. <<view, 0>> \in Slots
    BY NodesAssumption DEF Slots
<1>2. node' = [n \in Nodes |-> AfterRound(n, <<view, 0>>, p)]
    BY DEF ExecuteRound
<1>3. ASSUME NEW n \in Nodes
      PROVE  NodeOK(node'[n]) /\ HeardMore(node[n], node'[n])
    BY <1>1, <1>2, RoundKeeps DEF NodesOK
<1> QED
    BY <1>2, <1>3 DEF NodesOK, StepKeeps

\* Where every node heard of its own commit at most, none has committed: a quorum
\* has 2f + 1 members.
LEMMA AloneNothingCommits ==
    ASSUME NEW nodes, \A n \in Nodes : NodeOK(nodes[n]), FaultTolerance > 0,
           \A n \in Nodes, slot \in Slots : nodes[n].commits[slot] \subseteq {n}
    PROVE  \A n \in Nodes : nodes[n].committed = <<>>
<1> SUFFICES ASSUME NEW n \in Nodes, nodes[n].committed # <<>> PROVE FALSE
    OBVIOUS
<1>1. PICK slot \in Slots : Cardinality(nodes[n].commits[slot]) > 2 * FaultTolerance
    BY DEF NodeOK, QuorumBehind
<1>2. nodes[n].commits[slot] \in SUBSET {n} /\ {n} \in SUBSET Senders
      /\ nodes[n].commits[slot] \in SUBSET Senders
    BY NodesAssumption
<1>3. Cardinality(nodes[n].commits[slot]) \in Nat /\ Cardinality(nodes[n].commits[slot]) <= 1
    <2>1. Cardinality({n}) = 1
        BY FS_Singleton
    <2> QED
        BY <1>2, <2>1, Counting
<1> QED
    BY <1>1, <1>3, NodesAssumption

LEMMA SomeNodeRequired == Required \in Int /\ Required > 0
<1>1. IsFiniteSet(Nodes) /\ Nodes # {}
    BY NodesAssumption, FS_Subset
<1>2. Cardinality(Nodes) \in Nat /\ Cardinality(Nodes) # 0
    BY <1>1, FS_CardinalityType, FS_EmptySet
<1> QED
    BY <1>2 DEF Required

LEMMA NoCommitters ==
    ASSUME NEW nodes, \A n \in Nodes : nodes[n].committed = <<>>, NEW p
    PROVE  Cardinality(Committers(nodes, p)) = 0
<1>1. Committers(nodes, p) = {}
    BY DEF Committers
<1> QED
    BY <1>1, FS_EmptySet

\* A round that is decided in this step is decided after what its nodes heard.
LEMMA NewRound ==
    ASSUME NodesOK', NEW p \in Proposals, FaultTolerance > 0,
           Cardinality(Committers(node', p)) >= Required
    PROVE  \E n \in Nodes, slot \in Slots : node'[n].commits[slot] \ {n} # {}
<1> SUFFICES ASSUME \A n \in Nodes, slot \in Slots : node'[n].commits[slot] \subseteq {n}
             PROVE  FALSE
    OBVIOUS
<1>1. \A n \in Nodes : NodeOK(node'[n])
    BY DEF NodesOK
<1>2. \A n \in Nodes : node'[n].committed = <<>>
    BY <1>1, AloneNothingCommits
<1>3. Cardinality(Committers(node', p)) = 0
    BY <1>2, NoCommitters
<1> QED
    BY <1>3, SomeNodeRequired

LEMMA RoundNeedsOthersKept ==
    ASSUME IInv, StepKeeps,
           \A r \in rounds' \ rounds :
               r.outcome => Cardinality(Committers(node', r.proposal)) >= Required,
           rounds' \subseteq BFTConsensusRound
    PROVE  RoundNeedsOthers'
<1> SUFFICES ASSUME FaultTolerance > 0, NEW r \in rounds', r.outcome
             PROVE  \E n \in Nodes, slot \in Slots : node'[n].commits[slot] \ {n} # {}
    BY DEF RoundNeedsOthers
<1>1. CASE r \in rounds
    BY <1>1 DEF IInv, RoundNeedsOthers, StepKeeps, HeardMore
<1>2. CASE r \notin rounds
    <2>1. r.proposal \in Proposals
        BY DEF BFTConsensusRound
    <2> QED
        BY <1>2, <2>1, NewRound DEF StepKeeps
<1> QED
    BY <1>1, <1>2

LEMMA NextIInv == IInv /\ [Next]_vars => IInv'
<1> SUFFICES ASSUME IInv, [Next]_vars PROVE IInv'
    OBVIOUS
<1>1. NodesOK /\ Counts
    BY DEF IInv
<1>2. CASE UNCHANGED vars
    BY <1>2 DEF IInv, vars, NodesOK, Counts, RoundNeedsOthers
<1>3. ASSUME StepKeeps, Counted, rounds' = rounds PROVE IInv'
    <2>1. Counts'
        BY <1>1, <1>3, NodesAssumption DEF Counts, Counted
    <2>2. RoundNeedsOthers'
        BY <1>1, <1>3, RoundNeedsOthersKept DEF Counts
    <2> QED
        BY <1>3, <2>1, <2>2 DEF IInv, StepKeeps
<1>4. CASE \E n \in Nodes, slot \in Slots, p \in Proposals : PrePrepare(n, slot, p)
    <2>1. PICK n \in Nodes, slot \in Slots, p \in Proposals : PrePrepare(n, slot, p)
        BY <1>4
    <2>2. StepKeeps
        BY <1>1, <2>1, PrePrepareKeeps, CallStep DEF PrePrepare, NodesOK
    <2> QED
        BY <1>3, <2>1, <2>2 DEF PrePrepare
<1>5. CASE \E n \in Nodes, slot \in Slots, s \in Senders : Prepare(n, slot, s)
    <2>1. PICK n \in Nodes, slot \in Slots, s \in Senders : Prepare(n, slot, s)
        BY <1>5
    <2>2. StepKeeps
        BY <1>1, <2>1, PrepareKeeps, CallStep DEF Prepare, NodesOK
    <2> QED
        BY <1>3, <2>1, <2>2 DEF Prepare
<1>6. CASE \E n \in Nodes, slot \in Slots, s \in Senders : Commit(n, slot, s)
    <2>1. PICK n \in Nodes, slot \in Slots, s \in Senders : Commit(n, slot, s)
        BY <1>6
    <2>2. StepKeeps
        BY <1>1, <2>1, CommitKeeps, CallStep DEF Commit, NodesOK
    <2> QED
        BY <1>3, <2>1, <2>2 DEF Commit
<1>7. CASE \E view \in Views, p \in Proposals : ExecuteRound(view, p)
    <2>1. PICK view \in Views, p \in Proposals : ExecuteRound(view, p)
        BY <1>7
    <2>2. StepKeeps
        BY <1>1, <2>1, RoundStep
    <2> DEFINE decided == Cardinality(Committers(node', p)) >= Required
    <2>3. rounds' = rounds \cup {[proposal |-> p, outcome |-> decided]} /\ decided \in BOOLEAN
        BY <2>1 DEF ExecuteRound
    <2> HIDE DEF decided
    <2>4. Counts'
        <3>1. rounds' \in SUBSET BFTConsensusRound
            BY <1>1, <2>3 DEF Counts, BFTConsensusRound
        <3>2. calls' \in 0 .. MaxCalls
            BY <1>1, <2>1, NodesAssumption DEF Counts, Counted, ExecuteRound
        <3> QED
            BY <3>1, <3>2 DEF Counts
    <2>5. ASSUME NEW r \in rounds' \ rounds, r.outcome
          PROVE  Cardinality(Committers(node', r.proposal)) >= Required
        <3>1. r = [proposal |-> p, outcome |-> decided]
            BY <2>3
        <3>2. r.proposal = p /\ decided
            BY <2>5, <3>1
        <3> QED
            BY <3>2 DEF decided
    <2>6. RoundNeedsOthers'
        BY <2>2, <2>4, <2>5, RoundNeedsOthersKept DEF Counts
    <2> QED
        BY <2>2, <2>4, <2>6 DEF IInv, StepKeeps
<1> QED
    BY <1>2, <1>4, <1>5, <1>6, <1>7 DEF Next

LEMMA Invariance == Spec => []IInv
    BY InitIInv, NextIInv, PTL DEF Spec

-----------------------------------------------------------------------------

\* on_pre_prepare, on_commit: whatever the order, the number and the senders of the
\* messages a node is told of, its committed proposals followed by the pending ones
\* are what it sent on, in order.
THEOREM OrderKept == Spec => []CommittedInOrder
<1>1. IInv => CommittedInOrder
    BY DEF IInv, NodesOK, NodeOK, InOrder, Payloads, CommittedInOrder
<1> QED
    BY <1>1, Invariance, PTL

\* on_commit: a node that has committed anything heard of more than 2f senders.
THEOREM QuorumBehindCommits == Spec => []BFTInv
<1>1. IInv => BFTInv
    BY DEF IInv, NodesOK, Counts, NodeOK, QuorumBehind, BFTInv, TypeOK, CommitNeedsQuorum
<1> QED
    BY <1>1, Invariance, PTL

\* execute_round: if a fault is to be tolerated, a round alone never decides.
THEOREM RoundsNeedOthers == Spec => []RoundNeedsOthers
<1>1. IInv => RoundNeedsOthers
    BY DEF IInv
<1> QED
    BY <1>1, Invariance, PTL

-----------------------------------------------------------------------------
(* ConsensusTally: rounds, proposals and identities *)

LEMMA TallyCardinality == \A S : Tally!Cardinality(S) = Cardinality(S)
    BY DEF Tally!Cardinality, Cardinality

LEMMA SeqOfMore ==
    ASSUME NEW A, NEW B, A \subseteq B, NEW s \in Seq(A)
    PROVE  s \in Seq(B)
    OBVIOUS

LEMMA TallyInit == Tally!Init => Tally!TypeOK
    BY DEF Tally!Init, Tally!TypeOK

LEMMA CoordinateTyped ==
    ASSUME Tally!TypeOK, Tally!Coordinate
    PROVE  Tally!TypeOK'
<1> USE DEF Tally!TypeOK
<1>1. CASE \E l \in Levels, n \in ConsensusNodes : Tally!RegisterConsensusNode(l, n)
    BY <1>1 DEF Tally!RegisterConsensusNode, Tally!engine, Tally!verification
<1>2. CASE \E id, p \in Ids, l \in Levels : Tally!InitiateConsensus(id, p, l)
    <2>1. PICK id \in Ids, p \in Ids, l \in Levels : Tally!InitiateConsensus(id, p, l)
        BY <1>2
    <2> DEFINE round == [level |-> l, proposal |-> p]
    <2>2. activeRounds' = Tally!Put(activeRounds, id, round)
        BY <2>1 DEF Tally!InitiateConsensus
    <2>3. round \in Tally!TieredConsensusRound
        BY DEF Tally!TieredConsensusRound
    <2> HIDE DEF round
    <2>4. /\ DOMAIN activeRounds' \subseteq opened'
          /\ \A r \in DOMAIN activeRounds' : activeRounds'[r] \in Tally!TieredConsensusRound
        BY <2>1, <2>2, <2>3 DEF Tally!InitiateConsensus, Tally!Put
    <2> QED
        BY <2>1, <2>4 DEF Tally!InitiateConsensus, Tally!engine, Tally!verification
<1>3. CASE \E id \in Ids, for, against, abstain \in 0 .. MaxVotes :
              Tally!FinalizeConsensus(id, for, against, abstain)
    <2>1. PICK id \in Ids, for \in 0 .. MaxVotes, against \in 0 .. MaxVotes,
               abstain \in 0 .. MaxVotes : Tally!FinalizeConsensus(id, for, against, abstain)
        BY <1>3
    <2> DEFINE total == for + against + abstain
               result == [level |-> activeRounds[id].level,
                          proposal |-> activeRounds[id].proposal,
                          approved |-> Tally!MeetsThreshold(for, total),
                          for |-> for, total |-> total]
    <2>2. total \in Nat /\ for \in Nat
        BY TallyAssumption DEF Tally!ConstantsOK
    <2>3. result \in Tally!ConsensusResult
        BY <2>1, <2>2 DEF Tally!FinalizeConsensus, Tally!ConsensusResult,
                          Tally!TieredConsensusRound, Tally!MeetsThreshold
    <2>4. results' = Append(results, result) /\ activeRounds' = Tally!Drop(activeRounds, id)
        BY <2>1 DEF Tally!FinalizeConsensus, Tally!Closed
    <2> HIDE DEF result, total
    <2>5. results' \in Seq(Tally!ConsensusResult)
        BY <2>3, <2>4
    <2> QED
        BY <2>1, <2>4, <2>5
        DEF Tally!FinalizeConsensus, Tally!Drop, Tally!engine, Tally!verification
<1> QED
    BY <1>1, <1>2, <1>3 DEF Tally!Coordinate

LEMMA ProposeTyped ==
    ASSUME Tally!TypeOK, Tally!Propose
    PROVE  Tally!TypeOK'
<1> USE DEF Tally!TypeOK
<1>1. PICK id \in Ids : Tally!CreateProposal(id) \/ Tally!SubmitProposal(id)
    BY DEF Tally!Propose
<1>2. CASE Tally!CreateProposal(id)
    <2>1. /\ DOMAIN proposals' = DOMAIN proposals \cup {id}
          /\ \A i \in DOMAIN proposals' : proposals'[i] \in Tally!GovernanceProposal
        BY <1>2 DEF Tally!CreateProposal, Tally!GovernanceProposal, Tally!ProposalStatus,
                    Tally!Put
    <2>2. queue' \in Seq(DOMAIN proposals')
        BY <1>2, <2>1, SeqOfMore DEF Tally!CreateProposal
    <2> QED
        BY <1>2, <2>1, <2>2 DEF Tally!CreateProposal, Tally!coordinator, Tally!verification
<1>3. CASE Tally!SubmitProposal(id)
    <2>1. /\ DOMAIN proposals' = DOMAIN proposals
          /\ \A i \in DOMAIN proposals' : proposals'[i] \in Tally!GovernanceProposal
        BY <1>3 DEF Tally!SubmitProposal, Tally!GovernanceProposal, Tally!ProposalStatus
    <2>2. queue' \in Seq(DOMAIN proposals')
        BY <1>3, <2>1 DEF Tally!SubmitProposal
    <2> QED
        BY <1>3, <2>1, <2>2 DEF Tally!SubmitProposal, Tally!coordinator, Tally!verification
<1> QED
    BY <1>1, <1>2, <1>3

LEMMA VerifyTyped ==
    ASSUME Tally!TypeOK, Tally!Verify
    PROVE  Tally!TypeOK'
<1> USE DEF Tally!TypeOK
<1> DEFINE Ballots == UNION {[V -> BOOLEAN] : V \in SUBSET Validators}
<1>0. ASSUME NEW V \in SUBSET Validators, NEW f \in [V -> BOOLEAN]
      PROVE  f \in Ballots
    OBVIOUS
<1>1. CASE \E id \in Ids : Tally!RegisterIdentity(id)
    <2>1. PICK id \in Ids : Tally!RegisterIdentity(id)
        BY <1>1
    <2> DEFINE fresh == [status |-> "pending", votes |-> [v \in {} |-> TRUE]]
    <2>2. fresh \in Tally!DistributedIdentity
        <3>1. [v \in {} |-> TRUE] \in Ballots
            <4>1. [v \in {} |-> TRUE] \in [{} -> BOOLEAN]
                OBVIOUS
            <4> QED
                BY <4>1, <1>0
        <3> QED
            BY <3>1 DEF Tally!DistributedIdentity, Tally!IdentityStatus
    <2> HIDE DEF fresh
    <2>3. identities' = Tally!Put(identities, id, fresh)
        BY <2>1 DEF Tally!RegisterIdentity, fresh
    <2> QED
        BY <2>1, <2>2, <2>3
        DEF Tally!RegisterIdentity, Tally!Put, Tally!coordinator, Tally!engine
<1>2. CASE \E v \in Validators : Tally!RegisterValidator(v)
    BY <1>2 DEF Tally!RegisterValidator, Tally!coordinator, Tally!engine
<1>3. CASE \E id \in Ids, v \in Validators, verified \in BOOLEAN :
              Tally!SubmitVerification(id, v, verified)
    <2>1. PICK id \in Ids, v \in Validators, verified \in BOOLEAN :
                  Tally!SubmitVerification(id, v, verified)
        BY <1>3
    <2> DEFINE votes == Tally!Put(identities[id].votes, v, verified)
    <2>2. id \in DOMAIN identities /\ identities[id] \in Tally!DistributedIdentity
        BY <2>1 DEF Tally!SubmitVerification
    <2>3. votes \in Ballots
        <3>1. PICK V \in SUBSET Validators : identities[id].votes \in [V -> BOOLEAN]
            BY <2>2 DEF Tally!DistributedIdentity
        <3>2. votes \in [V \cup {v} -> BOOLEAN]
            BY <3>1 DEF Tally!Put
        <3> QED
            BY <3>2, <1>0
    <2> DEFINE status == IF Tally!Supported(votes) THEN "verified" ELSE identities[id].status
    <2>4. status \in Tally!IdentityStatus
        BY <2>2 DEF Tally!DistributedIdentity, Tally!IdentityStatus
    <2>5. identities' = [identities EXCEPT ![id] = [status |-> status, votes |-> votes]]
        BY <2>1 DEF Tally!SubmitVerification
    <2> HIDE DEF status, votes
    <2>6. [status |-> status, votes |-> votes] \in Tally!DistributedIdentity
        BY <2>3, <2>4 DEF Tally!DistributedIdentity
    <2> QED
        BY <2>1, <2>2, <2>5, <2>6
        DEF Tally!SubmitVerification, Tally!coordinator, Tally!engine
<1> QED
    BY <1>1, <1>2, <1>3 DEF Tally!Verify

LEMMA TallyTyped == Tally!Spec => []Tally!TypeOK
<1>1. Tally!TypeOK /\ [Tally!Next]_(Tally!vars) => Tally!TypeOK'
    <2>1. Tally!TypeOK /\ UNCHANGED Tally!vars => Tally!TypeOK'
        BY DEF Tally!TypeOK, Tally!vars, Tally!coordinator, Tally!engine, Tally!verification
    <2> QED
        BY <2>1, CoordinateTyped, ProposeTyped, VerifyTyped DEF Tally!Next
<1> QED
    BY <1>1, TallyInit, PTL DEF Tally!Spec

-----------------------------------------------------------------------------
(* One result per round *)

RoundsInv == IsFiniteSet(opened) /\ Tally!OneResultPerRound

LEMMA CoordinateKeepsRounds ==
    ASSUME Tally!TypeOK, RoundsInv, Tally!Coordinate
    PROVE  RoundsInv'
<1> USE TallyCardinality DEF RoundsInv, Tally!OneResultPerRound
<1>0. /\ DOMAIN activeRounds \subseteq opened /\ results \in Seq(Tally!ConsensusResult)
      /\ IsFiniteSet(DOMAIN activeRounds)
      /\ Cardinality(DOMAIN activeRounds) \in Nat /\ Cardinality(opened) \in Nat
      /\ Len(results) \in Nat
    BY FS_Subset, FS_CardinalityType DEF Tally!TypeOK
<1>1. CASE \E l \in Levels, n \in ConsensusNodes : Tally!RegisterConsensusNode(l, n)
    BY <1>1 DEF Tally!RegisterConsensusNode
<1>2. CASE \E id, p \in Ids, l \in Levels : Tally!InitiateConsensus(id, p, l)
    <2>1. PICK id \in Ids, p \in Ids, l \in Levels : Tally!InitiateConsensus(id, p, l)
        BY <1>2
    <2>2. /\ id \notin opened /\ opened' = opened \cup {id}
          /\ DOMAIN activeRounds' = DOMAIN activeRounds \cup {id} /\ results' = results
        BY <2>1 DEF Tally!InitiateConsensus, Tally!Put
    <2>3. IsFiniteSet(opened') /\ Cardinality(opened') = Cardinality(opened) + 1
        BY <2>2, FS_AddElement
    <2>4. Cardinality(DOMAIN activeRounds') = Cardinality(DOMAIN activeRounds) + 1
        BY <1>0, <2>2, FS_AddElement
    <2> QED
        BY <1>0, <2>2, <2>3, <2>4
<1>3. CASE \E id \in Ids, for, against, abstain \in 0 .. MaxVotes :
              Tally!FinalizeConsensus(id, for, against, abstain)
    <2>1. PICK id \in Ids, for \in 0 .. MaxVotes, against \in 0 .. MaxVotes,
               abstain \in 0 .. MaxVotes : Tally!FinalizeConsensus(id, for, against, abstain)
        BY <1>3
    <2>2. /\ id \in DOMAIN activeRounds /\ DOMAIN activeRounds' = DOMAIN activeRounds \ {id}
          /\ opened' = opened
        BY <2>1 DEF Tally!FinalizeConsensus, Tally!Closed, Tally!Drop
    <2>3. Len(results') = Len(results) + 1
        BY <1>0, <2>1 DEF Tally!FinalizeConsensus
    <2>4. Cardinality(DOMAIN activeRounds') = Cardinality(DOMAIN activeRounds) - 1
        BY <1>0, <2>2, FS_RemoveElement
    <2> QED
        BY <1>0, <2>2, <2>3, <2>4
<1> QED
    BY <1>1, <1>2, <1>3 DEF Tally!Coordinate

\* initiate_consensus, finalize_consensus: whatever votes a round is finalized with,
\* and however often, it is decided at most once.
THEOREM RoundsDecidedOnce == Tally!Spec => []Tally!OneResultPerRound
<1>1. Tally!Init => RoundsInv
    BY FS_EmptySet, TallyCardinality DEF Tally!Init, RoundsInv, Tally!OneResultPerRound
<1>2. Tally!TypeOK /\ RoundsInv /\ [Tally!Next]_(Tally!vars) => RoundsInv'
    <2>1. (\/ UNCHANGED Tally!vars \/ Tally!Propose \/ Tally!Verify)
             => UNCHANGED <<opened, activeRounds, results>>
        BY DEF Tally!vars, Tally!coordinator, Tally!Propose, Tally!CreateProposal,
               Tally!SubmitProposal, Tally!Verify, Tally!RegisterIdentity,
               Tally!RegisterValidator, Tally!SubmitVerification
    <2>2. RoundsInv /\ UNCHANGED <<opened, activeRounds, results>> => RoundsInv'
        BY DEF RoundsInv, Tally!OneResultPerRound
    <2> QED
        BY <2>1, <2>2, CoordinateKeepsRounds DEF Tally!Next
<1>3. RoundsInv => Tally!OneResultPerRound
    BY DEF RoundsInv
<1> QED
    BY <1>1, <1>2, <1>3, TallyTyped, PTL DEF Tally!Spec

-----------------------------------------------------------------------------
(* Identities *)

\* What VerifiedFollowsVotes says of one identity.
FollowsVotes(identity) ==
    LET votes == identity.votes
        cast == Cardinality(DOMAIN votes)
        verified == identity.status = "verified"
    IN  /\ verified => cast >= RequiredValidators
        /\ cast > 0 /\ cast >= RequiredValidators /\ ~ verified =>
             3 * Cardinality({v \in DOMAIN votes : ~ votes[v]}) > cast

VotesInv == \A id \in DOMAIN identities :
    IsFiniteSet(DOMAIN identities[id].votes) /\ FollowsVotes(identities[id])

LEMMA VotesSplit ==
    ASSUME NEW votes, IsFiniteSet(DOMAIN votes), \A v \in DOMAIN votes : votes[v] \in BOOLEAN
    PROVE  /\ Cardinality({v \in DOMAIN votes : votes[v]}) \in Nat
           /\ Cardinality({v \in DOMAIN votes : ~ votes[v]}) \in Nat
           /\ Cardinality(DOMAIN votes) = Cardinality({v \in DOMAIN votes : votes[v]})
                                          + Cardinality({v \in DOMAIN votes : ~ votes[v]})
<1> DEFINE yes == {v \in DOMAIN votes : votes[v]}
           no == {v \in DOMAIN votes : ~ votes[v]}
<1>1. IsFiniteSet(yes) /\ IsFiniteSet(no)
    BY FS_Subset
<1>2. yes \cup no = DOMAIN votes /\ yes \cap no = {}
    OBVIOUS
<1> HIDE DEF yes, no
<1>3. Cardinality(yes \cup no) = Cardinality(yes) + Cardinality(no) - Cardinality(yes \cap no)
    BY <1>1, FS_Union
<1>4. Cardinality(yes) \in Nat /\ Cardinality(no) \in Nat
    BY <1>1, FS_CardinalityType
<1>5. Cardinality(DOMAIN votes) = Cardinality(yes) + Cardinality(no)
    BY <1>2, <1>3, <1>4, FS_EmptySet
<1> QED
    BY <1>4, <1>5 DEF yes, no

LEMMA VerificationKeeps ==
    ASSUME NEW identity \in Tally!DistributedIdentity,
           IsFiniteSet(DOMAIN identity.votes), FollowsVotes(identity),
           NEW validator, NEW verified \in BOOLEAN
    PROVE  LET votes == Tally!Put(identity.votes, validator, verified) IN
           /\ IsFiniteSet(DOMAIN votes)
           /\ FollowsVotes([status |-> IF Tally!Supported(votes) THEN "verified"
                                       ELSE identity.status, votes |-> votes])
<1> DEFINE before == identity.votes
           votes == Tally!Put(before, validator, verified)
           yes == {v \in DOMAIN votes : votes[v]}
           no == {v \in DOMAIN votes : ~ votes[v]}
<1>1. /\ DOMAIN votes = DOMAIN before \cup {validator}
      /\ \A v \in DOMAIN votes : votes[v] \in BOOLEAN
    BY DEF Tally!Put, Tally!DistributedIdentity
<1>2. /\ IsFiniteSet(DOMAIN votes)
      /\ Cardinality(DOMAIN before) \in Nat /\ Cardinality(DOMAIN votes) \in Nat
      /\ Cardinality(DOMAIN votes) >= Cardinality(DOMAIN before)
    <2>1. IsFiniteSet(DOMAIN before) /\ Cardinality(DOMAIN before) \in Nat
        BY FS_CardinalityType
    <2> HIDE DEF votes, before
    <2>2. IsFiniteSet(DOMAIN votes)
          /\ Cardinality(DOMAIN votes) = IF validator \in DOMAIN before
                THEN Cardinality(DOMAIN before) ELSE Cardinality(DOMAIN before) + 1
        BY <1>1, <2>1, FS_AddElement
    <2> QED
        BY <2>1, <2>2
<1>3. /\ Cardinality(yes) \in Nat /\ Cardinality(no) \in Nat
      /\ Cardinality(DOMAIN votes) = Cardinality(yes) + Cardinality(no)
    BY <1>1, <1>2, VotesSplit
<1>4. Tally!Supported(votes) <=>
        /\ Cardinality(DOMAIN votes) >= RequiredValidators
        /\ 3 * Cardinality(yes) >= 2 * Cardinality(DOMAIN votes)
    BY TallyCardinality DEF Tally!Supported
<1> HIDE DEF yes, no, votes
<1>5. identity.status = "verified" => Cardinality(DOMAIN before) >= RequiredValidators
    BY DEF FollowsVotes
<1>6. ~ Tally!Supported(votes) /\ Cardinality(DOMAIN votes) >= RequiredValidators
         => 3 * Cardinality(no) > Cardinality(DOMAIN votes)
    BY <1>2, <1>3, <1>4
<1>7. (Tally!Supported(votes) \/ identity.status = "verified")
         => Cardinality(DOMAIN votes) >= RequiredValidators
    BY <1>2, <1>4, <1>5, TallyAssumption DEF Tally!ConstantsOK
<1>8. FollowsVotes([status |-> IF Tally!Supported(votes) THEN "verified"
                               ELSE identity.status, votes |-> votes])
    BY <1>6, <1>7 DEF FollowsVotes, no
<1> QED
    BY <1>2, <1>8 DEF votes

LEMMA VerifyKeepsVotes ==
    ASSUME Tally!TypeOK, VotesInv, Tally!Verify
    PROVE  VotesInv'
<1>1. CASE \E id \in Ids : Tally!RegisterIdentity(id)
    <2>1. PICK id \in Ids : Tally!RegisterIdentity(id)
        BY <1>1
    <2> DEFINE fresh == [status |-> "pending", votes |-> [v \in {} |-> TRUE]]
    <2>2. IsFiniteSet(DOMAIN fresh.votes) /\ Cardinality(DOMAIN fresh.votes) = 0
        BY FS_EmptySet
    <2>3. fresh.status # "verified"
        OBVIOUS
    <2> HIDE DEF fresh
    <2>5. FollowsVotes(fresh)
        BY <2>2, <2>3 DEF FollowsVotes
    <2>4. identities' = Tally!Put(identities, id, fresh)
        BY <2>1 DEF Tally!RegisterIdentity, fresh
    <2> QED
        BY <2>2, <2>4, <2>5 DEF VotesInv, Tally!Put
<1>2. CASE \E v \in Validators : Tally!RegisterValidator(v)
    BY <1>2 DEF Tally!RegisterValidator, VotesInv
<1>3. CASE \E id \in Ids, v \in Validators, verified \in BOOLEAN :
              Tally!SubmitVerification(id, v, verified)
    <2>1. PICK id \in Ids, v \in Validators, verified \in BOOLEAN :
                  Tally!SubmitVerification(id, v, verified)
        BY <1>3
    <2> DEFINE votes == Tally!Put(identities[id].votes, v, verified)
               next == [status |-> IF Tally!Supported(votes) THEN "verified"
                                   ELSE identities[id].status, votes |-> votes]
    <2>2. id \in DOMAIN identities /\ identities' = [identities EXCEPT ![id] = next]
        BY <2>1 DEF Tally!SubmitVerification
    <2>3. identities[id] \in Tally!DistributedIdentity
        BY <2>2 DEF Tally!TypeOK
    <2>4. IsFiniteSet(DOMAIN votes) /\ FollowsVotes(next)
        BY <2>2, <2>3, VerificationKeeps DEF VotesInv
    <2>5. next.votes = votes
        OBVIOUS
    <2> HIDE DEF next, votes
    <2> QED
        BY <2>2, <2>4, <2>5 DEF VotesInv
<1> QED
    BY <1>1, <1>2, <1>3 DEF Tally!Verify

\* submit_verification: in whatever order validators vote, and vote again, an identity
\* is verified whenever two thirds of enough votes support it, and never before enough
\* have voted.
THEOREM VerifiedIffSupported == Tally!Spec => []Tally!VerifiedFollowsVotes
<1>1. Tally!Init => VotesInv
    BY DEF Tally!Init, VotesInv
<1>2. Tally!TypeOK /\ VotesInv /\ [Tally!Next]_(Tally!vars) => VotesInv'
    <2>1. (UNCHANGED Tally!vars \/ Tally!Coordinate \/ Tally!Propose) => UNCHANGED identities
        BY DEF Tally!vars, Tally!verification, Tally!Coordinate, Tally!RegisterConsensusNode,
               Tally!InitiateConsensus, Tally!FinalizeConsensus, Tally!Propose,
               Tally!CreateProposal, Tally!SubmitProposal
    <2>2. VotesInv /\ UNCHANGED identities => VotesInv'
        BY DEF VotesInv
    <2> QED
        BY <2>1, <2>2, VerifyKeepsVotes DEF Tally!Next
<1>3. VotesInv => Tally!VerifiedFollowsVotes
    BY TallyCardinality DEF VotesInv, FollowsVotes, Tally!VerifiedFollowsVotes
<1> QED
    BY <1>1, <1>2, <1>3, TallyTyped, PTL DEF Tally!Spec

-----------------------------------------------------------------------------
(* The parts together *)

\* A behaviour of the parts, explored one at a time, is one of each.
LEMMA PartsKept == MCSpec => Spec /\ Tally!Spec
<1>1. [MCNext]_<<under, vars, tally>> => [Next]_vars
    BY DEF MCNext, vars, tally
<1>2. [MCNext]_<<under, vars, tally>> => [Tally!Next]_(Tally!vars)
    BY DEF MCNext, vars, tally, Tally!Next, Tally!vars, Tally!coordinator, Tally!engine,
           Tally!verification
<1> QED
    BY <1>1, <1>2, PTL DEF MCSpec, MCInit, Spec, Tally!Spec

\* The nodes, rounds, proposals and identities keep their types, and a node that has
\* committed anything heard of more than 2f senders.
THEOREM ConsensusKept == MCSpec => []ConsensusInv
<1>1. BFTInv /\ Tally!TypeOK => ConsensusInv
    BY DEF ConsensusInv
<1> QED
    BY <1>1, PartsKept, QuorumBehindCommits, TallyTyped, PTL

\* Rounds of the coordinator: OneResultPerRound, of the composed behaviours.
THEOREM OneResultKept == MCSpec => []OneResultPerRound
    BY PartsKept, RoundsDecidedOnce, PTL DEF OneResultPerRound

\* Votes on identities: VerifiedFollowsVotes, of the composed behaviours.
THEOREM VerifiedKept == MCSpec => []VerifiedFollowsVotes
    BY PartsKept, VerifiedIffSupported, PTL DEF VerifiedFollowsVotes

=============================================================================
