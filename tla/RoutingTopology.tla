--------------------------- MODULE RoutingTopology ---------------------------
(***************************************************************************)
(* routing/topology: nodes with named channels to other nodes, and the     *)
(* engine that dispatches a message over the channel of a node.            *)
(***************************************************************************)
EXTENDS Naturals, Sequences, SequencesExt

CONSTANTS
    Nodes,        \* names of nodes
    ChannelNames,
    MaxChannels   \* bound: channels added

VARIABLES
    nodes,    \* RoutingTopology.nodes: name -> the channels of its RoutingNode
    added,    \* history: the channels added, in order
    since     \* history: of each name the length of added when the node was last added

vars == <<nodes, added, since>>

RoutingChannel == [name : ChannelNames, target : Nodes]

Init == nodes = [n \in {} |-> <<>>] /\ added = <<>> /\ since = [n \in Nodes |-> 0]

\* A node that exists is replaced by one without channels.
AddNode(n) ==
    /\ nodes' = [m \in DOMAIN nodes \cup {n} |-> IF m = n THEN <<>> ELSE nodes[m]]
    /\ since' = [since EXCEPT ![n] = Len(added)]
    /\ UNCHANGED added

\* A channel of the same name may be there already; the older one is found.
AddChannel(source, name, target) ==
    /\ Len(added) < MaxChannels
    /\ source \in DOMAIN nodes /\ target \in DOMAIN nodes
    /\ nodes' = [nodes EXCEPT ![source] = Append(@, [name |-> name, target |-> target])]
    /\ added' = Append(added, [source |-> source, name |-> name, target |-> target])
    /\ UNCHANGED since

Next ==
    \E source \in Nodes :
        \/ AddNode(source)
        \/ \E name \in ChannelNames, target \in Nodes : AddChannel(source, name, target)

Spec == Init /\ [][Next]_vars

\* dispatch: the nodes that a message reaches, one or none.
Dispatch(source, name) ==
    IF source \notin DOMAIN nodes THEN {}
    ELSE LET k == SelectInSeq(nodes[source], LAMBDA c : c.name = name)
         IN  IF k = 0 \/ nodes[source][k].target \notin DOMAIN nodes THEN {} ELSE {nodes[source][k].target}

-----------------------------------------------------------------------------

TypeOK ==
    /\ DOMAIN nodes \subseteq Nodes /\ \A n \in DOMAIN nodes : nodes[n] \in Seq(RoutingChannel)
    /\ since \in [Nodes -> 0 .. Len(added)]

\* However nodes are replaced and channels repeated, a message arrives where the
\* first channel of the name leads that was added since its source was last added,
\* and is refused only if there is none: no channel ever leads to a node that is gone.
DispatchFollows ==
    \A n \in Nodes, name \in ChannelNames :
        LET fit == {k \in DOMAIN added : k > since[n] /\ added[k].source = n /\ added[k].name = name}
        IN  Dispatch(n, name) = {added[k].target : k \in {j \in fit : \A i \in fit : j <= i}}

=============================================================================
