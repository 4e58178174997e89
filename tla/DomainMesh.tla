----------------------------- MODULE DomainMesh -----------------------------
(***************************************************************************)
(* kernel/world_kernel/multi_domain_unification.py: the registry of        *)
(* domains, the mesh of connections with its routing table, and the        *)
(* lifecycle manager.  Calls are synchronous; a hook or a callback may     *)
(* call any operation before the call that runs it goes on, so the calls   *)
(* in progress form a stack.                                               *)
(***************************************************************************)
EXTENDS Naturals, Sequences, FiniteSets, SequencesExt

CONSTANTS
    Ids,       \* uuids of domains
    Links,     \* pairs of ids that are connected; endpoints need not be registered
    None,
    MaxDepth   \* bound: nested lifecycle calls

ASSUME MeshAssumption ==
    IsFiniteSet(Ids) /\ Links \subseteq Ids \X Ids /\ None \notin Ids /\ MaxDepth \in Nat

VARIABLES
    issued,         \* ids of the domains ever registered
    domains,        \* DomainRegistry.domains: id -> DomainRegistration
    worldDomainId,  \* world_domain_id
    edges,          \* MeshCoordinator.edges, in insertion order
    routingTable,   \* routing_table: id -> path from the world
    rebuilt,        \* history: the table was built since there is a world
    hooks,          \* <<kind, id>> of the hooks registered
    stack,          \* lifecycle calls in progress, innermost last
    raised          \* history: domains whose initialization a callback aborted

registry == <<issued, domains, worldDomainId>>
mesh == <<edges, routingTable, rebuilt>>
lifecycle == <<hooks, stack, raised>>
vars == <<registry, mesh, lifecycle>>

Tiers == {"world", "zone"}   \* DomainTier; regions and entities are treated as zones
States == {"uninitialized", "initializing", "active", "shutdown", "suspended"}

DomainRegistration ==
    [tier : Tiers, state : States, parent : Ids \cup {None}, children : SUBSET Ids]
MeshEdge == [link : Links, healthy : BOOLEAN]
Frame == [kind : {"init", "shutdown"}, id : Ids]

Init ==
    /\ issued = {}
    /\ domains = [d \in {} |-> {}]
    /\ worldDomainId = None
    /\ edges = <<>>
    /\ routingTable = [d \in {} |-> <<>>]
    /\ rebuilt = FALSE
    /\ hooks = {}
    /\ stack = <<>>
    /\ raised = {}

\* A hook or callback of the innermost call may act, or there is no call.
MayCall ==
    stack # <<>> => <<Last(stack).kind, Last(stack).id>> \in hooks

-----------------------------------------------------------------------------
(* DomainRegistry *)

\* Slip: a child that is unregistered stays in its parent's list.
WithoutChild_Kept(ds, d) == [x \in DOMAIN ds \ {d} |-> ds[x]]

WithoutChild(ds, d) ==
    [x \in DOMAIN ds \ {d} |->
        IF x = ds[d].parent THEN [ds[x] EXCEPT !.children = @ \ {d}] ELSE ds[x]]

WithChild(ds, d, r) ==
    [x \in DOMAIN ds \cup {d} |->
        IF x = d THEN r
        ELSE IF x = r.parent THEN [ds[x] EXCEPT !.children = @ \cup {d}] ELSE ds[x]]

\* A second world raises before anything is changed.  The parent may be any domain
\* named so far; only one that is still registered learns of its child.
RegisterDomain(d, tier, parent) ==
    /\ MayCall
    /\ d \notin issued
    /\ tier = "world" => worldDomainId = None
    /\ issued' = issued \cup {d}
    /\ worldDomainId' = IF tier = "world" THEN d ELSE worldDomainId
    /\ domains' = WithChild(domains, d, [tier |-> tier, state |-> "uninitialized",
                                         parent |-> parent, children |-> {}])
    /\ UNCHANGED <<mesh, lifecycle>>

SetState(d, s) ==
    domains' = IF d \in DOMAIN domains THEN [domains EXCEPT ![d].state = s] ELSE domains

\* Other components set the states that the lifecycle manager does not.
UpdateDomainState(d) ==
    /\ MayCall
    /\ d \in DOMAIN domains
    /\ SetState(d, "suspended")
    /\ UNCHANGED <<issued, worldDomainId, mesh, lifecycle>>

\* world_domain_id, the parents of the children and the edges keep the id.
UnregisterDomain(d) ==
    /\ MayCall
    /\ d \in DOMAIN domains
    /\ domains' = WithoutChild(domains, d)
    /\ UNCHANGED <<issued, worldDomainId, mesh, lifecycle>>

-----------------------------------------------------------------------------
(***************************************************************************)
(* The routing table.  A search is a record of the visited domains, the    *)
(* queue of paths and the table built so far.                              *)
(***************************************************************************)

\* One healthy edge seen while path is extended: a later edge to an unvisited
\* domain overwrites the route found earlier.
Extend(path, search, edge) ==
    IF ~ edge.healthy \/ edge.link[1] # Last(path) \/ edge.link[2] \in search.visited
    THEN search
    ELSE LET new == Append(path, edge.link[2])
         IN  [search EXCEPT !.queue = Append(@, new),
                            !.table = [d \in DOMAIN @ \cup {edge.link[2]} |->
                                          IF d = edge.link[2] THEN new ELSE @[d]]]

Dequeue(search, es) ==
    LET path == Head(search.queue)
        rest == [search EXCEPT !.queue = Tail(@)]
        Followed[k \in 0 .. Len(es)] ==
            IF k = 0 THEN [rest EXCEPT !.visited = @ \cup {Last(path)}]
            ELSE Extend(path, Followed[k - 1], es[k])
    IN  IF Last(path) \in search.visited THEN rest ELSE Followed[Len(es)]

\* Every edge is followed at most once, so the queue is empty after that many turns.
Routes(world, es) ==
    LET Run[k \in 0 .. Len(es) + 1] ==
            IF k = 0 THEN [visited |-> {}, queue |-> <<<<world>>>>, table |-> [d \in {} |-> <<>>]]
            ELSE IF Run[k - 1].queue = <<>> THEN Run[k - 1] ELSE Dequeue(Run[k - 1], es)
    IN  Run[Len(es) + 1].table

\* Slip: edges that became unhealthy leave the table as it is.
RebuildRoutingTable_Stale(es) ==
    IF worldDomainId = None \/ Len(es) = Len(edges) THEN UNCHANGED <<routingTable, rebuilt>>
    ELSE routingTable' = Routes(worldDomainId, es) /\ rebuilt' = TRUE

\* _rebuild_routing_table: nothing happens while there is no world.
RebuildRoutingTable(es) ==
    IF worldDomainId = None THEN UNCHANGED <<routingTable, rebuilt>>
    ELSE routingTable' = Routes(worldDomainId, es) /\ rebuilt' = TRUE

Changed(es) ==
    /\ edges' = es
    /\ RebuildRoutingTable(es)
    /\ UNCHANGED <<registry, lifecycle>>

Position(link) == {i \in DOMAIN edges : edges[i].link = link}

\* A connection that exists is replaced by a healthy one in its place.
EstablishConnection(link) ==
    /\ MayCall
    /\ Changed(IF Position(link) = {} THEN Append(edges, [link |-> link, healthy |-> TRUE])
               ELSE [i \in DOMAIN edges |-> IF i \in Position(link)
                        THEN [link |-> link, healthy |-> TRUE] ELSE edges[i]])

Disconnect(link) ==
    /\ MayCall
    /\ \E i \in Position(link) : Changed(RemoveAt(edges, i))

\* mark_edge_unhealthy and mark_edge_healthy
MarkEdge(link, healthy) ==
    /\ MayCall
    /\ Position(link) # {}
    /\ Changed([i \in DOMAIN edges |->
                   IF i \in Position(link) THEN [edges[i] EXCEPT !.healthy = healthy] ELSE edges[i]])

-----------------------------------------------------------------------------
(* DomainLifecycleManager *)

RegisterHook(kind, d) ==
    /\ hooks' = hooks \cup {<<kind, d>>}
    /\ UNCHANGED <<registry, mesh, stack, raised>>

Started(kind) == IF kind = "init" THEN "initializing" ELSE "shutdown"

Enter(kind, d) ==
    /\ MayCall
    /\ d \in DOMAIN domains /\ Len(stack) < MaxDepth
    /\ SetState(d, Started(kind))
    /\ stack' = Append(stack, [kind |-> kind, id |-> d])
    /\ UNCHANGED <<issued, worldDomainId, mesh, hooks, raised>>

\* An initialized domain becomes active, whatever happened to it meanwhile.
Finished(frame) == SetState(frame.id, "active")

\* The hooks are done, those that raise included.
Return ==
    /\ stack # <<>>
    /\ IF Last(stack).kind = "init" THEN Finished(Last(stack)) ELSE UNCHANGED domains
    /\ stack' = Front(stack)
    /\ UNCHANGED <<issued, worldDomainId, mesh, hooks, raised>>

\* A domain_state_changed callback raises in the first update of the state: the
\* exception leaves initialize_domain or shutdown_domain before any hook runs.
CallbackRaises ==
    /\ stack # <<>>
    /\ stack' = Front(stack)
    /\ raised' = IF Last(stack).kind = "init" THEN raised \cup {Last(stack).id} ELSE raised
    /\ UNCHANGED <<registry, mesh, hooks>>

-----------------------------------------------------------------------------

Registry ==
    \/ \E d \in Ids, tier \in Tiers, parent \in issued \cup {None} :
          RegisterDomain(d, tier, parent)
    \/ \E d \in Ids : UpdateDomainState(d) \/ UnregisterDomain(d)

Mesh ==
    \E link \in Links :
        \/ EstablishConnection(link) \/ Disconnect(link)
        \/ \E healthy \in BOOLEAN : MarkEdge(link, healthy)

Lifecycle ==
    \/ \E kind \in {"init", "shutdown"}, d \in Ids : RegisterHook(kind, d) \/ Enter(kind, d)
    \/ Return
    \/ CallbackRaises

Next == Registry \/ Mesh \/ Lifecycle

Spec == Init /\ [][Next]_vars

-----------------------------------------------------------------------------
(* Properties *)

TypeOK ==
    /\ issued \subseteq Ids
    /\ DOMAIN domains \subseteq issued
    /\ \A d \in DOMAIN domains : domains[d] \in DomainRegistration
    /\ worldDomainId \in issued \cup {None}
    /\ edges \in Seq(MeshEdge)
    /\ rebuilt \in BOOLEAN
    /\ hooks \subseteq {"init", "shutdown"} \X Ids
    /\ stack \in Seq(Frame)
    /\ raised \subseteq Ids

\* Registrations and removals in any order keep both directions of the hierarchy in
\* step: the children of a registered domain are the registered domains that name it
\* as parent.
ChildrenMatchParents ==
    \A d \in DOMAIN domains :
        domains[d].children = {c \in DOMAIN domains : domains[c].parent = d}

\* There is never a second world, even after the first one was unregistered.
OneWorld ==
    \A d \in DOMAIN domains : domains[d].tier = "world" <=> d = worldDomainId

ParentsIssued == \A d \in DOMAIN domains : domains[d].parent \in issued \cup {None}

\* The inductive invariant of the registry.
RegistryInv == TypeOK /\ ChildrenMatchParents /\ OneWorld /\ ParentsIssued

\* Slip: only the children of the world are shown.
DomainTree_Flat == {worldDomainId} \cup (IF worldDomainId \in DOMAIN domains THEN domains[worldDomainId].children ELSE {})

\* The ids that get_domain_tree meets so many calls below that for the world.
Generation[k \in 0 .. Cardinality(Ids)] ==
    IF k = 0 THEN {worldDomainId}
    ELSE UNION {domains[d].children : d \in Generation[k - 1] \cap DOMAIN domains}

\* What get_domain_tree builds.
DomainTree == UNION {Generation[k] : k \in 0 .. Cardinality(Ids)}

\* The registered domains that so many or fewer registered parents lead to the world.
Below[k \in 0 .. Cardinality(Ids)] ==
    IF k = 0 THEN {worldDomainId}
    ELSE Below[k - 1] \cup {d \in DOMAIN domains : domains[d].parent \in Below[k - 1]}

BelowWorld == Below[Cardinality(Ids)]

\* As long as the world is registered the domain tree can be built, whatever was
\* removed: its recursion ends, meets no removed domain and none twice, and shows
\* exactly the domains that belong to the world through registered parents.
TreeIsWhole ==
    worldDomainId \in DOMAIN domains =>
        LET tree == DomainTree IN
        /\ tree = BelowWorld
        /\ \A d \in tree : d \in DOMAIN domains /\ domains[d].children \subseteq tree
        /\ \A d \in tree :
              Cardinality({p \in tree : d \in domains[p].children}) = IF d = worldDomainId THEN 0 ELSE 1

Healthy == {edges[i].link : i \in {j \in DOMAIN edges : edges[j].healthy}}

\* Where so many or fewer healthy edges lead from the world.
Within[k \in 0 .. Cardinality(Ids)] ==
    IF k = 0 THEN {worldDomainId}
    ELSE Within[k - 1] \cup {link[2] : link \in {l \in Healthy : l[1] \in Within[k - 1]}}

Reachable == Within[Cardinality(Ids)]

\* Whatever happened to edges and domains, the table routes exactly the domains that
\* healthy edges reach from the world, each along such edges without a loop; it is
\* empty until an edge changes with a world present.
RoutesExact ==
    IF ~ rebuilt THEN DOMAIN routingTable = {}
    ELSE /\ DOMAIN routingTable = Reachable \ {worldDomainId}
         /\ \A d \in DOMAIN routingTable :
              LET path == routingTable[d] IN
              /\ Head(path) = worldDomainId /\ Last(path) = d
              /\ IsInjective(path)
              /\ \A i \in 1 .. Len(path) - 1 : <<path[i], path[i + 1]>> \in Healthy

\* However calls nest, a domain is left initializing only by a callback that raised.
InitializingIsUnderWay ==
    \A d \in DOMAIN domains : domains[d].state = "initializing" =>
        d \in raised \/ \E i \in DOMAIN stack : stack[i] = [kind |-> "init", id |-> d]

=============================================================================
