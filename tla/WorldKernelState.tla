-------------------------- MODULE WorldKernelState --------------------------
(***************************************************************************)
(* kernel/world_kernel/world_kernel_state.py: the tree of global state     *)
(* with its log, conflicts, snapshots, watchers and access control.  Calls *)
(* are synchronous, but a watcher may call any operation before the next   *)
(* watcher hears of the update, so notifications form a stack.             *)
(***************************************************************************)
EXTENDS Naturals, Sequences, FiniteSets, SequencesExt

CONSTANTS
    Paths,         \* state paths, as sequences of names; every prefix is one
    Domains,
    Values,
    None,          \* the value of a node nobody wrote
    Watchers,      \* callbacks given to watch_path
    MaxUpdates,    \* bound: entries of the log
    MaxConflicts,  \* bound: conflicts detected
    MaxSnapshots,  \* bound: snapshots created
    MaxDepth       \* bound: notifications nested in each other

\* What the constants are assumed to be.
ConstantsOK ==
    /\ Paths \subseteq Seq(STRING)
    /\ \A p \in Paths : p # <<>> /\ \A k \in 1 .. Len(p) : SubSeq(p, 1, k) \in Paths
    /\ None \notin Values

VARIABLES
    tree,       \* path -> StateNode of the nodes that exist
    log,        \* updates_log
    now,        \* utcnow; two updates may have the same timestamp
    conflicts,  \* detected StateConflict objects
    snapshots,  \* trees serialized by create_snapshot
    allowed,    \* access_control: path -> domains; all of them where there is no rule
    watching,   \* watchers: path -> callbacks, in order
    notifying,  \* updates being notified, innermost last
    told,       \* history: the last value each watcher was told of each path
    rewritten,  \* history: paths written without a log entry since their last update
    nested      \* history: paths updated while an update of theirs was being notified

vars == <<tree, log, now, conflicts, snapshots, allowed, watching, notifying, told, rewritten, nested>>

StateNode == [value : Values \cup {None}, version : Nat, owner : Domains \cup {None}]
StateUpdate ==
    [domain : Domains, path : Paths, old : Values \cup {None}, new : Values,
     time : Nat, priority : Nat]
\* updates: places in the log.
StateConflict == [updates : Seq(Nat), resolution : Nat]
Unresolved == 0
\* next: the place of the watcher to call.
Notification == [update : Nat, next : Nat]

NewNode == [value |-> None, version |-> 0, owner |-> None]

Init ==
    /\ tree = [p \in {} |-> NewNode]
    /\ log = <<>> /\ now = 0
    /\ conflicts = <<>>
    /\ snapshots = <<>>
    /\ allowed = [p \in Paths |-> Domains]
    /\ watching = [p \in Paths |-> <<>>]
    /\ notifying = <<>>
    /\ told = [w \in Watchers |-> [p \in Paths |-> None]]
    /\ rewritten = {} /\ nested = {}

-----------------------------------------------------------------------------
(* The tree *)

\* Times, metadata and the links between nodes are not part of the data.
Serialized(t) == [p \in DOMAIN t |-> [value |-> t[p].value, version |-> t[p].version, owner |-> t[p].owner]]

\* Every node of the data becomes a new object.
Deserialized(data) ==
    [p \in DOMAIN data |-> [NewNode EXCEPT !.value = data[p].value, !.version = data[p].version,
                                           !.owner = data[p].owner]]

\* get_or_create_path: even a read creates the nodes on the way.
Path(t, p) == [q \in DOMAIN t \cup (Prefixes(p) \ {<<>>}) |-> IF q \in DOMAIN t THEN t[q] ELSE NewNode]

ValueAt(t, p) == IF p \in DOMAIN t THEN t[p].value ELSE None

\* Slip: the first owner stays.
SetValue_FirstOwner(t, p, v, d) ==
    [Path(t, p) EXCEPT ![p] = [value |-> v, version |-> @.version + 1,
                               owner |-> IF @.owner = None THEN d ELSE @.owner]]

\* StateNode.set_value
SetValue(t, p, v, d) ==
    [Path(t, p) EXCEPT ![p] = [value |-> v, version |-> @.version + 1, owner |-> d]]

GetState(p) ==
    /\ tree' = Path(tree, p)
    /\ UNCHANGED <<log, now, conflicts, snapshots, allowed, watching, notifying, told, rewritten, nested>>

-----------------------------------------------------------------------------
(* Updates and notifications *)

\* _check_access
MayWrite(p, d) == d \in allowed[p]

UpdateState(p, v, d, priority, tick) ==
    /\ Len(log) < MaxUpdates /\ Len(notifying) < MaxDepth
    /\ MayWrite(p, d)
    /\ now' = now + tick
    /\ log' = Append(log, [domain |-> d, path |-> p, old |-> ValueAt(tree, p), new |-> v,
                           time |-> now', priority |-> priority])
    /\ tree' = SetValue(tree, p, v, d)
    /\ notifying' = Append(notifying, [update |-> Len(log'), next |-> 1])
    /\ rewritten' = rewritten \ {p}
    /\ nested' = IF \E i \in DOMAIN notifying : log[notifying[i].update].path = p
                 THEN nested \cup {p} ELSE nested
    /\ UNCHANGED <<conflicts, snapshots, allowed, watching, told>>

\* Slip: the last watcher is missed.
Remaining_OffByOne(n) == n.next < Len(watching[log[n.update].path])
Remaining(n) == n.next <= Len(watching[log[n.update].path])

\* _notify_watchers: the next callback of the list, which may have grown; what a
\* callback raises is dropped.
Notify ==
    /\ notifying # <<>>
    /\ LET top == Last(notifying)
           u == log[top.update]
       IN  IF Remaining(top)
           THEN /\ told' = [told EXCEPT ![watching[u.path][top.next]][u.path] = u.new]
                /\ notifying' = Append(Front(notifying), [top EXCEPT !.next = @ + 1])
           ELSE /\ notifying' = Front(notifying)
                /\ UNCHANGED told
    /\ UNCHANGED <<tree, log, now, conflicts, snapshots, allowed, watching, rewritten, nested>>

WatchPath(p, w) ==
    /\ ~ Contains(watching[p], w)
    /\ watching' = [watching EXCEPT ![p] = Append(@, w)]
    /\ told' = [told EXCEPT ![w][p] = ValueAt(tree, p)]
    /\ UNCHANGED <<tree, log, now, conflicts, snapshots, allowed, notifying, rewritten, nested>>

SetAccessControl(p, ds) ==
    /\ allowed' = [allowed EXCEPT ![p] = ds]
    /\ UNCHANGED <<tree, log, now, conflicts, snapshots, watching, notifying, told, rewritten, nested>>

-----------------------------------------------------------------------------
(* Conflicts *)

\* Any two updates of a path conflict unless their timestamps are equal, which the
\* code takes for a sequence.
DetectConflict(i, j) ==
    /\ Len(conflicts) < MaxConflicts
    /\ log[i].path = log[j].path /\ log[i].time # log[j].time
    /\ conflicts' = Append(conflicts, [updates |-> <<i, j>>, resolution |-> Unresolved])
    /\ UNCHANGED <<tree, log, now, snapshots, allowed, watching, notifying, told, rewritten, nested>>

\* Of two updates, the one each strategy may choose: ties go to the first, and a
\* custom resolver may return either.
Chosen(strategy, i, j) ==
    CASE strategy = "last_write_wins" -> {IF log[j].time > log[i].time THEN j ELSE i}
      [] strategy = "first_write_wins" -> {IF log[j].time < log[i].time THEN j ELSE i}
      [] strategy = "highest_priority" -> {IF log[j].priority > log[i].priority THEN j ELSE i}
      [] strategy = "custom" -> {i, j}

Strategies == {"last_write_wins", "first_write_wins", "highest_priority", "custom"}

Open(c) == conflicts[c].resolution = Unresolved

\* The value is written over whatever was written since, without a log entry, a
\* notification or a look at the access rules; a second resolution changes nothing.
ResolveConflict(c, strategy) ==
    /\ Open(c)
    /\ \E k \in Chosen(strategy, conflicts[c].updates[1], conflicts[c].updates[2]) :
          /\ conflicts' = [conflicts EXCEPT ![c].resolution = k]
          /\ tree' = SetValue(tree, log[k].path, log[k].new, log[k].domain)
          /\ rewritten' = rewritten \cup {log[k].path}
    /\ UNCHANGED <<log, now, snapshots, allowed, watching, notifying, told, nested>>

-----------------------------------------------------------------------------
(* Snapshots *)

CreateSnapshot ==
    /\ Len(snapshots) < MaxSnapshots
    /\ snapshots' = Append(snapshots, Serialized(tree))
    /\ UNCHANGED <<tree, log, now, conflicts, allowed, watching, notifying, told, rewritten, nested>>

\* The tree is replaced; log, conflicts, watchers and rules stay.
RestoreSnapshot(s) ==
    /\ tree' = Deserialized(snapshots[s])
    /\ rewritten' = Paths
    /\ UNCHANGED <<log, now, conflicts, snapshots, allowed, watching, notifying, told, nested>>

Update ==
    \/ \E p \in Paths, v \in Values, d \in Domains, priority, tick \in 0 .. 1 :
          UpdateState(p, v, d, priority, tick)
    \/ Notify

Read == \E p \in Paths : GetState(p)

Watch == \E p \in Paths, w \in Watchers : WatchPath(p, w)

Administer == \E p \in Paths, ds \in SUBSET Domains : SetAccessControl(p, ds)

Resolve ==
    \/ \E i, j \in DOMAIN log : DetectConflict(i, j)
    \/ \E c \in DOMAIN conflicts, strategy \in Strategies : ResolveConflict(c, strategy)

Restore == CreateSnapshot \/ \E s \in DOMAIN snapshots : RestoreSnapshot(s)

Next == Update \/ Read \/ Watch \/ Administer \/ Resolve \/ Restore

Spec == Init /\ [][Next]_vars

-----------------------------------------------------------------------------
(* Properties *)

TypeOK ==
    /\ DOMAIN tree \subseteq Paths /\ \A p \in DOMAIN tree : tree[p] \in StateNode
    /\ log \in Seq(StateUpdate) /\ now \in Nat
    /\ conflicts \in Seq(StateConflict)
    /\ \A s \in DOMAIN snapshots : DOMAIN snapshots[s] \subseteq Paths
    /\ allowed \in [Paths -> SUBSET Domains]
    /\ watching \in [Paths -> Seq(Watchers)]
    /\ notifying \in Seq(Notification)
    /\ told \in [Watchers -> [Paths -> Values \cup {None}]]
    /\ rewritten \subseteq Paths /\ nested \subseteq Paths

\* get_audit_log of a path: places in the log.
Entries(p) == {i \in DOMAIN log : log[i].path = p}
LastEntry(p) == CHOOSE i \in Entries(p) : \A j \in Entries(p) : j <= i

\* The audit log explains the state: in every interleaving of nested updates, reads
\* and conflicts, a path holds what its last entry wrote, and its owner is the domain
\* that wrote it, unless a resolution or a restored snapshot wrote it since.
LogExplains ==
    \A p \in Paths \ rewritten :
        IF Entries(p) = {} THEN ValueAt(tree, p) = None
        ELSE /\ tree[p].value = log[LastEntry(p)].new
             /\ tree[p].owner = log[LastEntry(p)].domain

StateInv == TypeOK /\ LogExplains

\* An open conflict only overwrites: the versions of a path count every update and
\* every resolution of it once, unless a snapshot was restored.
VersionsCount ==
    (\A s \in DOMAIN snapshots : FALSE) =>
        \A p \in DOMAIN tree :
            tree[p].version =
                Cardinality(Entries(p)) +
                Cardinality({c \in DOMAIN conflicts :
                    conflicts[c].resolution \in Entries(p)})

\* Once no notification is under way, every watcher was last told the value the last
\* update left, although watchers update the state themselves; not so where an update
\* met a notification of the same path, or the path was written without an update.
WatchersCurrent ==
    notifying = <<>> =>
        \A p \in Paths \ (rewritten \cup nested) :
            \A k \in DOMAIN watching[p] : told[watching[p][k]][p] = ValueAt(tree, p)

=============================================================================
