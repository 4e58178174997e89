------------------------- MODULE WorldKernelLattice -------------------------
(***************************************************************************)
(* kernel/world_kernel/world_kernel_lattice.py: levels of domains whose    *)
(* events are submitted, committed and propagated to the world, the        *)
(* causality between events and the vector clocks of the domains.  The     *)
(* clock of an event is the clock object of its domain, not a copy.        *)
(***************************************************************************)
EXTENDS Naturals, Sequences, FiniteSets, FiniteSetsExt, SequencesExt

CONSTANTS
    Ids,           \* event ids
    Domains,
    World,         \* world_domain_id, or "world"
    Keys,          \* state keys
    LevelNumbers,
    MaxLog,        \* bound: events submitted
    MaxMerges      \* bound: clocks merged

\* What the constants are assumed to be.
ConstantsOK ==
    /\ World \in Domains /\ IsFiniteSet(Domains) /\ LevelNumbers \subseteq Nat /\ 3 \in LevelNumbers
    /\ MaxMerges \in Nat

VARIABLES
    levels,     \* number -> LatticeLevel of the levels created
    event,      \* id -> LatticeEvent of the events ever submitted
    eventLog,   \* event_log: ids, in the order of submission
    clock,      \* vector_clocks
    stamp,      \* history: the clock of the domain when each entry was submitted
    mergedAt,   \* history: length of the log when the clock of a domain last merged
    merges      \* clocks merged so far

vars == <<levels, event, eventLog, clock, stamp, mergedAt, merges>>

VectorClock == [Domains -> Nat]
LatticeEvent == [domain : Domains, key : Keys, value : Ids, parents : Seq(Ids)]
\* The values of a level are those of events; commits: history of the ids, in order.
LatticeLevel ==
    [domains : SUBSET Domains, state : UNION {[K -> Ids] : K \in SUBSET Keys},
     pending : SUBSET Ids, committed : SUBSET Ids, commits : Seq(Ids)]

Init ==
    /\ levels = [l \in {} |-> {}]
    /\ event = [i \in {} |-> {}]
    /\ eventLog = <<>>
    /\ clock = [d \in Domains |-> [x \in Domains |-> 0]]
    /\ stamp = <<>>
    /\ mergedAt = [d \in Domains |-> 0]
    /\ merges = 0

-----------------------------------------------------------------------------
(* Vector clocks *)

\* Slip: only the entries of the other clock that are positive are looked at.
HappensBefore_OneSided(c, d) ==
    /\ \A x \in Domains : d[x] > 0 => c[x] <= d[x]
    /\ \E x \in Domains : c[x] < d[x]

HappensBefore(c, d) ==
    /\ \A x \in Domains : c[x] <= d[x]
    /\ \E x \in Domains : c[x] < d[x]

ConcurrentWith(c, d) == ~ HappensBefore(c, d) /\ ~ HappensBefore(d, c)

Increment(c, x) == [c EXCEPT ![x] = @ + 1]

\* VectorClock.update
Merge(c, d) == [x \in Domains |-> IF c[x] < d[x] THEN d[x] ELSE c[x]]

\* A domain that takes in what another one knows; nothing in the lattice does it by
\* itself.
MergeClock(d, e) ==
    /\ d # e /\ merges < MaxMerges
    /\ clock' = [clock EXCEPT ![d] = Merge(@, clock[e])]
    /\ mergedAt' = [mergedAt EXCEPT ![d] = Len(eventLog)]
    /\ merges' = merges + 1
    /\ UNCHANGED <<levels, event, eventLog, stamp>>

-----------------------------------------------------------------------------
(* Levels *)

CreateLevel(l, ds) ==
    /\ l \notin DOMAIN levels
    /\ levels' = [m \in DOMAIN levels \cup {l} |->
          IF m = l THEN [domains |-> ds, state |-> [k \in {} |-> 0], pending |-> {},
                         committed |-> {}, commits |-> <<>>]
          ELSE levels[m]]
    /\ UNCHANGED <<event, eventLog, clock, stamp, mergedAt, merges>>

\* The first level with the domain, or that of the entities.
DetermineLevel(d) ==
    LET with == {l \in DOMAIN levels : d \in levels[l].domains}
    IN  IF with = {} THEN 3 ELSE Min(with)

\* Slip: any domain may add events to the level that is its default.
AddEvent_AnyDomain(l, i, d) == [levels EXCEPT ![l].pending = @ \cup {i}]

\* LatticeLevel.add_event
AddEvent(l, i, d) ==
    IF d \notin levels[l].domains THEN levels ELSE [levels EXCEPT ![l].pending = @ \cup {i}]

\* The event is logged and its domain's clock ticks even where no level takes it in.
Submit(i, r) ==
    /\ Len(eventLog) < MaxLog
    /\ event' = [j \in DOMAIN event \cup {i} |-> IF j = i THEN r ELSE event[j]]
    /\ clock' = [clock EXCEPT ![r.domain] = Increment(@, r.domain)]
    /\ eventLog' = Append(eventLog, i)
    /\ stamp' = Append(stamp, clock'[r.domain])
    /\ levels' = LET l == DetermineLevel(r.domain)
                 IN  IF l \in DOMAIN levels THEN AddEvent(l, i, r.domain) ELSE levels
    /\ UNCHANGED <<mergedAt, merges>>

\* A new event, or one submitted before.  Its parents may be any ids.
SubmitEvent(i, d, k, parents) ==
    Submit(i, IF i \in DOMAIN event THEN event[i]
              ELSE [domain |-> d, key |-> k, value |-> i, parents |-> parents])

\* LatticeLevel.commit_event
Committed(x, i) ==
    [x EXCEPT !.state = [k \in DOMAIN @ \cup {event[i].key} |->
                            IF k = event[i].key THEN event[i].value ELSE @[k]],
              !.committed = @ \cup {i},
              !.pending = @ \ {i},
              !.commits = Append(@, i)]

CommitEvent(i, l) ==
    /\ l \in DOMAIN levels /\ i \in levels[l].pending
    /\ levels' = [levels EXCEPT ![l] = Committed(@, i)]
    /\ UNCHANGED <<event, eventLog, clock, stamp, mergedAt, merges>>

\* A new event of the world with the value of the old one, its parent.
PropagateToWorld(i, j) ==
    /\ i \in DOMAIN event /\ j \notin DOMAIN event
    /\ Submit(j, [domain |-> World, key |-> event[i].key, value |-> event[i].value,
                  parents |-> <<i>>])

-----------------------------------------------------------------------------
(* Queries *)

\* The levels are merged in ascending order, so the last one with the key wins.
GlobalState ==
    [k \in UNION {DOMAIN levels[l].state : l \in DOMAIN levels} |->
        levels[Max({l \in DOMAIN levels : k \in DOMAIN levels[l].state})].state[k]]

\* Slip: an id that was reached is not remembered.
Unvisited_Always(i, chain) == TRUE
Unvisited(i, chain) == ~ Contains(chain, i)

\* One call of traverse: todo holds the ids to visit, those of the innermost call
\* first.
Traverse(t) ==
    LET i == Head(t.todo) IN
    IF i \in DOMAIN event /\ Unvisited(i, t.chain)
    THEN [todo |-> event[i].parents \o Tail(t.todo), chain |-> Append(t.chain, i)]
    ELSE [t EXCEPT !.todo = Tail(@)]

\* An event and the place where it names a parent.
Mentions == UNION {{j} \X DOMAIN event[j].parents : j \in DOMAIN event}

\* One call for the event asked for, and one for each parent an event names.
MaxCalls == 1 + Cardinality(Mentions)

CausalityChain(i) ==
    LET Run[k \in 0 .. MaxCalls] ==
            IF k = 0 THEN [todo |-> <<i>>, chain |-> <<>>]
            ELSE IF Run[k - 1].todo = <<>> THEN Run[k - 1] ELSE Traverse(Run[k - 1])
    IN  Reverse(Run[MaxCalls].chain)

DetectConflicts ==
    {pair \in (DOMAIN eventLog) \X (DOMAIN eventLog) :
        LET e == event[eventLog[pair[1]]]
            f == event[eventLog[pair[2]]]
        IN  /\ pair[1] < pair[2] /\ e.key = f.key
            /\ ConcurrentWith(clock[e.domain], clock[f.domain])}

-----------------------------------------------------------------------------

Create == \E l \in LevelNumbers, ds \in SUBSET Domains : CreateLevel(l, ds)

\* Lists of parents of a new event.
ParentLists == {<<>>} \cup {<<j>> : j \in Ids} \cup (Ids \X Ids)

Submission(lists) ==
    \E i \in Ids, d \in Domains, k \in Keys, parents \in lists : SubmitEvent(i, d, k, parents)

Commit ==
    \/ \E i \in Ids, l \in LevelNumbers : CommitEvent(i, l)
    \/ \E i, j \in Ids : PropagateToWorld(i, j)

Synchronize == \E d, e \in Domains : MergeClock(d, e)

Next == Create \/ Submission(ParentLists) \/ Commit \/ Synchronize

Spec == Init /\ [][Next]_vars

-----------------------------------------------------------------------------
(* Properties *)

TypeOK ==
    /\ DOMAIN levels \subseteq LevelNumbers
    /\ \A l \in DOMAIN levels : levels[l] \in LatticeLevel
    /\ DOMAIN event \subseteq Ids /\ \A i \in DOMAIN event : event[i] \in LatticeEvent
    /\ eventLog \in Seq(DOMAIN event)
    /\ clock \in [Domains -> VectorClock]
    /\ stamp \in Seq(VectorClock) /\ Len(stamp) = Len(eventLog)
    /\ mergedAt \in [Domains -> Nat] /\ merges \in 0 .. MaxMerges

\* However submissions, resubmissions, commits and new levels interleave, a level
\* takes in only logged events of its own domains, and holds for each key the value
\* of the last of them committed.
StateIsCommitted ==
    \A l \in DOMAIN levels :
        LET x == levels[l]
            of(k) == {n \in DOMAIN x.commits : event[x.commits[n]].key = k}
        IN  /\ \A i \in x.pending \cup x.committed :
                 /\ Contains(eventLog, i)
                 /\ event[i].domain \in x.domains
            /\ DOMAIN x.state = {event[i].key : i \in x.committed}
            /\ \A k \in DOMAIN x.state : x.state[k] = event[x.commits[Max(of(k))]].value

\* get_global_state shows a key when, and only when, some event of it is committed, and
\* shows the last commit of one level, the highest number, whatever the comment there
\* says of the world level.
GlobalIsCommitted ==
    LET all == UNION {levels[l].committed : l \in DOMAIN levels} IN
    /\ DOMAIN GlobalState = {event[i].key : i \in all}
    /\ \A k \in DOMAIN GlobalState :
          \E i \in all : event[i].key = k /\ event[i].value = GlobalState[k]

LatticeInv == TypeOK /\ StateIsCommitted /\ GlobalIsCommitted

\* The least set of logged events with i and the logged parents of its events.
Ancestors(i) ==
    LET Up[k \in 0 .. Cardinality(DOMAIN event)] ==
            IF k = 0 THEN {i}
            ELSE Up[k - 1] \cup (DOMAIN event
                                 \cap UNION {ToSet(event[j].parents) : j \in Up[k - 1]})
    IN  Up[Cardinality(DOMAIN event)]

\* Whatever parents events name, unknown, repeated or in a cycle, the causal chain of
\* an event holds each of its logged ancestors once, ends with the event, and puts
\* every other one before an event that names it as parent.
ChainIsAncestry ==
    \A i \in DOMAIN event :
        LET chain == CausalityChain(i) IN
        /\ ToSet(chain) = Ancestors(i) /\ IsInjective(chain)
        /\ Last(chain) = i
        /\ \A m \in 1 .. Len(chain) - 1 :
              \E n \in m + 1 .. Len(chain) : Contains(event[chain[n]].parents, chain[m])

\* Clocks are shared by all events of a domain and grow after the events.  Still, two
\* events on a key that were concurrent when they were submitted are reported, unless
\* one of their domains merged its clock after submitting its own.
NoConflictMissed ==
    \A m, n \in DOMAIN eventLog :
        LET e == event[eventLog[m]]
            f == event[eventLog[n]]
        IN  (/\ m < n /\ e.key = f.key
             /\ \E x, y \in Domains : stamp[m][x] > stamp[n][x] /\ stamp[m][y] < stamp[n][y]
             /\ mergedAt[e.domain] < m /\ mergedAt[f.domain] < n)
            => <<m, n>> \in DetectConflicts

=============================================================================
