# Verification of Portal-OS v4.5

TLA+ models of the parts of this repository where order, nesting or failure matter, the
TLC configurations that check them on small instances, and proofs, checked by TLAPS, that
hold for every value of the constants.  Paths below are relative to `src/`.

Run everything from this directory:

    tlc -workers 2 -config MCProcessManager.cfg MCProcessManager     # one run
    tlapm ProcessManagerProofs.tla                                   # one proof module

`PROJECT.json` lists the components, the runs with their properties, a mutant of the
model for every property (a plausible bug that the run must find), the source lines each
definition stands for, the hazards, the findings and the theorems.

Contents: 1 the system, 2 the modules, 3 the runs, 4 fairness, 5 what is proved, 6 what the
code does otherwise than it says, 7 what is not modelled.

## 1. The system

Portal-OS is two programs in one repository.  The TypeScript part runs on Cloudflare
Workers: isolates with a single-threaded event loop, shared KV and Durable Objects, and
no lock anywhere.  Whatever runs between two `await`s is atomic; at each `await` any
other call of the isolate may run, and other isolates run all the time.

The Python part is a collection of synchronous, in-memory subsystems without threads.  It
is hard in another way: nearly every operation runs user code (hooks, watchers, behaviors,
executors, tasks, handlers, stages) which may call back into the object that runs it, or
raise; and what carries messages between its parts is not in the repository, so they have
to expect any order, loss and repetition.

### Components and how they interact

| Component | State | Operations | Talks to |
|---|---|---|---|
| Event bus `core/eventBus.ts` | handlers per channel, optional publisher | `on`, `off`, `once`, `emit` | handlers (awaited), publisher |
| Process manager `core/processManager.ts` | factories, Map key -> process | wildcard `handleEvent`, `stopProcess`, `listActive`, `resetForTests` | bus (both ways), `start`/`stop`/`onEvent` of processes |
| Governance policies `governance/policies.ts` | policy array, three knobs | `register`, `unregister`, setters, guarded `emit` | wraps `eventBus.emit`; audit through the publisher |
| Governance configuration `governance/config.ts` | knobs in memory, entries in KV | three setters, `loadGovernanceConfig` | KV; emits `governance.config.*` |
| Reactive governance `governance/reactive.ts` | none of its own | `applyGovernance` on `governance.config.*` | process manager (`listActive`, `stopProcess`) |
| Event persistence `substrate/events.ts` | requests, storage of the object, KV audit | `publish` with retries, `handleIngest` | is the bus's publisher |
| Substrate layer `substrate/index.ts` | bounded cache per isolate, KV, Durable Object | `write`, `read`, `delete`, `exists`, `transaction`, `shutdown` | KV, Durable Object |
| Kernel IPC `kernel/ipc.ts` | pending replies with timers, listener table | `sendAndWaitReply`, `reply`, `listen`, `broadcast` | a publish/subscribe bus |
| BFT nodes `governance/global_consensus_protocol/hierarchical_bft.py` | per node: senders heard, pending and committed proposals | `on_pre_prepare`, `on_prepare`, `on_commit`, `execute_round` | messages carried by others |
| Consensus rounds, proposals, identities (same directory) | open rounds and results; proposals and their queue; identities with votes | initiate and finalize a round; create and submit; vote and verify | votes counted by others |
| Domain mesh `kernel/world_kernel/multi_domain_unification.py` | registry, edges, routing table, lifecycle calls under way | register, unregister, connect, mark, initialize, shut down | hooks and callbacks |
| Domain channels `kernel/world_kernel/inter_domain_channels.py` | queue, heap, acknowledgements, backpressure | send, flush, inject, receive, acknowledge, create | a carrier |
| World kernel state `kernel/world_kernel/world_kernel_state.py` | tree, log, conflicts, snapshots, rules, watchers | update, get, watch, detect, resolve, snapshot, restore | watchers |
| World kernel lattice `kernel/world_kernel/world_kernel_lattice.py` | levels, events, log, vector clocks | create level, submit, commit, propagate, merge | - |
| World simulation `sim/world_simulation_engine` | runtime, event queue, entities, physics, cognition queues | `step`, `run_until`, checkpoints, `process_events`, entity and event operations, feedback | behaviors, subscribers, callbacks |
| Kernel services `kernel/scheduler`, `kernel/ipc`, `kernel/signals`, `event_bus`, `runtime`, `process`, `memory`, `hypervisor` | queues, handler tables, process table, regions, zones | one method each | tasks, handlers, executors |
| Engines `orchestration`, `tec`, `build`, `sim`, `cognitive` | lists of functions, sessions and their records | run a flow, pipeline, phase, tick, step, function | the functions |
| Routing topology `routing/topology` | nodes with channels | add node, add channel, dispatch | - |
| Everything else | tables, HTTP routes, scripts | section 7 | |

The event path ties the TypeScript parts together: a guarded `emit` asks the policies,
writes an audit record, and hands the event to the bus; the bus calls its handlers, among
them the process manager, which creates or feeds a process; then the bus gives the event
to the publisher, which stores it in a Durable Object.  An administrator's change goes
through the configuration to KV, to the knobs the policies read, and as an event to the
reactive governance, which stops processes.  The one place where two of these parts change
the same state in the middle of each other's calls is process manager and reactive
governance, and these two are composed.

The Python subsystems hardly call each other: the mesh reads the registry's world, the
runtime of the simulation steps physics, entities and events.  These are modelled
together; the others share no state.

### What is hard, and what makes each part correct

* **Process manager.** A call holds a key across an `await` and then deletes whatever the
  key holds.  Correct: one process per key; a listed process belongs to its key and has
  not failed; who was cleaned up stays out; nobody else is lost; bus and Map agree.
* **Reactive governance.** The list of processes is a snapshot, the stops are awaited one
  at a time.  Correct: when a sweep ends, nothing it covers is left.
* **Policies.** The loop over the policies awaits each verdict while `register` sorts the
  very array in place.  Correct: no policy is skipped; a block in force throughout holds.
* **Bus.** Handlers settle at any time, throw synchronously or reject; `once` removes its
  wrapper after the call.  Correct: `emit` waits for what it called, subscribers are not
  skipped, `once` handlers go away.
* **Configuration.** KV, the audit and memory are written in separate steps by overlapping
  calls of several isolates.  Correct: nothing is enforced that KV never held; after an
  undisturbed call memory and KV agree.
* **Persistence.** Requests, answers, the object, its storage and KV fail.  Correct: an
  event is stored at most once, and a resolved publication means stored and accounted for.
* **Substrate layer.** Reads fill the cache after an `await`; two stores and a cache hold
  one key.  Correct: the cache is bounded; what the last undisturbed call left is read.
* **Kernel IPC.** Replies race the registration and the timer; unsubscribing is not
  idempotent.  Correct: entries and waiting calls correspond; a call gets its own answer.
* **BFT nodes.** Messages of any sender, slot and view come in any order, and a commit
  takes the first pending proposal whatever its slot.  Correct: a quorum is behind every
  commit, and proposals are neither lost, invented nor overtaken.
* **Rounds and identities.** Votes come after the decision, twice, or in other numbers than
  there are participants.  Correct: one result per round, from its own votes; a verified
  identity had the votes when it was verified.
* **Domain mesh.** Domains disappear while edges, children and routes name them; lifecycle
  calls nest through callbacks.  Correct: both directions of the hierarchy agree; the tree
  can be built; routes are exact; nothing is left initializing without a reason.
* **Channels.** A queue and a heap behind one capacity, bounded flushes, late and repeated
  acknowledgements, channels replaced in use.  Correct: nothing accepted is lost or sent
  twice; classes keep their order; acknowledgements are counted once.
* **State and lattice.** Watchers update what they watch; conflicts are resolved late; all
  events of a domain share one clock object.  Correct: the log explains the state; watchers
  end up with the latest value; a level holds what was committed; no conflict is missed.
* **Simulation.** User code creates, destroys, pauses and restores in the middle of a step
  and may raise.  Correct: every event is accounted for; no priority is inverted; clocks
  agree; `run_until` ends; collisions make no energy.
* **Services and engines.** User code calls the service that runs it, and raises.  Correct:
  everything is handled once and in order; who was halted stays halted; books match
  storage; a run that returned did every item and is recorded once.

`PROJECT.json` lists each hazard at its line.

## 2. Modules

| Module | Models | Role |
|---|---|---|
| `ProcessRegistry` | what the Map of active processes promises | abstract specification |
| `ProcessManager` | `core/processManager.ts` and the emits it awaits | implements `ProcessRegistry` |
| `ReactiveGovernance` | `governance/reactive.ts` | extends `ProcessManager`: sweeps run among its calls |
| `GovernedEmit` | `governance/policies.ts` | |
| `EventBus` | `core/eventBus.ts` | |
| `EventLog` | what the bus expects of a `PersistentPublisher` | abstract specification |
| `EventPersistence` | `substrate/events.ts` | implements `EventLog` |
| `GovernanceConfig` | `governance/config.ts` | |
| `SubstrateLayer` | `substrate/index.ts` | |
| `KernelIPC` | `kernel/ipc.ts` | |
| `HierarchicalBFT` | `hierarchical_bft.py` | nodes and rounds over them |
| `ConsensusTally` | the coordinator, the proposals, the identities | three parts that share no state |
| `DomainMesh` | `multi_domain_unification.py` | |
| `InterDomainChannels` | `inter_domain_channels.py` | with a carrier that loses, repeats and reorders |
| `WorldKernelState` | `world_kernel_state.py` | |
| `WorldKernelLattice` | `world_kernel_lattice.py` | |
| `WorldSimulation` | runtime, events, entities, forces | one machine of nested calls |
| `PhysicsCollisions` | the collisions of one step | algorithm over exact integers |
| `CognitionIntegration` | `cognition_integration.py` | |
| `KernelDispatch` | scheduler, IPC, signals, bus and runtime loop (Python) | a stack of calls under way |
| `ProcessTable`, `MemoryRegions`, `Hypervisor` | `process/`, `memory/`, `hypervisor/` | |
| `EngineRuns` | the engines that run lists of functions | |
| `RoutingTopology` | `routing/topology` | |
| `MC...` | instances for TLC: constant functions, symmetry, views, which part a behaviour explores | |
| `...Proofs` | inductive invariants and theorems | |

Conventions.  In the TypeScript models one action is one stretch of code between two
`await`s, with everything it does; a call has a record whose `pc` says what it awaits, and
where the record remains after the call has ended it is also the history that properties
speak of.  In the Python models one action is one stretch of code between two pieces of
user code; the calls under way are a stack, and whoever is on top may begin another call,
return or raise.  Variables marked "history" hold nothing that the code holds; guards
read them to bound an instance only.  Definitions named `X_<what is wrong>`, each preceded
by "Slip:", are wrong variants of `X` used by the mutants alone.

### How state and actions correspond to the code

**ProcessManager.** `processes` is the Map, keyed by workspace and event name; `factories`
the registered factories; `start` and `origin` say how far the `start()` of each process
object is and which key it was built for; `call` is one record for each invocation of
`handleEvent` or `stopProcess`.  `handleEvent` is `RouteEvent`, `CreateProcess` (object
registered before `start` is awaited) or `IgnoreEvent`, continued by `OnEventResolves/
Rejects`, `StartResolves`, `StartRejects`, `AnnounceRejects` (the emit of
`process.started` throws, so the `catch` block runs after a successful start),
`FailureEmitted`; `stopProcess` is `StopEntry` or `StopNothing`, then `StopSettles` (its
`finally`) and `Return`.  `trail` holds the events the manager asks the bus to emit about an
object, in order.  That the settling of a promise and the code that continues is one step
loses nothing: the promise's own settling touches no state.  Object ids are unique.
Lifecycle events themselves reach `handleEvent` as wildcard events; no factory is
registered for their names.

**ReactiveGovernance.** A sweep is one invocation of `applyGovernance`; `Begin` is the code up to
the first `await`, `StopNext` one turn of a loop, `Resume` the continuation.  The payload
has the shape of its sender: `governance.config.loaded` carries the lists,
`governance.config.updated` a `{key, value}` pair in which `payload.blocked` is undefined.
A loop visits its snapshot in any order (the code: insertion order).

**GovernedEmit.** `arrays` holds every array object `this.policies` ever was: `register`
sorts the newest in place, `unregister` makes a new one, an evaluation keeps the one it
began with.  Custom policies answer anything.  `Audited` covers both outcomes of the audit.

**EventBus.** An emission goes through `exact`, `wildcard`, `publish`, `error`; a stage
calls all its handlers at once and waits for them; a plain function may throw at its
caller and ends the emission.  Every invocation of a handler is an element of `running`
and then of `settled`.

**EventPersistence.** `pub` is `publish` with its retry loop, `requests` what is at the object, in
the phase `pc` of `handleIngest`.  `Disconnect` loses the answer, `Drop` the request or the
object.  The `Request` is built once and `fetch` consumes its body: a second `fetch` of it
throws before anything is sent.  This behaviour of `fetch`, and that storage applies a `put`
or rejects, are assumptions about the platform.

**GovernanceConfig.** `kv` is shared, `mem` per isolate; a setter is `BeginSet`, `PutInKV` or `PutFails`
(applied or not), `ApplySet`; a load reads and applies the keys one by one; `Restart`
resets the memory of an isolate and ends its calls.  KV is modelled as one consistent store
(stronger than Cloudflare's) and a write of a restarted isolate that is still under way is
taken as lost.

**SubstrateLayer.** `Serve` is the store's side of a request, `Got`, `Written`, `Deleted`,
`ExistsAnswers` and `Fails` what the layer does with the answer.  Expiry is a step that may
happen at any time, so the unit of the ttl does not matter to the model.  The modifier of
`transaction` is a constant operator.  `last` and `mixed` are history: what the last
undisturbed call on a key left, and whether KV still held another value beside a durable one.

**KernelIPC.** `pending` is `pendingReplies` with its timers, `handlers` and `members` the table of
listener Sets: a Set is named after the call of `listen` that created it, because an
unsubscribe function works on the Set it captured.  The bus is external: `publish` reaches
the subscribers at once and its promise resolves or rejects later.

**HierarchicalBFT.** A node is a record with the senders heard per slot (a view and a
sequence number), what is pending, what is committed and the PREPARE messages it made.  The
handlers are operators from record to record; nothing in the repository carries messages,
so any handler may be called at any time with any sender, which includes loss, repetition,
reordering and forged senders.  `ExecuteRound` is `execute_round`, which calls the same
handlers: every node hears the primary's prepare and its own commit.

**ConsensusTally.** Ids are uuids, fresh at each creation.  A round is finalized with any
counts, since the code compares them with nobody; the threshold 0.67 is kept in integers.

**DomainMesh.** `domains` holds the registrations; the tree is in `parent` and `children`.
`edges` keeps insertion order, because the search extends paths in that order and a later
edge overwrites an earlier route; `Routes` is that search, `Dequeue` one turn of it over all
edges.  `DomainTree` is the recursion of `get_domain_tree`, one generation of children after
another; that it ends is part of `TreeIsWhole`.  `stack` holds the calls of
`initialize_domain` and `shutdown_domain`: hooks and callbacks may call any operation
before the call that runs them goes on, and a callback that raises leaves the call before
any hook has run.  Tiers other than world behave alike.

**InterDomainChannels.** A channel is an object, created for a pair and found through the
mesh until another replaces it there; its users keep it.  A message is its place in the
history of its channel.  The heap gives critical messages in the order of their sequence
numbers, so a set with its minimum stands for it.  `Deliver` is the carrier: any flushed
message, any number of times, to any object of the pair.

**WorldKernelState.** `tree` maps paths to nodes, those that reads create included.  An
update pushes a notification and `Notify` is one turn of its loop, between which watchers
may update.  Whether time passes between two updates is a choice.  `rewritten` records
that a resolution or a snapshot wrote past the log, `nested` that an update met a
notification of its own path; the properties say what holds without them.

**WorldKernelLattice.** The clock of an event is the clock object of its domain, so
`DetectConflicts` compares the clocks of today; `stamp` keeps what the clock was on
submission.  `CausalityChain` unrolls the recursion of the code into a to-do list; it makes
one call for the event and one for every mention of a parent, and never needs more.

**WorldSimulation.** `pc`, `todo` and `current` say where the step in progress is.  User
operations are possible wherever behaviors, subscribers or callbacks run (`MayCall`), and
between steps.  Timed forces expire on the wall clock: any number of them is gone at the
next step.  Entities are visited in any order (the code iterates a set).

**PhysicsCollisions.** Exact integers on one axis: every velocity is kept times a common
scale.  The axes do not mix in the code; rounding is left out.

**KernelDispatch.** Each of the five services puts a frame on the stack when it calls user
code.  Taking an item from its queue and starting its handler is one action, because
nothing runs in between; `Returns` and `Raises` end the frame on top.  A policy of the
scheduler may boost priorities or drop tasks, as the ones in `kernel/scheduler/examples` do.

**ProcessTable, MemoryRegions, Hypervisor.** Operations of the managers by pid or name,
with objects that were replaced under their name living on.  Values in memory are mutable
and are measured anew when freed, as `len(str(value))` is.

**EngineRuns.** Five kinds of lists are walked as they grow; a flow looks its nodes up
and follows active links one step; three kinds of runs are recorded in the session found
when they began.

**RoutingTopology.** The channels of a node in order; the first of a name is found.

## 3. Runs

| Run | Question | Instance | States |
|---|---|---|---|
| `manager` | What may the Map list; when can a process get lost from it; do bus and Map agree; do stops and starts end; does the manager implement `ProcessRegistry`? | 1 key, 2 objects, 3 calls, 1 reset | 158,000 |
| `sweep` | Does a sweep clear what it covers, and how can a process escape its clean-up? | 2 workspaces, 2 objects, 4 calls, 1 sweep | 1,730,000 |
| `awaits` | Does `emit` wait, are handlers skipped, does `once` go away?  Is only enforced what KV held?  Is the cache bounded, the last value read, a lost update explained? | bus: 2 handlers and a wrapper, 2 emissions, 4 changes; configuration: 2 isolates, 2 calls; layer: 2 keys, 2 calls, cache of 1 | 2,890,000 |
| `delivery` | Is every policy asked, does a block hold?  Stored once, accounted for, `EventLog` implemented?  Own answers, no entry left?  Does all of it end? | guard: 2 workspaces, 2 custom policies, 3 changes; publisher: 2 publications, 3 attempts, 4 faults; IPC: 2 requests, 3 listens | 317,000 |
| `consensus` | Is a quorum behind commits, are proposals kept in order, can a round decide alone?  One result per round?  Verified by votes? | 2 nodes, 3 senders, 2 slots, 2 proposals, 6 calls; 2 rounds; 4 validators | 394,000 |
| `mesh` | Do both directions of the hierarchy agree, can the tree be built, are routes exact, who stays initializing?  Is nothing lost or doubled in channels, are acknowledgements counted, is order kept? | 3 domains on a triangle, calls 2 deep; 2 channel objects, capacity 2, 3 messages | 2,920,000 |
| `global_state` | Does the log explain the state, do watchers end up current, do versions count?  Do levels hold what was committed, are chains ancestries, are conflicts missed? | a two-level tree, 2 watchers, 2 updates, 1 conflict, 1 snapshot; 3 events, 4 submissions, 3 domains, 2 levels, 2 merges | 2,190,000 |
| `simulation` | Are events accounted for, priorities kept, clocks consistent; does `run_until` end; is energy gained; is the latest feedback learned? | 2 entities, 1 object, 3 events, 3 steps, 1 cascade level; 3 colliding objects; 2 agents | 744,000 |
| `services` | Is everything handled once and in order; does who is halted stay halted; do books match storage; do runs complete and get recorded? | 2 names, 3 items of a kind, calls 2 deep (processes: 3) | 2,160,000 |
| `manager_orphan`, `sweep_block_update`, `bft_agreement` | one statement of a comment, test or document each, which the code does not keep (section 6) | as above; BFT: 8 calls | - |

**One part at a time.**  Where a run covers parts that share no state, its MC module has a
variable `under` that picks one of them in the initial state; the others rest.  The
interleavings of parts that cannot touch each other add no behaviour of either, only
products of states, so every reachable state of every part is still met.  Inside one part
some MC modules restrict which operations meet: where this is done it is because the
operations write disjoint variables (access rules and conflicts of the tree; parents,
levels and clocks of the lattice), or is a smaller instance (the configuration's approval
of tools is set like the list of workspaces and stays; overlapping calls of the layer concern
one key, expiry doing what an eviction would; the mesh has one domain, the world it reads,
and the lifecycle two).

Why the bounds are enough for what is asked.

* Three calls are what a failed start, a stop and a new event need.  The double removal of
  one process by a stop and a failing start, followed by the loss of its successor, takes
  four calls (first event, stop, second event, and one more stop): `manager_orphan` and
  `sweep` have four; with three calls a process is lost only by a reset, so the reset is
  in `manager`.  What four calls show is proved for any number (section 5).
* `sweep` hides `trail` with a VIEW: the run's guards and invariants do not read it.  Two
  workspaces make covered and uncovered processes; a second sweep adds nothing but more
  stops, and is covered by the theorem.
* Three changes during one emission: register before the cursor, unregister, register
  again.  Four subscription changes: subscribe a plain handler and a wrapper, attach the
  publisher, unsubscribe.
* Two publications, as they share only the bound on faults; four faults exceed the three
  attempts.  Three calls of `listen`: two that share a Set, one after it was emptied.
* Two overlapping calls are enough for every overwrite of one value in configuration and
  layer; the cache of one entry under two keys makes every insertion evict.
* Six calls of BFT handlers reach a commit (one pre-prepare, three commits at f = 1) and
  leave two for what disturbs it; the slots are one inside and one outside the watermarks.
  The theorems hold for any number of nodes, senders, faults and calls.
* The triangle has two ways to a domain, one longer, and a cycle of two edges; three domains make a
  grandchild, which survives its parent.  Two channel objects are a replacement or two
  pairs; three messages overflow capacity 2 and need two flushes.
* Two updates and calls two deep make a watcher overtake the notification it is in.  Three
  events make a cycle, a repeated parent and an unknown one.
* Three events give every order of two priorities and a cascade that raises (depth 1 is
  then used up for good).  Three colliding objects are the smallest number in which a later
  pair sees what an earlier one left.
* Two calls deep, a function calls the engine that runs it once; the theorem about processes
  holds for any depth.

`CHECK_DEADLOCK FALSE` is set where the instance really comes to rest: all calls,
emissions, publications, steps or items have been used up.  Symmetry is declared only
over identifiers that no guard, choice or constant distinguishes, and in no run that
checks liveness.

## 4. Fairness

Liveness is checked in `manager`, `delivery` and `simulation`.  In the TypeScript models
the fairness says that the event loop continues a call whose promise has settled (a
JavaScript engine runs every microtask and every due timer), and that the promises awaited
settle: `start`, `stop`, `onEvent` and `emit` in the manager (`FairSpec`), the verdicts in
the guarded emit, `publish` in IPC.  That is an assumption about user code.  In
`EventPersistence` a request at the object that is not lost is worked on and answered;
failures are never fair, but bounded by `MaxFaults`.  In `WorldSimulation`, `Progress` says
that user code returns and that a begun `run_until` takes its steps: it is one loop of one
thread.  Requests from the outside (events, stops, replies, user operations) are never
fair.  `DeliverySpec` states the same conditions for each part of the composed module.

## 5. What is proved

All theorems hold for arbitrary sets of calls, processes, keys, nodes, domains, and so on.
The constants' assumptions are the named `ASSUME`s of the modules, or the operator
`ConstantsOK` where a module is instantiated rather than extended; there the theorems
assume it explicitly and the MC modules have TLC evaluate it.

* `ProcessManagerProofs`.  `IInv` joins the type invariant with `CallHoldsItsProcess` (a
  suspended call holds an object together with the key it was created for, and a call that
  has its clean-up ahead has not cleaned up), `BornHasOrigin` (an object has an origin
  exactly when it was built) and the three invariants proved from it: `ListedIsLive`,
  `RemovedIsUnlisted`, `OrphanNeedsOverlap`.  The strengthening is needed because a delete
  names a key and not an object: only through the call's record does one know which object
  the key was meant for.  Each action is a quiet step (Map unchanged), a clean-up, a
  creation or a reset; one lemma for each kind.  `ImplementsRegistry` is step simulation.
  `TrailInv` adds what the bus was asked to emit: a listed object that starts has a call
  awaiting its `start` and no lifecycle event yet, a listed one that runs has exactly
  `process.started`; `ManagerInv` speaks only of moments with no call in flight and is not
  inductive without it.
  Reactive governance: `RInv` adds to `IInv` that, inside a loop, a covered object
  that is still listed is in the remaining snapshot or is being stopped (`LoopPending`).
  That the Map never takes an object back comes from the refinement step of the manager.
  Theorems: `TypeCorrect`, `ListedStaysLive`, `RemovedStaysUnlisted`, `OrphansNeedOverlap`,
  `ManagerKept`, `ImplementsRegistry`, `SweepsTyped`, `SweepsClear`, `EscapesAreOrphans`.
* `DeliveryProofs`.  Publisher: the body can be sent once, and it is sent in the first
  attempt (`Unsent`, `FirstAttemptOnly`); `WorkDone` says what the object has done for a
  request by its phase.  `PublisherIsLog`: the publisher implements `EventLog`, for any number of
  attempts and failures.  That storing twice is ruled out rests on the same fact that makes
  the retries useless (section 6); that it never rejects without a cause needs, per
  attempt, what failed (`Caused`).  Guarded emit: `GuardInv` says of every emission that
  what was registered since before it began is in the newest array and in its own, and
  what its loop has passed was asked, because an insertion before the cursor moves
  members forward, never back over it.  IPC: `IPCInv` gives each subscription of a
  process a handler of its own in the Set it used, until someone listens or unsubscribes
  again.  Theorems: `NothingStoredTwice`, `AcceptedAccountedFor`, `NoRejectionInVain`,
  `PublisherIsLog`, `DeliveryKept`, `PoliciesConsulted`.
* `AwaitsProofs`.  Bus (`BusInv`): the handlers of a channel are distinct, an emission's
  stage has called everyone who was there when it began, and a wrapper that is still
  subscribed has not settled there.  Configuration (`ConfigInv`) and layer (`LayerInv`) use one
  argument: a call that is alone on its keys has met no writer, so what it read or wrote
  is what the store holds (`AloneAgrees`, `AloneHolds`); what is settled, or known, has no
  writer under way, so nobody can make it untrue unnoticed (`SettledAgrees`, `KnownHolds`).
  For the layer that includes reads under way, since they fill the cache: `Truly` says what
  such a read has learned is still so.  Theorems: `AwaitsKept`, `UndisturbedKept`, `ReadsKept`;
  `LayerKept` is about the layer by itself, where overlapping calls may have any keys.
* `ConsensusProofs`.  The handlers of a node map a record to a record, so the invariant is
  one of a single record, `NodeOK`: its type, `committed \o pending` = the payloads sent,
  and a slot with a quorum behind anything committed.  One lemma per handler; a round is
  their composition.  Quorums only grow, hence cardinalities of subsets.  For
  `RoundsNeedOthers`: where every node heard its own commits only, no slot has more than
  one sender, which is less than 2f + 1, so nobody committed and no round can have decided;
  rounds decided earlier keep their witness because the senders heard only grow
  (`HeardMore`).  The tally: finalizing moves a round from the active ones to the results
  (`RoundsDecidedOnce`); votes are counted against those cast before and after a change of
  vote, in integers, so that two thirds are exact (`VerifiedIffSupported`).  Composed:
  `ConsensusKept`, `OneResultKept`, `VerifiedKept`.
* `MeshProofs`.  `ChildrenMatchParents` element by element, one world, parents ever issued.
  Unregistering leaves the parents of the children dangling, and what rules out that such
  a link is mistaken for a new domain's is that ids are never issued twice: this is why
  `ParentsIssued` is needed.  For the lifecycle: a domain that is initializing is on the
  stack or was left by a callback that raised; popping a frame makes its domain active.
  Channels: `ChannelOK` is about one channel (acknowledgements pending, places of messages,
  order within a class, acknowledged after flushed); a flush is a loop, and what one turn
  keeps all turns keep (`LoopKeeps`).  Tree: parents are registered before their children
  (`Ranked`), so no domain is below itself; walking the children and walking the parents are
  two growing families of sets of ids, which stand still after as many steps as there are
  ids (`Saturates`).  Routes: a turn of the search keeps `SearchOK` (what is visited is
  routed or waits, paths are simple and of healthy edges) and uses up one of the turns that
  the queue and the edges from unvisited domains allow (`Turns`), so the search ends and its
  table is closed under healthy edges.  Theorems: `HierarchyKept`, `InitializationEnds`,
  `MeshKept`, `AcknowledgedAfterFlush`, `LeavesInOrder`, `TreeShown`, `RoutesKept`.
* `GlobalStateProofs`.  Lattice: what a clock knows of a domain is at most what that domain
  knows of itself (`OwnKnowledge`); a stamp is below the clock it was taken of, and frozen
  in all foreign entries until its domain merges (`FrozenUnlessMerged`); a later event of
  another domain has the later tick.  From these two stamps that were incomparable stay
  incomparable as today's clocks: `ConflictsAreReported`.  `LevelsInv` explains levels and
  global state by the log.  Tree (`TreeInv`): for a path that met no notification of its
  own, at most one is under way, it tells the current value, and who has not heard it is
  among those it still comes to (`OneUnderWay`, `TellsCurrent`, `ToldSoFar`).  Causal chain:
  a call of the depth-first search keeps `ChainOK` (no event twice; each after the first,
  and each id still to visit, is named by an earlier one; logged parents of the chain are in it
  or still to visit) and leaves one call less of those that mentions of parents allow; when
  none is left the chain is closed under logged parents, and so are the ancestors
  (`AncestorsAre`).  Theorems: `BeforeIsStrict`, `ConflictsAreReported`, `GlobalKept`,
  `WatchersTold`, `ChainsAreAncestries`.
* `ServicesProofs`.  One invariant for each service.  `DispatchInv`: every item waits, is under
  way or is over, exactly one of these; queues rise in the order of sending and have none in
  common; what was taken from a queue was sent before all that waits there.  `ProcessInv`:
  only a run under way, and `Run`, which refuses halted processes, write another state.
  `MemoryInv`: handles and storage differ only by calls past the pool.  `ZonesInv`: tasks
  belong to zone objects, not to names.  `EnginesInv`: a run has executed its list up to
  where it is, whichever runs began inside it.  `RoutingInv`: the channels of a node are those
  added since it was, in order.  Theorems: `ServicesKept`, `HandledOnceKept`, `TakenInOrderKept`,
  `RunsCompleteKept`, `ZonesKept`, `RoutingKept`, `EnginesKept`, `StoppedStaysStopped`,
  `LeftRunningRaised`, `HandlesAreExact`, `CapacityHolds`.
* `SimulationProofs`.  Every operation may run inside every step, so the invariants speak of
  the step in progress.  `WorldInv` (active entities exist), `ClockInv` (clocks agree where
  the step is).  `EventsInv`: each event is in one place; it has all its children or none, and
  only once it is logged (`CascadesOK`, which is why cascades end); of one batch what is
  logged, under way and waiting is in the order of priorities (`OrderOK`), because sorting
  leaves the batch sorted and what joins the queue later belongs to a later batch.
  `FeedbackInv`: feedback is queued in the order received, so the last lesson wins, and
  what was processed before a registration has a smaller round.  `CollisionInv`: a sum
  over all objects changes by what the colliding pair changes; an elastic exchange keeps
  momentum and energy exactly, and elasticities below 1 only take energy away.  Theorems:
  `SimulationHolds`, `EventsAreAccounted`, `PrioritiesAreObeyed`, `AgentsLearnTheLatest`,
  `CollisionsGainNothing`.

Where an MC module composes parts, its theorems come from those of the parts: a step of the
composition is a step of one of them and leaves the others' variables alone
(`PartsMove`, `PartsKept`), so a behaviour of the composition is one of each.

The library's induction theorems take an operator as a parameter, which the installed
provers cannot instantiate.  Where a loop or a list needs induction, a least counterexample
replaces it (`LeastElement`, from `WellFoundedInduction`): the first turn that breaks what
every turn keeps.

Some forms in the models serve the proofs and change nothing: an element is removed from a
sequence by its place (`RemoveAt`) and not by a filter, a list sorted after an insertion
is the list with the element inserted in its place, a sorted queue is given by the rank of each
event (`ByPriority`), and loops over a tree, a mesh or a cascade are recursive functions of the
number of turns (`Generation`, `Followed`, `CausalChain`), because the provers know nothing of
`SelectSeq`, sorting and folds.  That such a loop gets enough turns is part of what
`TreeShown`, `RoutesKept` and `ChainsAreAncestries` prove.

Only model-checked: liveness (`CallsEnd`, `DeliveryEnds`, `RunEnds`), which the proof system does
not reach.  Every other property of a passing run is a theorem, the refinements of
`ProcessRegistry` and `EventLog` included.  The theorems about composed modules are about
the behaviours those modules explore, so where an MC module restricts which operations
meet (section 3), so does its theorem; what it says of single operations and loops does not
depend on it.  The assumptions of the simulation are that machines of entities are relations
on the states, and bounds and numbers of affected entities naturals; that of the
collisions, positive masses, integer velocities and elasticities between 0 and 1.

## 6. What the code does otherwise than it says

* `manager_orphan`: after two overlapping clean-ups of one process, the second deletes the
  process started in between; it runs on, and `listActive` ("List active processes",
  `core/processManager.ts:210`) does not return it.  `OrphanNeedsOverlap` says that this is
  the only way.
* `sweep_block_update`: blocking a workspace stops nothing, because the event of the setter
  carries `{key, value}` and the sweep reads `payload.blocked`; the test
  `tests/governance.reactive.test.ts:50` expects the non-critical processes to stop.
* `bft_agreement`: a commit quorum of one slot commits whatever proposal is first pending,
  so two nodes commit different proposals though the primary never equivocates; the README
  of `governance/global_consensus_protocol` promises Byzantine fault tolerance.

Seen while modelling, and part of the models, without a run of their own.

TypeScript.  Every attempt of `publish` passes the same `Request`, whose body the first one
consumes, so one transient failure is final (`substrate/events.ts:69`).  A reply made before
the promise of `publish` has resolved finds no pending entry, and the caller times out
(`kernel/ipc.ts:65`).  A throwing handler of `eventbus.error` rejects the emitter although
`core/eventBus.ts:80` says non-fatal; two overlapping emissions call a `once` handler twice.
`loadGovernanceConfig` leaves a maintenance window that is absent from KV in place
(`governance/config.ts:116`) and nothing but tests calls it; the maintenance loop stops
critical processes too (`governance/reactive.ts:37`); overrides of criticality are written
to a KV key that nothing reads (`governance/admin.ts:61`); the comment of
`core/processManager.ts:126` prefers the registry, the code the process's own criticality.
`substrate/index.ts` hides a durable value behind an older KV one (l.205), does not ask the
Durable Object in `exists` (l.293), and gives one ttl to the cache in milliseconds and to KV
in seconds (l.47); the kv_error markers are listed as events (`substrate/events.ts:132`).

Consensus.  A round is finalized with more votes than participants, and again for another
round of the same proposal; a verified identity stays verified whatever votes follow, and
votes of validators that nobody registered count.  Votes for and against a governance
proposal are never counted.

World kernel.  Unregistering a domain leaves its edges, routes and the parents of its
children; once the world is gone no other can be registered and `get_domain_tree` raises.
Creating a channel again loses what waits in the old one; the capacity check does not see
the heap, so critical messages exceed it.  A conflict resolved late overwrites newer values
without a log entry, a notification or a look at the access rules, and restoring a snapshot
keeps the log.  `get_global_state` says the world level overrides, but levels are merged in ascending
order and the last wins (`world_kernel_lattice.py:185`).

Simulation.  A cascade of the lowest priority raises after the depth was incremented; after
`max_cascade_depth` such failures nothing cascades.  `event_history` lacks cascaded events, so
their causal chain is empty.  A force of duration 0 stays for ever.  An entity destroyed in
its own turn runs its remaining behaviors; `step` runs a paused simulation; a checkpoint
restores the time only; `transition_to` does not touch the active entities.

Services and engines.  A policy that boosts priorities does not sort the queue again.  A
process killed by its own executor becomes ready, one that raises stays running.  Replacing
a value in memory leaks its size, a mutated one gives back another size than it took, and
freeing a key that was allocated past the pool raises after freeing.  A terminated zone can be started.
`create_channel` loses queued messages; a session replaced during a run loses its record.  A
nested step of a model is overwritten by the outer one.  Links are followed one step.  Adding
a routing node again drops its channels, and a second channel of a name is never found.

## 7. What is not modelled

* `sim/identitySyncProcess.ts` does not parse; `sim/boot.ts` only wires; workers, gateways and
  admin routes validate and forward, several to modules that are not in the repository.
* The criticality registry, suites, umbrella law book, security layer, shell, console and
  Python substrate: tables and conjunctions of user predicates, with no protocol.  Build and
  deployment files have no behaviour.
* Floating-point numerics: integration of motion, fields, identity physics.  Of the physics
  the order-dependent part, the collisions of a step, is modelled.
* Inside modelled components: read-only queries and statistics (`listEvents`, `healthCheck`,
  history by time or source), `broadcast` of the TypeScript IPC (a send to each listed
  process), view changes of the BFT nodes (no code performs them), the registries of laws
  and global identities beside the proposals, and `add_child` and `get_entity_tree` of
  entities, which no other code reads.
* Assumptions about platforms: `fetch` consumes a body once, Durable Object storage applies a
  `put` or rejects it, KV is one consistent store (stronger than Cloudflare's), and a write
  of a restarted isolate that is still under way is lost.

`PROJECT.json` gives the status of every component with its reason.
