--------------------------- MODULE KernelDispatch ---------------------------
(***************************************************************************)
(* The services through which parts of the kernel call each other:         *)
(* kernel/scheduler, kernel/ipc, kernel/signals, event_bus and runtime.    *)
(* All is synchronous.  Tasks, policies, handlers and subscribers are user *)
(* code that runs inside a call of a service, calls services itself and    *)
(* may raise; an exception ends one call and arrives in the code that made *)
(* it, which goes on or raises in its turn.  The calls under way are a     *)
(* stack, and every operation is an operation of the code at its top.      *)
(***************************************************************************)
EXTENDS Naturals, Sequences, FiniteSets, SequencesExt

CONSTANTS
    Names,       \* names of IPC channels, bus channels, signals and runtime events
    Priorities,  \* priorities of added tasks
    Policies,    \* names of policies
    MaxItems,    \* bound: tasks, messages, ... of one kind
    MaxBoosts,   \* bound: boosts of priorities
    MaxDepth     \* bound: calls under way

ConstantsOK == Priorities \subseteq Nat

VARIABLES
    tasks,       \* SchedTasks in the order of add_task
    ready,       \* SchedQueue.tasks: places in tasks
    policies,    \* names of the policies of the scheduler
    messages,    \* channel of each IPCMessage
    queues,      \* the queue of each IPCChannel object
    channel,     \* IPCRegistry.channels: the object of each name, 0 if there is none
    handlers,    \* names with a handler: of messages, signals and runtime events
    trapLog,     \* trap_log
    signals,     \* number of signals raised
    subscribers, \* the number of subscribers of each EventChannel object
    busChannel,  \* EventBus.channels
    published,   \* number of events published
    events,      \* RuntimeContext.events
    emitted,     \* the name of each event emitted
    stack,       \* calls under way, the innermost last
    boosts,      \* history: boosts of priorities
    taken,       \* history: what was taken from a queue, in order
    ended        \* history: how the items' calls ended

scheduler == <<tasks, ready, policies, boosts>>
ipc == <<messages, queues, channel>>
signaling == <<trapLog, signals>>
bus == <<subscribers, busChannel, published>>
runtime == <<events, emitted>>
history == <<taken, ended>>
vars == <<scheduler, ipc, signaling, bus, runtime, history, handlers, stack>>

Kinds == {"task", "message", "signal", "publish", "event"}

\* sorted: the priority at the last sort of the queue, a history variable.
SchedTask == [priority : Nat, sorted : Nat, completed : BOOLEAN]

\* at, of: progress of a call that walks a list; source: object it began with.
Frame == [kind : Kinds \cup {"policies"}, id : Nat, at : Nat, of : Nat, source : Nat]

SchedulerInit == tasks = <<>> /\ ready = <<>> /\ policies = {} /\ boosts = 0
IPCInit == messages = <<>> /\ queues = <<>> /\ channel = [n \in Names |-> 0]
SignalInit == trapLog = <<>> /\ signals = 0
BusInit == subscribers = <<>> /\ busChannel = [n \in Names |-> 0] /\ published = 0
RuntimeInit == events = <<>> /\ emitted = <<>>

Init ==
    /\ SchedulerInit /\ IPCInit /\ SignalInit /\ BusInit /\ RuntimeInit
    /\ handlers = [message |-> {}, signal |-> {}, event |-> {}]
    /\ stack = <<>> /\ taken = <<>> /\ ended = {}

Call(kind, id, of, source) ==
    Append(stack, [kind |-> kind, id |-> id, at |-> 1, of |-> of, source |-> source])
CanCall == Len(stack) < MaxDepth
Take(kind, id, source) == Append(taken, [kind |-> kind, id |-> id, source |-> source])
End(kind, id, how) == ended \cup {[kind |-> kind, id |-> id, how |-> how]}

-----------------------------------------------------------------------------
(* KernelScheduler *)

\* Slip: an added task waits at the end.
Sorted_Not(q, prio) == {q}
\* A stable sort, the highest priority first: in each of its results, and there is one,
\* the places of q follow each other in that order.
Sorted(q, prio) ==
    LET before(i, j) == prio[q[i]] > prio[q[j]] \/ (prio[q[i]] = prio[q[j]] /\ i < j)
        orders == {m \in [DOMAIN q -> DOMAIN q] :
                      Range(m) = DOMAIN q /\ \A j, k \in DOMAIN q : j < k => before(m[j], m[k])}
    IN  {[k \in DOMAIN q |-> q[m[k]]] : m \in orders}

AddTask(p) ==
    /\ Len(tasks) < MaxItems
    /\ LET added == Append(tasks, [priority |-> p, sorted |-> p, completed |-> FALSE])
           prio == [i \in DOMAIN added |-> added[i].priority]
       IN  /\ ready' \in Sorted(Append(ready, Len(added)), prio)
           /\ tasks' = [i \in DOMAIN added |->
                          IF i \in Range(ready') THEN [added[i] EXCEPT !.sorted = prio[i]] ELSE added[i]]
    /\ UNCHANGED <<policies, boosts, ipc, signaling, bus, runtime, history, handlers, stack>>

AddPolicy(n) ==
    /\ policies' = policies \cup {n}
    /\ UNCHANGED <<tasks, ready, boosts, ipc, signaling, bus, runtime, history, handlers, stack>>

\* The scheduler takes the next task, or is idle and returns; rest is the stack below.
NextTask(rest) ==
    IF ready = <<>>
    THEN stack' = rest /\ UNCHANGED <<ready, taken>>
    ELSE /\ ready' = Tail(ready)
         /\ taken' = Take("task", Head(ready), 0)
         /\ stack' = Append(rest, [kind |-> "task", id |-> Head(ready), at |-> 1, of |-> 1, source |-> 0])

\* run_once; run is a sequence of them.
RunOnce ==
    /\ CanCall
    /\ IF policies = {} THEN NextTask(stack)
       ELSE stack' = Call("policies", 0, Cardinality(policies), 0) /\ UNCHANGED <<ready, taken>>
    /\ UNCHANGED <<tasks, policies, boosts, ended, ipc, signaling, bus, runtime, handlers>>

AtTop(kind) == stack # <<>> /\ Last(stack).kind = kind

\* A policy changes priorities in place; the queue is not sorted again.
PolicyBoosts(i) ==
    /\ AtTop("policies") /\ boosts < MaxBoosts
    /\ Contains(ready, i)
    /\ tasks' = [tasks EXCEPT ![i].priority = @ + 1]
    /\ boosts' = boosts + 1
    /\ UNCHANGED <<ready, policies, ipc, signaling, bus, runtime, history, handlers, stack>>

\* What is at a set of places of q, in its order: one sequence.
Kept(q, at) ==
    LET orders == {m \in [1 .. Cardinality(at) -> at] : \A j, k \in DOMAIN m : j < k => m[j] < m[k]}
    IN  {[k \in DOMAIN m |-> q[m[k]]] : m \in orders}

\* A policy drops the tasks below a threshold.
PolicyDrops(threshold) ==
    /\ AtTop("policies")
    /\ ready' \in Kept(ready, {k \in DOMAIN ready : tasks[ready[k]].priority >= threshold})
    /\ ended' = ended \cup {[kind |-> "task", id |-> i, how |-> "dropped"] : i \in Range(ready) \ Range(ready')}
    /\ UNCHANGED <<tasks, policies, boosts, taken, ipc, signaling, bus, runtime, handlers, stack>>

\* A dictionary that grew while it was walked raises, after its last policy too.
PolicyReturns ==
    LET f == Last(stack) IN
    /\ AtTop("policies")
    /\ IF f.of = Cardinality(policies) /\ f.at = f.of THEN NextTask(Front(stack))
       ELSE /\ stack' = IF f.of # Cardinality(policies) THEN Front(stack)
                        ELSE [stack EXCEPT ![Len(stack)].at = @ + 1]
            /\ UNCHANGED <<ready, taken>>
    /\ UNCHANGED <<tasks, policies, boosts, ended, ipc, signaling, bus, runtime, handlers>>

-----------------------------------------------------------------------------
(* Handlers of messages, signals and runtime events are replaced silently. *)

RegisterHandler(kind, n) ==
    /\ handlers' = [handlers EXCEPT ![kind] = @ \cup {n}]
    /\ UNCHANGED <<scheduler, ipc, signaling, bus, runtime, history, stack>>

\* What was taken runs in its handler, or is gone if there is none.
Handle(kind, n, id, source) ==
    IF n \in handlers[kind]
    THEN stack' = Call(kind, id, 1, source) /\ UNCHANGED ended
    ELSE ended' = End(kind, id, "no_handler") /\ UNCHANGED stack

-----------------------------------------------------------------------------
(* IPCEngine *)

\* A channel of that name is replaced, with the messages that wait in it.
CreateChannel(n) ==
    /\ Len(queues) < MaxItems
    /\ queues' = Append(queues, <<>>)
    /\ channel' = [channel EXCEPT ![n] = Len(queues')]
    /\ UNCHANGED <<messages, scheduler, signaling, bus, runtime, history, handlers, stack>>

Send(n) ==
    /\ Len(messages) < MaxItems
    /\ channel[n] # 0
    /\ messages' = Append(messages, n)
    /\ queues' = [queues EXCEPT ![channel[n]] = Append(@, Len(messages'))]
    /\ UNCHANGED <<channel, scheduler, signaling, bus, runtime, history, handlers, stack>>

DispatchMessage(n) ==
    /\ CanCall
    /\ channel[n] # 0 /\ queues[channel[n]] # <<>>
    /\ queues' = [queues EXCEPT ![channel[n]] = Tail(@)]
    /\ taken' = Take("message", Head(queues[channel[n]]), channel[n])
    /\ Handle("message", n, Head(queues[channel[n]]), channel[n])
    /\ UNCHANGED <<messages, channel, scheduler, signaling, bus, runtime, handlers>>

-----------------------------------------------------------------------------
(* SignalEngine: the trap is logged after its handler has returned. *)

RaiseSignal(n) ==
    /\ CanCall /\ signals < MaxItems
    /\ signals' = signals + 1
    /\ Handle("signal", n, signals', 0)
    /\ trapLog' = IF n \in handlers.signal THEN trapLog ELSE Append(trapLog, signals')
    /\ UNCHANGED <<taken, scheduler, ipc, bus, runtime, handlers>>

-----------------------------------------------------------------------------
(* EventBus of Python *)

CreateBusChannel(n) ==
    /\ Len(subscribers) < MaxItems
    /\ subscribers' = Append(subscribers, 0)
    /\ busChannel' = [busChannel EXCEPT ![n] = Len(subscribers')]
    /\ UNCHANGED <<published, scheduler, ipc, signaling, runtime, history, handlers, stack>>

ChannelSubscribe(c) == subscribers' = [subscribers EXCEPT ![c] = @ + 1]

Subscribe(n) ==
    /\ busChannel[n] # 0 /\ subscribers[busChannel[n]] < MaxItems
    /\ ChannelSubscribe(busChannel[n])
    /\ UNCHANGED <<busChannel, published, scheduler, ipc, signaling, runtime, history, handlers, stack>>

\* of: subscribers when the event was published, a history field.
ChannelPublish(c) ==
    IF subscribers[c] = 0
    THEN ended' = End("publish", published', "returned") /\ UNCHANGED stack
    ELSE stack' = Call("publish", published', subscribers[c], c) /\ UNCHANGED ended

Publish(n) ==
    /\ CanCall /\ published < MaxItems
    /\ busChannel[n] # 0
    /\ published' = published + 1
    /\ ChannelPublish(busChannel[n])
    /\ UNCHANGED <<taken, subscribers, busChannel, scheduler, ipc, signaling, runtime, handlers>>

-----------------------------------------------------------------------------
(* RuntimeEngine *)

Emit(n) ==
    /\ Len(emitted) < MaxItems
    /\ emitted' = Append(emitted, n)
    /\ events' = Append(events, Len(emitted'))
    /\ UNCHANGED <<scheduler, ipc, signaling, bus, history, handlers, stack>>

\* Slip: the event stays queued until its handler has returned.
Rest_All == events
Rest == Tail(events)

\* tick; run is a sequence of them.
Tick ==
    /\ CanCall /\ events # <<>>
    /\ events' = Rest
    /\ taken' = Take("event", Head(events), 0)
    /\ Handle("event", emitted[Head(events)], Head(events), 0)
    /\ UNCHANGED <<emitted, scheduler, ipc, signaling, bus, handlers>>

-----------------------------------------------------------------------------
(* The code at the top of the stack returns or raises *)

Returns ==
    LET f == Last(stack) IN
    /\ stack # <<>> /\ f.kind # "policies"
    /\ IF f.kind = "publish" /\ f.at < subscribers[f.source]
       THEN stack' = [stack EXCEPT ![Len(stack)].at = @ + 1] /\ UNCHANGED <<tasks, trapLog, ended>>
       ELSE /\ stack' = Front(stack)
            /\ ended' = End(f.kind, f.id, "returned")
            /\ tasks' = IF f.kind = "task" THEN [tasks EXCEPT ![f.id].completed = TRUE] ELSE tasks
            /\ trapLog' = IF f.kind = "signal" THEN Append(trapLog, f.id) ELSE trapLog
    /\ UNCHANGED <<ready, policies, boosts, ipc, signals, bus, runtime, taken, handlers>>

Raises ==
    LET f == Last(stack) IN
    /\ stack # <<>>
    /\ stack' = Front(stack)
    /\ ended' = IF f.kind = "policies" THEN ended ELSE End(f.kind, f.id, "raised")
    /\ UNCHANGED <<scheduler, ipc, signaling, bus, runtime, taken, handlers>>

Next ==
    \/ Returns \/ Raises
    \/ RunOnce \/ PolicyReturns \/ Tick
    \/ \E p \in Priorities : AddTask(p) \/ PolicyDrops(p)
    \/ \E n \in Policies : AddPolicy(n)
    \/ \E i \in DOMAIN tasks : PolicyBoosts(i)
    \/ \E n \in Names :
        \/ CreateChannel(n) \/ Send(n) \/ DispatchMessage(n) \/ RaiseSignal(n)
        \/ CreateBusChannel(n) \/ Subscribe(n) \/ Publish(n) \/ Emit(n)
        \/ \E kind \in DOMAIN handlers : RegisterHandler(kind, n)

Spec == Init /\ [][Next]_vars

-----------------------------------------------------------------------------

TypeOK ==
    /\ tasks \in Seq(SchedTask) /\ ready \in Seq(DOMAIN tasks) /\ policies \subseteq Policies
    /\ messages \in Seq(Names) /\ queues \in Seq(Seq(DOMAIN messages))
    /\ channel \in [Names -> 0 .. Len(queues)] /\ busChannel \in [Names -> 0 .. Len(subscribers)]
    /\ handlers \in [{"message", "signal", "event"} -> SUBSET Names]
    /\ trapLog \in Seq(1 .. signals) /\ subscribers \in Seq(Nat)
    /\ emitted \in Seq(Names) /\ events \in Seq(DOMAIN emitted)
    /\ stack \in Seq(Frame)

Born(kind) ==
    CASE kind = "task" -> Len(tasks)
      [] kind = "message" -> Len(messages)
      [] kind = "signal" -> signals
      [] kind = "publish" -> published
      [] kind = "event" -> Len(emitted)

\* The places of an item in the queues of its kind.
Places(q, id) == {k \in DOMAIN q : q[k] = id}
InQueue(kind, id) ==
    CASE kind = "task" -> Places(ready, id)
      [] kind = "message" -> UNION {{c} \X Places(queues[c], id) : c \in DOMAIN queues}
      [] kind = "event" -> Places(events, id)
      [] OTHER -> {}

Waiting(kind, id) == Cardinality(InQueue(kind, id))
UnderWay(kind, id) == Cardinality({k \in DOMAIN stack : stack[k].kind = kind /\ stack[k].id = id})
Outcomes(kind, id) == {e \in ended : e.kind = kind /\ e.id = id}

\* However calls are nested and whichever of them raise, every task, message, signal
\* and event waits in one queue, or is under way once, or ended in one way: none is
\* handled again, none vanishes without an outcome.  The flags and logs agree with
\* the outcomes: a task is completed and a signal's trap is logged once the call has
\* returned, and never for a call that raised.
HandledOnce ==
    \A kind \in Kinds : \A id \in 1 .. Born(kind) :
        /\ Waiting(kind, id) + UnderWay(kind, id) + Cardinality(Outcomes(kind, id)) = 1
        /\ kind = "task" => (tasks[id].completed <=> \E e \in Outcomes(kind, id) : e.how = "returned")
        /\ kind = "signal" =>
              Cardinality({k \in DOMAIN trapLog : trapLog[k] = id})
                = Cardinality({e \in Outcomes(kind, id) : e.how # "raised"})

\* Messages of a channel and events of the runtime are handled in the order they were
\* sent, also by handlers that dispatch further ones; a task is taken before those
\* that had a lower priority when the queue was last sorted.
TakenInOrder ==
    /\ \A j, k \in DOMAIN taken :
          j < k /\ taken[j].kind = taken[k].kind /\ taken[j].kind # "task" /\ taken[j].source = taken[k].source
              => taken[j].id < taken[k].id
    /\ \A j, k \in DOMAIN ready : j < k => tasks[ready[j]].sorted >= tasks[ready[k]].sorted

=============================================================================
