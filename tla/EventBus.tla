------------------------------ MODULE EventBus ------------------------------
(***************************************************************************)
(* core/eventBus.ts: subscriptions, and the stages of an emission: the     *)
(* handlers of the event's name, the wildcard handlers, the persistent     *)
(* publisher and, when that fails, the handlers of 'eventbus.error'.       *)
(* Between two stages the emission waits; other emissions run, handlers    *)
(* settle, and subscriptions change.                                       *)
(***************************************************************************)
EXTENDS Naturals, FiniteSets, Sequences, SequencesExt

CONSTANTS
    Names,      \* event names that are emitted
    Handlers,   \* functions subscribed with on
    Once,       \* wrappers created by once, one for each call of it
    Throwers,   \* plain functions, which may throw at their caller
    Emissions,  \* calls of emit
    MaxChanges  \* bound on changes of subscriptions and of the publisher

\* The wrapper of once is an async function: it never throws at its caller.
ASSUME ChangeBound == MaxChanges \in Nat
ASSUME HandlerKinds == Throwers \subseteq Handlers /\ Handlers \cap Once = {}
\* Nobody emits under the names of the bus itself.
ASSUME OwnNames == Names \cap {"*", "eventbus.error"} = {}

Channels == Names \cup {"*", "eventbus.error"}

VARIABLES
    handlers,    \* the handlers of each channel, in order of subscription
    publisher,   \* a persistent publisher is attached
    emission,    \* progress of each emission
    running,     \* handler invocations that have not settled
    settled,     \* handler invocations that have
    changes      \* changes of subscriptions and of the publisher so far

vars == <<handlers, publisher, emission, running, settled, changes>>

Subscribed(c) == {handlers[c][i] : i \in DOMAIN handlers[c]}

\* An invocation of handler h for emission e, called on channel c.
Invocations == [e : Emissions, c : Channels, h : Handlers \cup Once]
Invoked(e) == {i \in running \cup settled : i.e = e}
Pending(e) == {i \in running : i.e = e}

Stages == {"idle", "exact", "wildcard", "publish", "error", "done", "rejected"}

\* stable: the handlers of the name subscribed ever since the emission began.
NotEmitted == [pc |-> "idle", name |-> "", persist |-> FALSE, stable |-> {}]

Init ==
    /\ handlers = [c \in Channels |-> <<>>]
    /\ publisher = FALSE
    /\ emission = [e \in Emissions |-> NotEmitted]
    /\ running = {}
    /\ settled = {}
    /\ changes = 0

-----------------------------------------------------------------------------
(* Subscriptions *)

Change == changes < MaxChanges /\ changes' = changes + 1

Unsubscribe(c, h) ==
    /\ \/ h \notin Subscribed(c) /\ UNCHANGED handlers
       \/ \E n \in DOMAIN handlers[c] :
            handlers[c][n] = h /\ handlers' = [handlers EXCEPT ![c] = RemoveAt(@, n)]
    /\ emission' = [e \in Emissions |->
                        IF emission[e].name = c
                        THEN [emission[e] EXCEPT !.stable = @ \ {h}]
                        ELSE emission[e]]

On(c, h) ==
    /\ Change
    /\ h \in Handlers /\ h \notin Subscribed(c)
    /\ handlers' = [handlers EXCEPT ![c] = Append(@, h)]
    /\ UNCHANGED <<publisher, emission, running, settled>>

Off(c, h) ==
    /\ Change
    /\ h \in Handlers \cap Subscribed(c)
    /\ Unsubscribe(c, h)
    /\ UNCHANGED <<publisher, running, settled>>

\* Each call of once makes a wrapper of its own.
SubscribeOnce(c, h) ==
    /\ Change
    /\ h \in Once
    /\ \A d \in Channels : h \notin Subscribed(d)
    /\ \A i \in running \cup settled : i.h # h
    /\ handlers' = [handlers EXCEPT ![c] = Append(@, h)]
    /\ UNCHANGED <<publisher, emission, running, settled>>

AttachPublisher(attached) ==
    /\ Change
    /\ publisher # attached
    /\ publisher' = attached
    /\ UNCHANGED <<handlers, emission, running, settled>>

-----------------------------------------------------------------------------
(* Emission *)

\* The calls of the handlers of a channel: all of them, or those up to the first
\* plain function that throws, which ends the emission.
CallsMade(c) ==
    {[n |-> Len(handlers[c]), threw |-> FALSE]} \cup
    {[n |-> n, threw |-> TRUE] : n \in {m \in DOMAIN handlers[c] : handlers[c][m] \in Throwers}}

CallHandlers(e, c, em) ==
    \E p \in CallsMade(c) :
        LET called == {[e |-> e, c |-> c, h |-> handlers[c][n]] : n \in 1 .. p.n}
            thrown == IF p.threw THEN {[e |-> e, c |-> c, h |-> handlers[c][p.n]]} ELSE {}
        IN  /\ running' = running \cup (called \ thrown)
            /\ settled' = settled \cup thrown
            /\ emission' = [emission EXCEPT ![e] =
                                IF p.threw THEN [em EXCEPT !.pc = "rejected"] ELSE em]

Emit(e, name, persist) ==
    /\ emission[e].pc = "idle"
    /\ CallHandlers(e, name, [pc |-> "exact", name |-> name, persist |-> persist,
                              stable |-> Subscribed(name)])
    /\ UNCHANGED <<handlers, publisher, changes>>

\* Slip: a wrapper whose handler fails stays subscribed.
Settle_OffOnSuccess(i) ==
    /\ i \in running
    /\ running' = running \ {i}
    /\ settled' = settled \cup {i}
    /\ \/ i.h \in Once /\ Unsubscribe(i.c, i.h)
       \/ UNCHANGED <<handlers, emission>>
    /\ UNCHANGED <<publisher, changes>>

\* An invocation settles, either way; the wrapper of once then unsubscribes itself.
Settle(i) ==
    /\ i \in running
    /\ running' = running \ {i}
    /\ settled' = settled \cup {i}
    /\ IF i.h \in Once THEN Unsubscribe(i.c, i.h) ELSE UNCHANGED <<handlers, emission>>
    /\ UNCHANGED <<publisher, changes>>

\* The handlers of the name have settled: the wildcard handlers are called.
DeliverWildcard(e) ==
    /\ emission[e].pc = "exact" /\ Pending(e) = {}
    /\ CallHandlers(e, "*", [emission[e] EXCEPT !.pc = "wildcard"])
    /\ UNCHANGED <<handlers, publisher, changes>>

\* All handlers have settled: the event is handed to the publisher, if any.
Persist(e) ==
    /\ emission[e].pc = "wildcard" /\ Pending(e) = {}
    /\ emission' = [emission EXCEPT ![e].pc =
                        IF emission[e].persist /\ publisher THEN "publish" ELSE "done"]
    /\ UNCHANGED <<handlers, publisher, running, settled, changes>>

Published(e) ==
    /\ emission[e].pc = "publish"
    /\ emission' = [emission EXCEPT ![e].pc = "done"]
    /\ UNCHANGED <<handlers, publisher, running, settled, changes>>

PublishFailed(e) ==
    /\ emission[e].pc = "publish"
    /\ CallHandlers(e, "eventbus.error", [emission[e] EXCEPT !.pc = "error"])
    /\ UNCHANGED <<handlers, publisher, changes>>

ErrorDelivered(e) ==
    /\ emission[e].pc = "error" /\ Pending(e) = {}
    /\ emission' = [emission EXCEPT ![e].pc = "done"]
    /\ UNCHANGED <<handlers, publisher, running, settled, changes>>

Next ==
    \/ \E c \in Channels, h \in Handlers : On(c, h) \/ Off(c, h)
    \/ \E c \in Channels, h \in Once : SubscribeOnce(c, h)
    \/ \E attached \in BOOLEAN : AttachPublisher(attached)
    \/ \E e \in Emissions, name \in Names, persist \in BOOLEAN : Emit(e, name, persist)
    \/ \E i \in running : Settle(i)
    \/ \E e \in Emissions :
            \/ DeliverWildcard(e) \/ Persist(e)
            \/ Published(e) \/ PublishFailed(e) \/ ErrorDelivered(e)

Spec == Init /\ [][Next]_vars

-----------------------------------------------------------------------------
(* Properties *)

\* The lists of handlers have no duplicates, an invocation is not both running and
\* settled.
TypeOK ==
    /\ \A c \in Channels : \A m, n \in DOMAIN handlers[c] :
            handlers[c][m] = handlers[c][n] => m = n
    /\ \A e \in Emissions :
            /\ emission[e].pc \in Stages
            /\ emission[e].stable \subseteq Handlers \cup Once
    /\ running \subseteq Invocations /\ settled \subseteq Invocations
    /\ running \cap settled = {}

\* emit awaits what it calls: when an event is handed to the publisher, and when the
\* emitter goes on, no handler of the event is still at work.
EmitterWaits ==
    \A e \in Emissions : emission[e].pc \in {"publish", "done"} => Pending(e) = {}

\* A completed emission has been heard by every handler of its name that was
\* subscribed all along, whatever other emissions and wrappers removed meanwhile.
AllHear ==
    \A e \in Emissions : emission[e].pc = "done" =>
        emission[e].stable \subseteq {i.h : i \in {j \in Invoked(e) : j.c = emission[e].name}}

\* A handler subscribed with once is gone when its first call has settled, also
\* when that call failed: only an emission that overlaps that call calls it again.
OnceGone ==
    \A i \in settled : i.h \in Once => i.h \notin Subscribed(i.c)

=============================================================================
