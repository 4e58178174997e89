------------------------ MODULE InterDomainChannels ------------------------
(***************************************************************************)
(* kernel/world_kernel/inter_domain_channels.py: channels between domains  *)
(* and the mesh that creates them.  What flush_outbound returns is carried *)
(* by code that is not in the repository, and may be lost, duplicated or   *)
(* reordered on the way to inject_inbound; the receiver acknowledges what  *)
(* it received, once or more, sooner or later.                             *)
(***************************************************************************)
EXTENDS Naturals, Sequences, FiniteSets, FiniteSetsExt

CONSTANTS
    Channels,      \* InterDomainChannel objects
    Pairs,         \* pairs of domains, <<source, destination>>
    None,
    Capacity,
    MaxInFlight,   \* max_in_flight
    MaxSends,      \* bound: messages accepted by all channels
    MaxInbound     \* bound: messages in all inbound queues

\* What the constants are assumed to be.
ConstantsOK ==
    /\ Capacity \in Nat \ {0} /\ MaxInFlight \in Nat /\ MaxSends \in Nat
    /\ None \notin Channels /\ \A p \in Pairs : p = <<p[1], p[2]>>

VARIABLES
    pairOf,   \* the pair each object was created for; None before
    mesh,     \* ChannelMesh.channels: pair -> its object
    chan      \* state of each object

vars == <<pairOf, mesh, chan>>

\* A message is known by its place in the history of its channel, which is its
\* sequence_number plus one: every message accepted gets the next one.
Places == Nat \ {0}
Message == [critical : BOOLEAN, requiresAck : BOOLEAN, acked : BOOLEAN]

\* flushed: history of what flush_outbound returned, which is also what the carrier
\* may deliver; received: places taken from an inbound queue of the pair.
InterDomainChannel ==
    [outbound : Seq(Places), priority : SUBSET Places, inbound : Seq(Channels \X Places),
     history : Seq(Message), pendingAcks : SUBSET Places, acksReceived : Nat,
     backpressure : BOOLEAN, flushed : Seq(Places), received : SUBSET Places]

NewChannel ==
    [outbound |-> <<>>, priority |-> {}, inbound |-> <<>>, history |-> <<>>,
     pendingAcks |-> {}, acksReceived |-> 0, backpressure |-> FALSE,
     flushed |-> <<>>, received |-> {}]

Init ==
    /\ pairOf = [c \in Channels |-> None]
    /\ mesh = [p \in Pairs |-> None]
    /\ chan = [c \in Channels |-> NewChannel]

Created(c) == pairOf[c] # None

-----------------------------------------------------------------------------
(* Operations of one channel *)

\* The heap of critical messages is not counted, and in_flight_messages always has
\* the keys of pending_acks.
Refuses(x) ==
    \/ x.backpressure /\ Cardinality(x.pendingAcks) >= MaxInFlight
    \/ Len(x.outbound) >= Capacity

\* Slip: the history is not appended to, so the next message takes the same place.
SendMessage_Unlogged(x, critical, requiresAck) ==
    IF Refuses(x) THEN x
    ELSE LET i == Len(x.history) + 1 IN
         [x EXCEPT !.outbound = IF critical THEN @ ELSE Append(@, i),
                   !.priority = IF critical THEN @ \cup {i} ELSE @,
                   !.pendingAcks = IF requiresAck THEN @ \cup {i} ELSE @]

\* A refused message is counted as dropped and leaves no trace otherwise.
SendMessage(x, critical, requiresAck) ==
    IF Refuses(x) THEN x
    ELSE LET i == Len(x.history) + 1 IN
         [x EXCEPT !.outbound = IF critical THEN @ ELSE Append(@, i),
                   !.priority = IF critical THEN @ \cup {i} ELSE @,
                   !.pendingAcks = IF requiresAck THEN @ \cup {i} ELSE @,
                   !.history = Append(@, [critical |-> critical, requiresAck |-> requiresAck,
                                          acked |-> FALSE])]

\* Unknown and repeated acknowledgements change nothing.
AcknowledgeMessage(x, i) ==
    IF i \notin x.pendingAcks THEN x
    ELSE [x EXCEPT !.history[i].acked = TRUE,
                   !.acksReceived = @ + 1,
                   !.pendingAcks = @ \ {i}]

\* Slip: the newest critical message first.
PopPriority_Newest(x) == Max(x.priority)
PopPriority(x) == Min(x.priority)

\* One turn of the loops of flush_outbound.
Pop(x) ==
    IF x.priority # {}
    THEN LET i == PopPriority(x)
         IN  [x EXCEPT !.priority = @ \ {i}, !.flushed = Append(@, i)]
    ELSE IF x.outbound # <<>>
    THEN [x EXCEPT !.outbound = Tail(@), !.flushed = Append(@, Head(x.outbound))]
    ELSE x

\* At most Capacity messages, the critical ones first.
FlushOutbound(x) ==
    LET Popped[k \in 0 .. Capacity] == IF k = 0 THEN x ELSE Pop(Popped[k - 1])
    IN  Popped[Capacity]

InjectInbound(x, m) ==
    IF Len(x.inbound) >= Capacity THEN x ELSE [x EXCEPT !.inbound = Append(@, m)]

-----------------------------------------------------------------------------
(* Steps.  A channel that was replaced in the mesh lives on in the hands of its *)
(* users.                                                                       *)

\* Messages accepted so far.
Sends == MapThenSumSet(LAMBDA c : Len(chan[c].history), Channels)

Step(c, x) ==
    /\ Created(c)
    /\ chan' = [chan EXCEPT ![c] = x]
    /\ UNCHANGED <<pairOf, mesh>>

Send(c, critical, requiresAck) ==
    /\ Sends < MaxSends
    /\ Step(c, SendMessage(chan[c], critical, requiresAck))

Flush(c) == Step(c, FlushOutbound(chan[c]))

\* Backpressure is a switch of the users of the channel.
SetBackpressure(c, enabled) == Step(c, [chan[c] EXCEPT !.backpressure = enabled])

\* The carrier: any message that was flushed, to any object of the same pair.
Deliver(c, d, i) ==
    /\ Created(c) /\ pairOf[c] = pairOf[d]
    /\ \E k \in DOMAIN chan[c].flushed : chan[c].flushed[k] = i
    /\ \/ MapThenSumSet(LAMBDA e : Len(chan[e].inbound), Channels) < MaxInbound
       \/ Len(chan[d].inbound) >= Capacity
    /\ Step(d, InjectInbound(chan[d], <<c, i>>))

\* receive_message.  Its callbacks run once the message is taken.
Receive(d) ==
    /\ Created(d) /\ chan[d].inbound # <<>>
    /\ LET m == Head(chan[d].inbound)
           taken == [chan EXCEPT ![d].inbound = Tail(@)]
       IN  chan' = [taken EXCEPT ![m[1]].received = @ \cup {m[2]}]
    /\ UNCHANGED <<pairOf, mesh>>

\* Slip: an acknowledgement goes to the object that is in the mesh.
Acknowledge_Current(c, i) ==
    /\ Created(c) /\ i \in chan[c].received
    /\ chan' = [chan EXCEPT ![mesh[pairOf[c]]] = AcknowledgeMessage(@, i)]
    /\ UNCHANGED <<pairOf, mesh>>

\* The receiver acknowledges; message ids are unique, so only the object that sent
\* the message knows its id.
Acknowledge(c, i) ==
    /\ i \in chan[c].received
    /\ Step(c, AcknowledgeMessage(chan[c], i))

\* An existing channel of the pair is replaced, whatever it still holds.
CreateChannel(p, c) ==
    /\ ~ Created(c)
    /\ pairOf' = [pairOf EXCEPT ![c] = p]
    /\ mesh' = [mesh EXCEPT ![p] = c]
    /\ UNCHANGED chan

\* get_channel; None if there is none.
GetChannel(source, destination) ==
    IF <<source, destination>> \in Pairs THEN mesh[<<source, destination>>] ELSE None

\* One message through the channel of every destination that has one.
BroadcastMessage(source, destinations, critical) ==
    LET targets == {GetChannel(source, d) : d \in destinations} \ {None}
    IN  /\ Sends + Cardinality(targets) <= MaxSends
        /\ chan' = [c \in Channels |->
                       IF c \in targets THEN SendMessage(chan[c], critical, TRUE) ELSE chan[c]]
        /\ UNCHANGED <<pairOf, mesh>>

Next ==
    \/ \E p \in Pairs, c \in Channels : CreateChannel(p, c)
    \/ \E c \in Channels :
          \/ \E critical, requiresAck \in BOOLEAN : Send(c, critical, requiresAck)
          \/ Flush(c) \/ Receive(c)
          \/ \E enabled \in BOOLEAN : SetBackpressure(c, enabled)
          \/ \E i \in DOMAIN chan[c].history : Acknowledge(c, i) \/ \E d \in Channels : Deliver(c, d, i)
    \/ \E p \in Pairs, critical \in BOOLEAN :
          BroadcastMessage(p[1], {q[2] : q \in Pairs}, critical)

Spec == Init /\ [][Next]_vars

-----------------------------------------------------------------------------
(* Properties *)

TypeOK ==
    /\ pairOf \in [Channels -> Pairs \cup {None}]
    /\ mesh \in [Pairs -> Channels \cup {None}]
    /\ chan \in [Channels -> InterDomainChannel]

Flushed(x) == {x.flushed[k] : k \in DOMAIN x.flushed}
Outbound(x) == {x.outbound[k] : k \in DOMAIN x.outbound}

\* Acknowledgements arrive late, twice, before or after a flush, or for a channel
\* that was replaced: what is pending is exactly what was accepted with an
\* acknowledgement asked for and not received, and each is counted once.
AcksConserved ==
    \A c \in Channels :
        LET x == chan[c] IN
        /\ x.pendingAcks = {i \in DOMAIN x.history : x.history[i].requiresAck /\ ~ x.history[i].acked}
        /\ x.acksReceived = Cardinality({i \in DOMAIN x.history : x.history[i].acked})

\* No accepted message is lost or sent twice on the sender's side: each waits in the
\* heap, waits in the queue, or was flushed, in exactly one of these.
NothingLost ==
    \A c \in Channels :
        LET x == chan[c] IN
        /\ x.priority \cup Outbound(x) \cup Flushed(x) = DOMAIN x.history
        /\ Cardinality(x.priority) + Len(x.outbound) + Len(x.flushed) = Len(x.history)

\* A message is acknowledged only after it left its channel, whichever object of the
\* pair took it in.
AckedWasFlushed ==
    \A c \in Channels : \A i \in DOMAIN chan[c].history :
        chan[c].history[i].acked => i \in Flushed(chan[c])

ChannelInv == TypeOK /\ AcksConserved /\ NothingLost

\* Messages of one class leave in the order they were accepted, across flushes of
\* bounded size, and ahead of those still queued.
FlushedInOrder ==
    \A c \in Channels :
        LET x == chan[c]
            line == x.flushed \o x.outbound
            class(i) == x.history[i].critical
        IN  /\ \A j, k \in DOMAIN line :
                 j < k /\ class(line[j]) = class(line[k]) => line[j] < line[k]
            /\ \A i \in Flushed(x), j \in x.priority : class(i) => i < j

=============================================================================
