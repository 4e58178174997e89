----------------------------- MODULE KernelIPC ------------------------------
(***************************************************************************)
(* kernel/ipc.ts: request and reply between processes over an event bus,   *)
(* and the table of listening processes.  The bus is external: publish     *)
(* hands the message to the subscribers of the channel, and the promise it *)
(* returns settles later, after any of them may have replied.              *)
(***************************************************************************)
EXTENDS Naturals, FiniteSets

CONSTANTS
    Processes,
    Handlers,
    Requests,   \* calls of sendAndWaitReply, each with a message of its own
    Listens,    \* calls of listen, each with an unsubscribe function of its own
    None

\* What the constants are assumed to be.
ConstantsOK == None \notin Processes \cup Handlers \cup Requests \cup Listens

VARIABLES
    request,    \* progress of each call of sendAndWaitReply
    received,   \* messages handed to a subscriber
    pending,    \* keys of pendingReplies, with a timer each
    listen,     \* what each call of listen has captured
    handlers,   \* messageHandlers: the Set of each process, named by the listen
                \* that created it, or None
    members,    \* the handlers in each of those Sets
    repeated    \* history: processes with a repeated listen or unsubscribe

ipcVars == <<request, received, pending>>
listenVars == <<listen, handlers, members, repeated>>
vars == <<ipcVars, listenVars>>

Subscribed(p) == {l \in Listens : listen[l].p = p /\ listen[l].subscribed}

Init ==
    /\ request = [r \in Requests |-> [pc |-> "idle", to |-> None, answer |-> None]]
    /\ received = {} /\ pending = {}
    /\ listen = [l \in Listens |-> [p |-> None, h |-> None, set |-> None, subscribed |-> FALSE]]
    /\ handlers = [p \in Processes |-> None]
    /\ members = [l \in Listens |-> {}]
    /\ repeated = {}

-----------------------------------------------------------------------------
(* Request and reply *)

\* The message is published: subscribers, if there are any, get it.
SendAndWaitReply(r, p) ==
    /\ request[r].pc = "idle"
    /\ request' = [request EXCEPT ![r].pc = "publishing", ![r].to = p]
    /\ received' = IF Subscribed(p) # {} THEN received \cup {r} ELSE received
    /\ UNCHANGED <<pending, listenVars>>

\* The promise of publish resolves: only now is the reply awaited.
AwaitReply(r) ==
    /\ request[r].pc = "publishing"
    /\ request' = [request EXCEPT ![r].pc = "waiting"]
    /\ pending' = pending \cup {r}
    /\ UNCHANGED <<received, listenVars>>

\* publish rejects, and so does the call.
PublishRejects(r) ==
    /\ request[r].pc = "publishing"
    /\ request' = [request EXCEPT ![r].pc = "failed"]
    /\ UNCHANGED <<received, pending, listenVars>>

\* A handler replies to a message it has received, perhaps more than once.  The
\* reply is also published to the sender, which nothing here looks at.
Reply(m) ==
    /\ m \in received
    /\ IF m \in pending
       THEN /\ request' = [request EXCEPT ![m].pc = "resolved", ![m].answer = m]
            /\ pending' = pending \ {m}
       ELSE UNCHANGED <<request, pending>>
    /\ UNCHANGED <<received, listenVars>>

Timeout(r) ==
    /\ r \in pending
    /\ pending' = pending \ {r}
    /\ request' = [request EXCEPT ![r].pc = "timeout"]
    /\ UNCHANGED <<received, listenVars>>

-----------------------------------------------------------------------------
(* Listening *)

\* The handler joins the Set of its process, made if there is none; the bus
\* subscription is one more even if the handler is in the Set already.
Listen(l, p, h) ==
    /\ listen[l].p = None
    /\ LET set == IF handlers[p] = None THEN l ELSE handlers[p]
       IN  /\ handlers' = [handlers EXCEPT ![p] = set]
           /\ repeated' = IF h \in members[set] THEN repeated \cup {p} ELSE repeated
           /\ members' = [members EXCEPT ![set] = @ \cup {h}]
           /\ listen' = [listen EXCEPT ![l] = [p |-> p, h |-> h, set |-> set,
                                               subscribed |-> TRUE]]
    /\ UNCHANGED ipcVars

\* The function listen returned is called, the first time or again: it works on the
\* Set it captured, and deletes whatever Set the process has by now.
Unsubscribe(l) ==
    /\ listen[l].p # None
    /\ LET p == listen[l].p
           left == members[listen[l].set] \ {listen[l].h}
       IN  /\ members' = [members EXCEPT ![listen[l].set] = left]
           /\ handlers' = IF left = {} THEN [handlers EXCEPT ![p] = None] ELSE handlers
           /\ repeated' = IF listen[l].subscribed THEN repeated ELSE repeated \cup {p}
    /\ listen' = [listen EXCEPT ![l].subscribed = FALSE]
    /\ UNCHANGED ipcVars

Next ==
    \/ \E r \in Requests, p \in Processes : SendAndWaitReply(r, p)
    \/ \E r \in Requests :
            AwaitReply(r) \/ PublishRejects(r) \/ Reply(r) \/ Timeout(r)
    \/ \E l \in Listens, p \in Processes, h \in Handlers : Listen(l, p, h)
    \/ \E l \in Listens : Unsubscribe(l)

Spec == Init /\ [][Next]_vars

\* The promise of publish settles, and timers fire.
FairSpec ==
    /\ Spec
    /\ \A r \in Requests : WF_vars(AwaitReply(r) \/ PublishRejects(r)) /\ WF_vars(Timeout(r))

-----------------------------------------------------------------------------
(* Properties *)

\* Types, and no process keeps an empty Set.
TypeOK ==
    /\ \A r \in Requests :
        /\ request[r].pc \in {"idle", "publishing", "waiting", "resolved", "failed", "timeout"}
        /\ request[r].to \in Processes \cup {None}
    /\ received \cup pending \subseteq Requests
    /\ handlers \in [Processes -> Listens \cup {None}]
    /\ members \in [Listens -> SUBSET Handlers]
    /\ \A p \in Processes : handlers[p] # None => members[handlers[p]] # {}

\* pendingReplies holds exactly the calls that wait: no entry, and no timer, is left
\* behind by an answer, a rejection or a timeout.
PendingIffWaiting == \A r \in Requests : r \in pending <=> request[r].pc = "waiting"

\* A call resolves with the reply to its own message, never to that of another call.
OwnAnswer == \A r \in Requests : request[r].pc = "resolved" => request[r].answer = r

\* Every call of sendAndWaitReply ends, whether or not anyone listens or replies.
RequestEnds ==
    \A r \in Requests :
        request[r].pc \in {"publishing", "waiting"}
            ~> request[r].pc \in {"resolved", "failed", "timeout"}

\* getListeningProcesses, which broadcast follows, is complete: a process with a
\* subscription is missing only if for that process a handler was registered that
\* was in its Set already, or an unsubscribe function was called again.
UnlistedNeedsRepeat ==
    \A p \in Processes : Subscribed(p) # {} /\ p \notin repeated => handlers[p] # None

=============================================================================
