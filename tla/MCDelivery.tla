----------------------------- MODULE MCDelivery -----------------------------
(***************************************************************************)
(* An event on its way: the governed emit, the publisher that persists it, *)
(* and requests over the kernel's bus.  The three share no state: a        *)
(* behaviour picks one of them, the others stay in their initial states.   *)
(***************************************************************************)
EXTENDS EventPersistence, TLC

CONSTANTS
    Workspaces, Emissions, Custom, MaxChanges,   \* GovernedEmit
    Processes, Handlers, Requests, Listens, None \* KernelIPC

VARIABLES
    under,
    arrays, blocked, inWindow, approval, emission, changes,
    request, received, pending, listen, handlers, members, repeated

\* A custom policy that is asked first and one that is asked in the middle.
FrontAndMiddle == ("front" :> 5) @@ ("middle" :> 25)

Guard == INSTANCE GovernedEmit WITH CustomPriority <- FrontAndMiddle
IPC == INSTANCE KernelIPC

ASSUME ConstantsAssumption == Guard!ConstantsOK /\ IPC!ConstantsOK

guardVars == <<arrays, blocked, inWindow, approval, emission, changes>>
busVars == <<request, received, pending, listen, handlers, members, repeated>>
allVars == <<under, vars, guardVars, busVars>>

MCInit ==
    /\ under \in {"persistence", "guard", "ipc"}
    /\ Init /\ Guard!Init /\ IPC!Init

Persistence(A) == under = "persistence" /\ A /\ UNCHANGED <<under, guardVars, busVars>>
Guarding(A) == under = "guard" /\ A /\ UNCHANGED <<under, vars, busVars>>
Asking(A) == under = "ipc" /\ A /\ UNCHANGED <<under, vars, guardVars>>

MCNext == Persistence(Next) \/ Guarding(Guard!Next) \/ Asking(IPC!Next)

MCSpec == MCInit /\ [][MCNext]_allVars

\* The fairness of each part, for the behaviours that explore it.
Fairness ==
    /\ \A p \in Publications : WF_allVars(Persistence(Fetch(p)))
    /\ WF_allVars(Persistence(\E r \in requests : Respond(r) \/ Store(r) \/ Audit(r) \/ Mark(r)))
    /\ \A e \in Emissions : WF_allVars(Guarding(Guard!Evaluate(e) \/ Guard!Audited(e)))
    /\ \A r \in Requests :
          /\ WF_allVars(Asking(IPC!AwaitReply(r) \/ IPC!PublishRejects(r)))
          /\ WF_allVars(Asking(IPC!Timeout(r)))

DeliverySpec == MCSpec /\ Fairness

-----------------------------------------------------------------------------

\* No event is stored twice or given up without a failure, none of a workspace blocked
\* all along is delivered, and each request gets its own answer and leaves no entry.
DeliveryInv ==
    /\ TypeOK /\ StoredAtMostOnce /\ RejectionHasCause
    /\ Guard!TypeOK /\ Guard!BlockHolds
    /\ IPC!TypeOK /\ IPC!PendingIffWaiting /\ IPC!OwnAnswer /\ IPC!UnlistedNeedsRepeat

\* See GovernedEmit.
EveryPolicyConsulted == Guard!EveryPolicyConsulted
\* Whatever is sent ends: publications, governed emissions and requests, whoever fails
\* to store, to audit or to reply.
DeliveryEnds == PublicationEnds /\ Guard!EmissionEnds /\ IPC!RequestEnds
=============================================================================
