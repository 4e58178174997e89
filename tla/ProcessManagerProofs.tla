------------------------ MODULE ProcessManagerProofs ------------------------
(***************************************************************************)
(* Proofs about ProcessManager, and about the governance sweeps that run   *)
(* beside its calls, for any sets of workspaces, names, process objects,   *)
(* calls and concurrent sweeps.  In the second part the process manager's  *)
(* invariant does most of the work: an object that has left the Map never  *)
(* returns, so the sweep only has to account for the objects still listed. *)
(***************************************************************************)
EXTENDS ReactiveGovernance, TLAPS

\* Shape of a call: one that is suspended, or that has cleaned up, holds an
\* object together with the key that object was created under; one that still
\* has a clean-up ahead of it has not cleaned up yet.
CallHoldsItsProcess ==
    \A c \in Calls :
        /\ call[c].pc \in Suspended \/ call[c].removed
            => /\ call[c].key \in Keys
               /\ call[c].proc \in Procs
               /\ origin[call[c].proc] = call[c].key
        /\ call[c].pc \in {"idle", "routing", "starting", "announcing", "stopping"}
            => ~ call[c].removed

\* An object has an origin exactly when its factory has built it.
BornHasOrigin == \A p \in Procs : (start[p] = "unborn") <=> (origin[p] = None)

IInv ==
    /\ TypeOK
    /\ CallHoldsItsProcess
    /\ BornHasOrigin
    /\ ListedIsLive
    /\ RemovedIsUnlisted
    /\ OrphanNeedsOverlap

USE NoneIsNoObject, ResetBound

-----------------------------------------------------------------------------
(* Type correctness *)

LEMMA AppendBusEvent ==
    ASSUME TypeOK, NEW p \in Procs, NEW e \in BusEvents, Emit(p, e)
    PROVE  trail' \in [Procs -> Seq(BusEvents)]
BY DEF TypeOK, Emit

LEMMA GotoType ==
    ASSUME call \in [Calls -> CallRecord], NEW c \in Calls,
           NEW pc \in {"done"} \cup Suspended, Goto(c, pc)
    PROVE  call' \in [Calls -> CallRecord]
BY DEF Goto, CallRecord

LEMMA RemovalType ==
    ASSUME call \in [Calls -> CallRecord], NEW c \in Calls,
           NEW pc \in Suspended,
           call' = [call EXCEPT ![c].pc = pc, ![c].removed = TRUE]
    PROVE  call' \in [Calls -> CallRecord]
BY ZenonT(60) DEF CallRecord

LEMMA DeleteType ==
    ASSUME processes \in [Keys -> Procs \cup {None}], NEW c \in Calls, DeleteKey(c)
    PROVE  processes' \in [Keys -> Procs \cup {None}]
BY DEF DeleteKey

\* The initial state is well-typed.
LEMMA InitTypeOK == Init => TypeOK
<1> SUFFICES ASSUME Init PROVE TypeOK
    OBVIOUS
<1>1. \A p \in Procs : <<>> \in Seq(BusEvents)
    OBVIOUS
<1> QED
    BY <1>1 DEF Init, TypeOK, StartStates, CallRecord, IdleCall, Suspended

\* Every step keeps the variables within their types.
LEMMA NextTypeOK == TypeOK /\ CallHoldsItsProcess /\ [Next]_vars => TypeOK'
<1> SUFFICES ASSUME TypeOK, CallHoldsItsProcess, [Next]_vars PROVE TypeOK'
    OBVIOUS
<1>1. CASE UNCHANGED vars
    BY <1>1 DEF vars, TypeOK
<1>2. ASSUME NEW n \in Names, RegisterFactory(n) PROVE TypeOK'
    BY <1>2 DEF RegisterFactory, TypeOK
<1>3. ASSUME NEW c \in Calls, NEW k \in Keys, HandleEvent(c, k) PROVE TypeOK'
    <2>1. CASE RouteEvent(c, k)
        BY <2>1 DEF RouteEvent, TypeOK, CallRecord, Suspended
    <2>2. ASSUME NEW p \in Procs, CreateProcess(c, k, p) PROVE TypeOK'
        BY <2>2 DEF CreateProcess, TypeOK, CallRecord, Suspended, StartStates
    <2>3. CASE IgnoreEvent(c, k)
        BY <2>3 DEF IgnoreEvent, TypeOK, CallRecord, Suspended
    <2> QED BY <1>3, <2>1, <2>2, <2>3 DEF HandleEvent
<1>4. ASSUME NEW c \in Calls, NEW k \in Keys, StopEntry(c, k) PROVE TypeOK'
    BY <1>4 DEF StopEntry, TypeOK, CallRecord, Suspended
<1>5. ASSUME NEW c \in Calls, StopNothing(c) PROVE TypeOK'
    BY <1>5 DEF StopNothing, TypeOK, CallRecord, Suspended
<1>6. CASE ResetForTests
    BY <1>6 DEF ResetForTests, Listed, TypeOK
<1>7. ASSUME NEW c \in Calls, Continue(c) PROVE TypeOK'
    <2> DEFINE p == call[c].proc
               k == call[c].key
    <2>0. call[c].pc \in Suspended => k \in Keys /\ p \in Procs
        BY DEF CallHoldsItsProcess
    <2>a. ASSUME NEW pc \in {"done"} \cup Suspended, Goto(c, pc)
          PROVE  call' \in [Calls -> CallRecord]
        BY <2>a, GotoType DEF TypeOK
    <2>b. ASSUME p \in Procs, NEW e \in BusEvents, Emit(p, e)
          PROVE  trail' \in [Procs -> Seq(BusEvents)]
        BY <2>b, AppendBusEvent
    <2>c. DeleteKey(c) => processes' \in [Keys -> Procs \cup {None}]
        BY DeleteType DEF TypeOK
    <2>d. ASSUME p \in Procs, CleanUp(c)
          PROVE  /\ processes' \in [Keys -> Procs \cup {None}]
                 /\ trail' \in [Procs -> Seq(BusEvents)]
                 /\ call' \in [Calls -> CallRecord]
                 /\ UNCHANGED <<factories, origin, discarded, resets>>
        <3>1. "failing" \in Suspended /\ "process.start.failed" \in BusEvents
            BY DEF Suspended, BusEvents
        <3>2. call' \in [Calls -> CallRecord]
            BY <2>d, <3>1, RemovalType DEF CleanUp, TypeOK
        <3> QED BY <2>b, <2>c, <2>d, <3>1, <3>2 DEF CleanUp
    <2>1. CASE OnEventResolves(c)
        BY <2>1, <2>a DEF OnEventResolves, TypeOK
    <2>2. CASE OnEventRejects(c)
        BY <2>2, <2>0, <2>a, <2>b DEF OnEventRejects, TypeOK, Suspended, BusEvents
    <2>3. CASE StartResolves(c)
        BY <2>3, <2>0, <2>a, <2>b DEF StartResolves, TypeOK, Suspended, BusEvents, StartStates
    <2>4. CASE StartRejects(c)
        BY <2>4, <2>0, <2>d DEF StartRejects, TypeOK, Suspended, StartStates
    <2>5. CASE AnnounceRejects(c)
        BY <2>5, <2>0, <2>d DEF AnnounceRejects, TypeOK, Suspended
    <2>6. CASE FailureEmitted(c)
        BY <2>6, <2>0, <2>a, <2>b DEF FailureEmitted, TypeOK, Suspended, BusEvents
    <2>7. CASE StopSettles(c)
        <3>1. "closing" \in Suspended /\ "process.stopped" \in BusEvents
            BY DEF Suspended, BusEvents
        <3>2. call' \in [Calls -> CallRecord]
            BY <2>7, <3>1, RemovalType DEF StopSettles, TypeOK
        <3> QED BY <2>7, <2>0, <2>b, <2>c, <3>1, <3>2 DEF StopSettles, TypeOK, Suspended
    <2>8. CASE Return(c)
        BY <2>8, <2>a DEF Return, TypeOK
    <2> QED BY <1>7, <2>1, <2>2, <2>3, <2>4, <2>5, <2>6, <2>7, <2>8 DEF Continue
<1> QED
    BY <1>1, <1>2, <1>3, <1>4, <1>5, <1>6, <1>7
       DEF Next, Request, StopByKey, StopById

-----------------------------------------------------------------------------
(* The inductive invariant.  Steps fall into four kinds: those that leave the *)
(* registry and the clean-up history alone, the creation of a process, a      *)
(* clean-up, and resetForTests.                                               *)

\* The registry, the origins and what has been removed by whom are unchanged.
QuietStep ==
    /\ UNCHANGED <<processes, origin, discarded>>
    /\ \A c \in Calls : call'[c].removed = call[c].removed
    /\ \A c \in Calls : call[c].removed
            => call'[c].proc = call[c].proc /\ call'[c].key = call[c].key
    /\ \A p \in Procs : start[p] \in {"starting", "running"}
            => start'[p] \in {"starting", "running"}

\* Call c cleans up the object it holds.
CleanUpStep(c) ==
    /\ call[c].pc \in {"starting", "announcing", "stopping"}
    /\ DeleteKey(c)
    /\ UNCHANGED <<origin, discarded>>
    /\ \E pc \in {"failing", "closing"} :
            call' = [call EXCEPT ![c].pc = pc, ![c].removed = TRUE]
    /\ \/ start' = start
       \/ start' = [start EXCEPT ![call[c].proc] = "failed"]

LEMMA InitIInv == Init => IInv
<1> SUFFICES ASSUME Init PROVE IInv
    OBVIOUS
<1>1. TypeOK
    BY InitTypeOK
<1>2. \A c \in Calls : call[c].pc = "idle" /\ ~ call[c].removed
    BY DEF Init, IdleCall
<1>3. CallHoldsItsProcess
    BY <1>2 DEF CallHoldsItsProcess, Suspended
<1>4. BornHasOrigin /\ ListedIsLive /\ RemovedIsUnlisted /\ OrphanNeedsOverlap
    BY <1>2 DEF Init, BornHasOrigin, ListedIsLive, RemovedIsUnlisted,
                OrphanNeedsOverlap, Keys
<1> QED
    BY <1>1, <1>3, <1>4 DEF IInv

LEMMA QuietKeepsInvariants ==
    ASSUME IInv, QuietStep
    PROVE  ListedIsLive' /\ RemovedIsUnlisted' /\ OrphanNeedsOverlap'
<1>1. Listed' = Listed
    BY DEF QuietStep, Listed
<1>2. ListedIsLive'
    BY DEF IInv, QuietStep, ListedIsLive, TypeOK
<1>3. RemovedIsUnlisted'
    BY <1>1 DEF IInv, QuietStep, RemovedIsUnlisted
<1>4. OrphanNeedsOverlap'
    BY <1>1 DEF IInv, QuietStep, OrphanNeedsOverlap, CleanedUp, RemovedTwice
<1> QED
    BY <1>2, <1>3, <1>4

\* A key never lists an object created under another key.
LEMMA ListedAtOrigin ==
    ASSUME ListedIsLive, NEW p \in Listed
    PROVE  origin[p] \in Keys /\ processes[origin[p]] = p
BY NoneIsNoObject DEF ListedIsLive, Listed

\* A clean-up preserves the three registry invariants.
LEMMA CleanUpKeepsInvariants ==
    ASSUME IInv, NEW c \in Calls, CleanUpStep(c)
    PROVE  ListedIsLive' /\ RemovedIsUnlisted' /\ OrphanNeedsOverlap'
<1> DEFINE q == call[c].proc
           k == call[c].key
<1>1. k \in Keys /\ q \in Procs /\ origin[q] = k /\ ~ call[c].removed
    BY DEF IInv, CallHoldsItsProcess, CleanUpStep, Suspended
<1>2. /\ processes' = [processes EXCEPT ![k] = None]
      /\ origin' = origin /\ discarded' = discarded
      /\ call'[c].removed /\ call'[c].proc = q /\ call'[c].key = k
      /\ \A d \in Calls \ {c} : call'[d] = call[d]
    BY DEF CleanUpStep, DeleteKey, IInv, TypeOK, CallRecord
<1>3. \A p \in Procs : p # q => start'[p] = start[p]
    BY <1>1 DEF CleanUpStep, IInv, TypeOK
<1>4. /\ Listed' \subseteq Listed
      /\ q \notin Listed'
      /\ \A p \in Listed : p \notin Listed' => processes[k] = p
    <2>1. \A p \in Listed' : p \in Listed /\ processes[k] # p
        <3> SUFFICES ASSUME NEW p \in Procs, NEW j \in Keys, processes'[j] = p
                     PROVE  p \in Listed /\ processes[k] # p
            BY DEF Listed
        <3>1. j # k /\ processes[j] = p
            BY <1>1, <1>2, NoneIsNoObject DEF IInv, TypeOK
        <3>2. origin[p] = j
            BY <3>1, NoneIsNoObject DEF IInv, ListedIsLive
        <3> QED
            BY <1>1, <3>1, <3>2, NoneIsNoObject DEF Listed, IInv, ListedIsLive
    <2>2. ASSUME NEW p \in Listed, processes[k] # p PROVE p \in Listed'
        <3>1. PICK j \in Keys : processes[j] = p
            BY DEF Listed
        <3>2. processes'[j] = p
            BY <1>1, <1>2, <2>2, <3>1 DEF IInv, TypeOK
        <3> QED
            BY <3>1, <3>2 DEF Listed
    <2>3. q \in Listed => processes[k] = q
        BY <1>1, ListedAtOrigin DEF IInv
    <2> QED
        BY <2>1, <2>2, <2>3
<1>5. ListedIsLive'
    <2> SUFFICES ASSUME NEW j \in Keys, processes'[j] # None
                 PROVE  /\ origin'[processes'[j]] = j
                        /\ start'[processes'[j]] \in {"starting", "running"}
        BY DEF ListedIsLive
    <2>1. processes'[j] = processes[j] /\ processes[j] \in Procs
        BY <1>1, <1>2 DEF IInv, TypeOK
    <2>2. processes[j] # q
        BY <2>1, <1>4 DEF Listed
    <2> QED
        BY <2>1, <2>2, <1>2, <1>3 DEF IInv, ListedIsLive
<1>6. RemovedIsUnlisted'
    BY <1>2, <1>4 DEF IInv, RemovedIsUnlisted
<1>7. OrphanNeedsOverlap'
    <2>1. \A p \in Procs : CleanedUp(p) => CleanedUp(p)'
        BY <1>1, <1>2 DEF CleanedUp
    <2>2. \A j \in Keys : RemovedTwice(j) => RemovedTwice(j)'
        BY <1>1, <1>2 DEF RemovedTwice
    <2> SUFFICES ASSUME NEW p \in Procs, NEW j \in Keys, origin[p] = j,
                        p \notin Listed', p \notin discarded
                 PROVE  CleanedUp(p)' \/ RemovedTwice(j)'
        BY <1>2 DEF OrphanNeedsOverlap, RemovedTwice, IInv, TypeOK
    <2>0. origin[p] # None
        BY NoneIsNoObject DEF Keys
    <2>3. CASE p \notin Listed
        BY <2>0, <2>1, <2>2, <2>3 DEF IInv, OrphanNeedsOverlap
    <2>4. CASE p = q
        BY <2>4, <1>2 DEF CleanedUp
    <2>5. CASE p \in Listed /\ p # q
        <3>1. processes[k] = p /\ origin[p] = k
            BY <2>5, <1>4, <1>1, ListedAtOrigin, NoneIsNoObject DEF IInv, ListedIsLive
        <3>2. q \notin Listed
            BY <2>5, <3>1, <1>1, ListedAtOrigin DEF IInv
        <3>3. CASE q \in discarded
            BY <3>1, <3>3, <1>2 DEF RemovedTwice
        <3>4. CASE CleanedUp(q)
            <4>1. PICK d \in Calls : call[d].removed /\ call[d].proc = q
                BY <3>4 DEF CleanedUp
            <4>2. d # c /\ call'[d] = call[d]
                BY <4>1, <1>1, <1>2
            <4> QED
                BY <3>1, <4>1, <4>2, <1>2 DEF RemovedTwice
        <3>5. CASE RemovedTwice(k)
            BY <3>5, <3>1, <1>1, <2>2
        <3>6. origin[q] # None
            BY <1>1, NoneIsNoObject DEF Keys
        <3> QED
            BY <3>2, <3>3, <3>4, <3>5, <3>6, <1>1 DEF IInv, OrphanNeedsOverlap
    <2> QED
        BY <2>3, <2>4, <2>5
<1> QED
    BY <1>5, <1>6, <1>7

LEMMA CreateKeepsInvariants ==
    ASSUME IInv, NEW c \in Calls, NEW k \in Keys, NEW p \in Procs,
           CreateProcess(c, k, p)
    PROVE  ListedIsLive' /\ RemovedIsUnlisted' /\ OrphanNeedsOverlap'
<1>1. /\ processes' = [processes EXCEPT ![k] = p] /\ processes[k] = None
      /\ start' = [start EXCEPT ![p] = "starting"] /\ start[p] = "unborn"
      /\ origin' = [origin EXCEPT ![p] = k]
      /\ call'[c].removed = FALSE /\ ~ call[c].removed
      /\ \A d \in Calls \ {c} : call'[d] = call[d]
      /\ discarded' = discarded
    BY DEF CreateProcess, Idle, IInv, CallHoldsItsProcess, TypeOK, CallRecord
<1>2. p \notin Listed /\ origin[p] = None
    BY <1>1, NoneIsNoObject DEF IInv, ListedIsLive, Listed, BornHasOrigin
<1>3. Listed' = Listed \cup {p}
    <2>1. \A q \in Procs : q \in Listed' <=> q \in Listed \/ q = p
        BY <1>1, NoneIsNoObject DEF Listed, IInv, TypeOK
    <2> QED
        BY <2>1 DEF Listed
<1>4. \A d \in Calls : call[d].removed => call[d].proc # p /\ d # c
    BY <1>1, <1>2, NoneIsNoObject DEF IInv, CallHoldsItsProcess, Keys
<1>5. ListedIsLive'
    BY <1>1, <1>2, NoneIsNoObject DEF IInv, ListedIsLive, Listed, TypeOK
<1>6. RemovedIsUnlisted'
    BY <1>1, <1>3, <1>4 DEF IInv, RemovedIsUnlisted
<1>7. OrphanNeedsOverlap'
    <2>1. \A q \in Procs : CleanedUp(q) => CleanedUp(q)'
        BY <1>1 DEF CleanedUp
    <2>2. \A j \in Keys : RemovedTwice(j) => RemovedTwice(j)'
        BY <1>1 DEF RemovedTwice
    <2> SUFFICES ASSUME NEW q \in Procs, NEW j \in Keys, origin'[q] = j,
                        q \notin Listed', q \notin discarded
                 PROVE  CleanedUp(q)' \/ RemovedTwice(j)'
        <3>1. origin' \in [Procs -> Keys \cup {None}]
            BY <1>1 DEF IInv, TypeOK
        <3> QED
            BY <1>1, <3>1 DEF OrphanNeedsOverlap, RemovedTwice
    <2>3. q # p /\ origin[q] = j /\ q \notin Listed
        BY <1>1, <1>3 DEF IInv, TypeOK
    <2>4. origin[q] # None
        BY <2>3, NoneIsNoObject DEF Keys
    <2>5. CleanedUp(q) \/ RemovedTwice(j)
        BY <2>3, <2>4 DEF IInv, OrphanNeedsOverlap
    <2> QED
        BY <2>1, <2>2, <2>5
<1> QED
    BY <1>5, <1>6, <1>7

LEMMA ResetKeepsInvariants ==
    ASSUME IInv, ResetForTests
    PROVE  ListedIsLive' /\ RemovedIsUnlisted' /\ OrphanNeedsOverlap'
<1>1. /\ processes' = [k \in Keys |-> None]
      /\ discarded' = discarded \cup Listed
      /\ UNCHANGED <<origin, start, call>>
    BY DEF ResetForTests
<1>2. Listed' = {}
    BY <1>1, NoneIsNoObject DEF Listed
<1>3. ListedIsLive' /\ RemovedIsUnlisted'
    BY <1>1, <1>2 DEF ListedIsLive, RemovedIsUnlisted
<1>4. OrphanNeedsOverlap'
    BY <1>1, <1>2 DEF IInv, OrphanNeedsOverlap, CleanedUp, RemovedTwice
<1> QED
    BY <1>3, <1>4

\* Each continuation of a call is a quiet step or a clean-up.
LEMMA ContinueKind ==
    ASSUME IInv, NEW c \in Calls, Continue(c)
    PROVE  QuietStep \/ CleanUpStep(c)
<1> USE DEF IInv, TypeOK, CallRecord, QuietStep, CleanUpStep
<1>1. CASE OnEventResolves(c)
    BY <1>1 DEF OnEventResolves, Goto
<1>2. CASE OnEventRejects(c)
    BY <1>2 DEF OnEventRejects, Goto
<1>3. CASE StartResolves(c)
    BY <1>3 DEF StartResolves, Goto
<1>4. CASE StartRejects(c)
    BY <1>4 DEF StartRejects, CleanUp
<1>5. CASE AnnounceRejects(c)
    BY <1>5 DEF AnnounceRejects, CleanUp
<1>6. CASE FailureEmitted(c)
    BY <1>6 DEF FailureEmitted, Goto
<1>7. CASE StopSettles(c)
    BY <1>7 DEF StopSettles
<1>8. CASE Return(c)
    BY <1>8 DEF Return, Goto
<1> QED
    BY <1>1, <1>2, <1>3, <1>4, <1>5, <1>6, <1>7, <1>8 DEF Continue

\* The calls that begin without creating a process change no registry state.
LEMMA BeginIsQuiet ==
    ASSUME IInv, NEW c \in Calls, NEW k \in Keys,
           RouteEvent(c, k) \/ IgnoreEvent(c, k) \/ StopEntry(c, k)
    PROVE  QuietStep
<1>1. ~ call[c].removed
    BY DEF IInv, CallHoldsItsProcess, RouteEvent, IgnoreEvent, StopEntry, Idle
<1>2. /\ UNCHANGED <<processes, origin, discarded, start>>
      /\ \A d \in Calls \ {c} : call'[d] = call[d]
    BY DEF RouteEvent, IgnoreEvent, StopEntry, IInv, TypeOK
<1>3. call'[c].removed = FALSE
    BY DEF RouteEvent, IgnoreEvent, StopEntry, IInv, TypeOK
<1>4. \A d \in Calls : call'[d].removed = call[d].removed
    BY <1>1, <1>2, <1>3 DEF IInv, TypeOK, CallRecord
<1> QED
    BY <1>1, <1>2, <1>4 DEF QuietStep

LEMMA StopNothingIsQuiet ==
    ASSUME IInv, NEW c \in Calls, StopNothing(c)
    PROVE  QuietStep
BY DEF QuietStep, StopNothing, Idle, IInv, TypeOK, CallRecord, CallHoldsItsProcess

\* A step that touches one call only need be looked at for that call.
LEMMA OneCallChanges ==
    ASSUME IInv, NEW c \in Calls, origin' = origin,
           \A d \in Calls \ {c} : call'[d] = call[d],
           call'[c].pc \in Suspended \/ call'[c].removed
               => /\ call'[c].key \in Keys /\ call'[c].proc \in Procs
                  /\ origin[call'[c].proc] = call'[c].key,
           call'[c].pc \in {"idle", "routing", "starting", "announcing", "stopping"}
               => ~ call'[c].removed
    PROVE  CallHoldsItsProcess'
BY DEF CallHoldsItsProcess, IInv

\* Every step keeps each suspended call tied to its object and its key.
LEMMA NextCallHolds == IInv /\ [Next]_vars => CallHoldsItsProcess'
<1> SUFFICES ASSUME IInv, [Next]_vars PROVE CallHoldsItsProcess'
    OBVIOUS
<1> USE DEF CallHoldsItsProcess, IInv, TypeOK, CallRecord
<1>1. CASE UNCHANGED vars
    BY <1>1 DEF vars
<1>2. ASSUME NEW n \in Names, RegisterFactory(n) PROVE CallHoldsItsProcess'
    BY <1>2 DEF RegisterFactory
<1>3. CASE ResetForTests
    BY <1>3 DEF ResetForTests
<1>4. ASSUME NEW c \in Calls, NEW k \in Keys,
             RouteEvent(c, k) \/ StopEntry(c, k)
      PROVE  CallHoldsItsProcess'
    <2>1. processes[k] \in Procs /\ origin[processes[k]] = k
        BY <1>4 DEF RouteEvent, StopEntry, ListedIsLive
    <2>2. /\ origin' = origin
          /\ \A d \in Calls \ {c} : call'[d] = call[d]
          /\ call'[c].key = k /\ call'[c].proc = processes[k] /\ ~ call'[c].removed
        BY <1>4 DEF RouteEvent, StopEntry
    <2> QED
        BY <2>1, <2>2, OneCallChanges
<1>5. ASSUME NEW c \in Calls, StopNothing(c) \/ \E k \in Keys : IgnoreEvent(c, k)
      PROVE  CallHoldsItsProcess'
    <2>1. /\ origin' = origin
          /\ \A d \in Calls \ {c} : call'[d] = call[d]
          /\ call'[c].pc = "done" /\ ~ call'[c].removed
        BY <1>5 DEF IgnoreEvent, StopNothing
    <2> QED
        BY <2>1, OneCallChanges DEF Suspended
<1>6. ASSUME NEW c \in Calls, NEW k \in Keys, NEW p \in Procs, CreateProcess(c, k, p)
      PROVE  CallHoldsItsProcess'
    <2>1. origin[p] = None
        BY <1>6 DEF CreateProcess, BornHasOrigin
    <2>2. \A d \in Calls : call[d].pc \in Suspended \/ call[d].removed
                                => call[d].proc # p
        BY <2>1, NoneIsNoObject DEF Keys
    <2> QED
        BY <1>6, <2>2 DEF CreateProcess
<1>7. ASSUME NEW c \in Calls, Continue(c) PROVE CallHoldsItsProcess'
    <2>1. call[c].pc \in Suspended /\ UNCHANGED origin
        BY <1>7 DEF Continue, OnEventResolves, OnEventRejects, StartResolves,
            StartRejects, AnnounceRejects, FailureEmitted, StopSettles, Return,
            CleanUp, Suspended
    <2>2. \A d \in Calls \ {c} : call'[d] = call[d]
        BY <1>7 DEF Continue, OnEventResolves, OnEventRejects, StartResolves,
            StartRejects, AnnounceRejects, FailureEmitted, StopSettles, Return,
            CleanUp, Goto
    <2>3. call'[c].proc = call[c].proc /\ call'[c].key = call[c].key
        BY <1>7 DEF Continue, OnEventResolves, OnEventRejects, StartResolves,
            StartRejects, AnnounceRejects, FailureEmitted, StopSettles, Return,
            CleanUp, Goto
    <2>4. \/ call'[c].pc \in {"failing", "closing", "erroring", "done"}
          \/ call'[c].pc = "announcing" /\ ~ call'[c].removed
        BY <1>7 DEF Continue, OnEventResolves, OnEventRejects, StartResolves,
            StartRejects, AnnounceRejects, FailureEmitted, StopSettles, Return,
            CleanUp, Goto
    <2> QED
        BY SMTT(30), <2>1, <2>2, <2>3, <2>4, OneCallChanges
<1> QED
    BY <1>1, <1>2, <1>3, <1>4, <1>5, <1>6, <1>7
       DEF Next, Request, HandleEvent, StopByKey, StopById

LEMMA NextBornHasOrigin == IInv /\ [Next]_vars => BornHasOrigin'
<1> SUFFICES ASSUME IInv, [Next]_vars PROVE BornHasOrigin'
    OBVIOUS
<1> USE DEF BornHasOrigin, IInv, TypeOK
<1>1. CASE UNCHANGED <<start, origin>>
    BY <1>1
<1>2. ASSUME NEW c \in Calls, NEW k \in Keys, NEW p \in Procs, CreateProcess(c, k, p)
      PROVE  BornHasOrigin'
    BY <1>2, NoneIsNoObject DEF CreateProcess, Keys
<1>3. ASSUME NEW c \in Calls, StartResolves(c) \/ StartRejects(c)
      PROVE  BornHasOrigin'
    <2>1. call[c].proc \in Procs /\ origin[call[c].proc] # None
        BY <1>3, NoneIsNoObject
           DEF CallHoldsItsProcess, StartResolves, StartRejects, Suspended, Keys
    <2>2. origin' = origin
        BY <1>3 DEF StartResolves, StartRejects, CleanUp
    <2>3. \E s \in {"running", "failed"} : start' = [start EXCEPT ![call[c].proc] = s]
        BY <1>3 DEF StartResolves, StartRejects
    <2> QED
        BY <2>1, <2>2, <2>3
<1> QED
    BY <1>1, <1>2, <1>3
       DEF Next, Request, Continue, vars, RegisterFactory, HandleEvent, RouteEvent,
           IgnoreEvent, StopByKey, StopById, StopEntry, StopNothing, ResetForTests,
           OnEventResolves, OnEventRejects, AnnounceRejects, CleanUp,
           FailureEmitted, StopSettles, Return

LEMMA NextIInv == IInv /\ [Next]_vars => IInv'
<1> SUFFICES ASSUME IInv, [Next]_vars PROVE IInv'
    OBVIOUS
<1>1. TypeOK' /\ CallHoldsItsProcess' /\ BornHasOrigin'
    BY NextTypeOK, NextCallHolds, NextBornHasOrigin DEF IInv
<1>2. CASE UNCHANGED vars \/ \E n \in Names : RegisterFactory(n)
    <2>1. QuietStep
        BY <1>2 DEF QuietStep, vars, RegisterFactory
    <2> QED
        BY <1>1, <2>1, QuietKeepsInvariants DEF IInv
<1>3. ASSUME NEW c \in Calls, NEW k \in Keys, HandleEvent(c, k) \/ StopByKey(c, k)
      PROVE  IInv'
    BY <1>1, <1>3, BeginIsQuiet, StopNothingIsQuiet, QuietKeepsInvariants,
       CreateKeepsInvariants
       DEF IInv, HandleEvent, StopByKey
<1>4. ASSUME NEW c \in Calls, NEW p \in Procs, StopById(c, p) PROVE IInv'
    BY <1>1, <1>4, BeginIsQuiet, StopNothingIsQuiet, QuietKeepsInvariants
       DEF IInv, StopById
<1>5. CASE ResetForTests
    BY <1>1, <1>5, ResetKeepsInvariants DEF IInv
<1>6. ASSUME NEW c \in Calls, Continue(c) PROVE IInv'
    BY <1>1, <1>6, ContinueKind, QuietKeepsInvariants, CleanUpKeepsInvariants DEF IInv
<1> QED
    BY <1>2, <1>3, <1>4, <1>5, <1>6 DEF Next, Request

-----------------------------------------------------------------------------
(* What the bus has been told.  A listed object is still starting, held by the *)
(* one call that awaits its start(), or has been announced once; no lifecycle  *)
(* event follows while it is listed, as stops and failures remove it.          *)

StartIsAwaited ==
    /\ \A c \in Calls : call[c].pc = "starting"
            => /\ start[call[c].proc] = "starting"
               /\ \A d \in Calls : call[d].pc = "starting" /\ call[d].proc = call[c].proc
                                    => d = c
    /\ \A p \in Listed : start[p] = "starting"
            => \E c \in Calls : call[c].pc = "starting" /\ call[c].proc = p

TrailFollowsStart ==
    /\ \A p \in Procs : start[p] = "unborn" => trail[p] = <<>>
    /\ \A p \in Listed : start[p] = "starting" => Lifecycle(trail[p]) = {}
    /\ \A p \in Listed : start[p] = "running"
            => OnlyLifecycle(trail[p], "process.started")

TrailInv == IInv /\ StartIsAwaited /\ TrailFollowsStart

LEMMA ErrorIsNoLifecycle ==
    ASSUME NEW tr \in Seq(BusEvents)
    PROVE  Lifecycle(Append(tr, "processManager.error")) = Lifecycle(tr)
BY DEF Lifecycle, BusEvents

LEMMA EventIsLifecycle ==
    ASSUME NEW tr \in Seq(BusEvents), NEW e \in BusEvents, e # "processManager.error",
           Lifecycle(tr) = {}
    PROVE  OnlyLifecycle(Append(tr, e), e)
<1>1. Lifecycle(Append(tr, e)) = {Len(tr) + 1}
    BY DEF Lifecycle
<1>2. Len(tr) + 1 \in DOMAIN Append(tr, e) /\ Append(tr, e)[Len(tr) + 1] = e
    OBVIOUS
<1> QED
    BY <1>1, <1>2 DEF OnlyLifecycle

LEMMA ErrorKeepsLifecycle ==
    ASSUME NEW tr \in Seq(BusEvents), NEW e \in BusEvents, OnlyLifecycle(tr, e)
    PROVE  OnlyLifecycle(Append(tr, "processManager.error"), e)
<1>1. PICK i \in DOMAIN tr : Lifecycle(tr) = {i} /\ tr[i] = e
    BY DEF OnlyLifecycle
<1>2. /\ i \in DOMAIN Append(tr, "processManager.error")
      /\ Append(tr, "processManager.error")[i] = e
    BY <1>1
<1>3. Lifecycle(Append(tr, "processManager.error")) = {i}
    BY <1>1, ErrorIsNoLifecycle
<1> QED
    BY <1>2, <1>3 DEF OnlyLifecycle

\* No call starts or stops to await a start, and the bus hears at most of errors,
\* about objects that have been built.
MurmurStep ==
    /\ UNCHANGED start
    /\ Listed' \subseteq Listed
    /\ \A c \in Calls : call'[c].pc = "starting" <=> call[c].pc = "starting"
    /\ \A c \in Calls : call[c].pc = "starting" => call'[c].proc = call[c].proc
    /\ \/ UNCHANGED trail
       \/ \E p \in Procs : start[p] # "unborn" /\ Emit(p, "processManager.error")

LEMMA MurmurKeepsTrail ==
    ASSUME TrailInv, MurmurStep
    PROVE  StartIsAwaited' /\ TrailFollowsStart'
<1>1. StartIsAwaited'
    BY DEF TrailInv, StartIsAwaited, MurmurStep
<1>2. CASE UNCHANGED trail
    <2>1. start' = start /\ trail' = trail /\ Listed' \subseteq Listed
        BY <1>2 DEF MurmurStep
    <2> QED
        BY <1>1, <2>1 DEF TrailInv, TrailFollowsStart
<1>3. ASSUME NEW q \in Procs, start[q] # "unborn", Emit(q, "processManager.error")
      PROVE  TrailFollowsStart'
    <2> DEFINE tr == trail[q]
    <2>1. tr \in Seq(BusEvents) /\ "process.started" \in BusEvents
        BY DEF TrailInv, IInv, TypeOK, BusEvents
    <2>2. /\ trail'[q] = Append(tr, "processManager.error")
          /\ \A p \in Procs \ {q} : trail'[p] = trail[p]
        BY <1>3 DEF Emit, TrailInv, IInv, TypeOK
    <2>3. Listed \subseteq Procs
        BY DEF Listed
    <2>4. Lifecycle(trail'[q]) = Lifecycle(tr)
        BY <2>1, <2>2, ErrorIsNoLifecycle
    <2>5. OnlyLifecycle(tr, "process.started")
                => OnlyLifecycle(trail'[q], "process.started")
        BY <2>1, <2>2, ErrorKeepsLifecycle
    <2> QED
        BY <1>3, <2>2, <2>3, <2>4, <2>5 DEF TrailInv, TrailFollowsStart, MurmurStep
<1>4. \/ UNCHANGED trail
      \/ \E q \in Procs : start[q] # "unborn" /\ Emit(q, "processManager.error")
    BY DEF MurmurStep
<1>5. TrailFollowsStart'
    <2>1. ASSUME NEW q \in Procs,
                 start[q] # "unborn" /\ Emit(q, "processManager.error")
          PROVE  TrailFollowsStart'
        BY <1>3, <2>1
    <2> QED
        BY <1>2, <1>4, <2>1
<1> QED
    BY <1>1, <1>5

\* Call c lets go of the start of its object, if it awaited it, and the object
\* is not listed afterwards.
LetGoStep(c) ==
    /\ call[c].proc \in Procs /\ start[call[c].proc] # "unborn"
    /\ call[c].proc \notin Listed'
    /\ Listed' \subseteq Listed
    /\ \A d \in Calls \ {c} : call'[d] = call[d]
    /\ call'[c].pc # "starting"
    /\ \E e \in BusEvents : Emit(call[c].proc, e)
    /\ \/ call[c].pc # "starting" /\ start' = start
       \/ call[c].pc = "starting" /\ start' = [start EXCEPT ![call[c].proc] = "failed"]

LEMMA LetGoKeepsTrail ==
    ASSUME TrailInv, NEW c \in Calls, LetGoStep(c)
    PROVE  StartIsAwaited' /\ TrailFollowsStart'
<1> DEFINE q == call[c].proc
<1>1. /\ q \in Procs /\ start[q] # "unborn" /\ q \notin Listed'
      /\ Listed' \subseteq Listed /\ Listed \subseteq Procs
      /\ \A d \in Calls \ {c} : call'[d] = call[d]
      /\ call'[c].pc # "starting"
    BY DEF LetGoStep, Listed
<1>2. \A p \in Procs : p # q => trail'[p] = trail[p] /\ start'[p] = start[p]
    BY DEF LetGoStep, Emit, TrailInv, IInv, TypeOK
<1>3. start'[q] # "unborn"
    BY <1>1 DEF LetGoStep, TrailInv, IInv, TypeOK
<1>4. ASSUME NEW d \in Calls, call'[d].pc = "starting"
      PROVE  d # c /\ call'[d] = call[d] /\ call[d].proc \in Procs
    BY <1>1, <1>4 DEF TrailInv, IInv, CallHoldsItsProcess, Suspended
<1>5. ASSUME NEW d \in Calls, call'[d].pc = "starting"
      PROVE  start'[call'[d].proc] = "starting"
    <2>1. call[d].pc = "starting" /\ start[call[d].proc] = "starting" /\ d # c
        BY <1>4, <1>5 DEF TrailInv, StartIsAwaited
    <2>2. CASE start' = start
        BY <2>1, <2>2, <1>4, <1>5
    <2>3. CASE call[c].pc = "starting"
        <3>1. call[d].proc # q
            BY <2>1, <2>3 DEF TrailInv, StartIsAwaited
        <3> QED
            BY <2>1, <3>1, <1>2, <1>4, <1>5
    <2> QED
        BY <2>2, <2>3 DEF LetGoStep
<1>6. ASSUME NEW p \in Listed', start'[p] = "starting"
      PROVE  \E d \in Calls : call'[d].pc = "starting" /\ call'[d].proc = p
    <2>1. p # q /\ p \in Listed /\ p \in Procs /\ start[p] = "starting"
        BY <1>1, <1>2, <1>6
    <2>2. PICK d \in Calls : call[d].pc = "starting" /\ call[d].proc = p
        BY <2>1 DEF TrailInv, StartIsAwaited
    <2> QED
        BY <2>1, <2>2, <1>1
<1>7. StartIsAwaited'
    BY <1>4, <1>5, <1>6 DEF TrailInv, StartIsAwaited
<1>8. TrailFollowsStart'
    BY <1>1, <1>2, <1>3 DEF TrailInv, TrailFollowsStart
<1> QED
    BY <1>7, <1>8

LEMMA CreateKeepsTrail ==
    ASSUME TrailInv, NEW c \in Calls, NEW k \in Keys, NEW q \in Procs,
           CreateProcess(c, k, q)
    PROVE  StartIsAwaited' /\ TrailFollowsStart'
<1>1. /\ start' = [start EXCEPT ![q] = "starting"] /\ start[q] = "unborn"
      /\ trail' = trail
      /\ call'[c].pc = "starting" /\ call'[c].proc = q
      /\ \A d \in Calls \ {c} : call'[d] = call[d]
    BY DEF CreateProcess, TrailInv, IInv, TypeOK, CallRecord
<1>2. \A p \in Procs : p \in Listed' => p \in Listed \/ p = q
    BY NoneIsNoObject DEF CreateProcess, Listed, TrailInv, IInv, TypeOK
<1>3. Listed' \subseteq Procs
    BY DEF Listed
<1>4. /\ start'[q] = "starting"
      /\ \A p \in Procs : p # q => start'[p] = start[p]
    BY <1>1 DEF TrailInv, IInv, TypeOK
<1>5. \A d \in Calls : call[d].pc = "starting" => call[d].proc # q /\ call[d].proc \in Procs
    BY <1>1 DEF TrailInv, StartIsAwaited, IInv, CallHoldsItsProcess, Suspended
<1>6. StartIsAwaited'
    <2>1. ASSUME NEW d \in Calls, call'[d].pc = "starting"
          PROVE  start'[call'[d].proc] = "starting"
        BY <2>1, <1>1, <1>4, <1>5 DEF TrailInv, StartIsAwaited
    <2>2. ASSUME NEW d \in Calls, NEW e \in Calls, call'[d].pc = "starting",
                 call'[e].pc = "starting", call'[e].proc = call'[d].proc
          PROVE  e = d
        BY <2>2, <1>1, <1>5 DEF TrailInv, StartIsAwaited
    <2>3. ASSUME NEW p \in Listed', start'[p] = "starting"
          PROVE  \E d \in Calls : call'[d].pc = "starting" /\ call'[d].proc = p
        <3>1. CASE p = q
            BY <3>1, <1>1
        <3>2. CASE p # q
            <4>1. p \in Listed /\ start[p] = "starting"
                BY <2>3, <3>2, <1>2, <1>3, <1>4
            <4>2. PICK d \in Calls : call[d].pc = "starting" /\ call[d].proc = p
                BY <4>1 DEF TrailInv, StartIsAwaited
            <4>3. d # c
                BY <4>2 DEF CreateProcess, Idle
            <4> QED
                BY <4>2, <4>3, <1>1
        <3> QED
            BY <3>1, <3>2
    <2> QED
        BY <2>1, <2>2, <2>3 DEF StartIsAwaited
<1>7. Lifecycle(trail[q]) = {}
    BY <1>1 DEF TrailInv, TrailFollowsStart, Lifecycle
<1>8. TrailFollowsStart'
    BY <1>1, <1>2, <1>3, <1>4, <1>7 DEF TrailInv, TrailFollowsStart
<1> QED
    BY <1>6, <1>8

LEMMA StartResolvesKeepsTrail ==
    ASSUME TrailInv, NEW c \in Calls, StartResolves(c)
    PROVE  StartIsAwaited' /\ TrailFollowsStart'
<1> DEFINE q == call[c].proc
<1>1. /\ call[c].pc = "starting" /\ q \in Procs /\ start[q] = "starting"
      /\ Listed' = Listed /\ Listed \subseteq Procs
    BY DEF StartResolves, TrailInv, IInv, CallHoldsItsProcess, Suspended,
           StartIsAwaited, Listed
<1>2. /\ \A d \in Calls \ {c} : call'[d] = call[d]
      /\ call'[c].pc = "announcing"
    BY DEF StartResolves, Goto, TrailInv, IInv, TypeOK, CallRecord
<1>3. /\ start'[q] = "running"
      /\ trail'[q] = Append(trail[q], "process.started")
      /\ \A p \in Procs : p # q => trail'[p] = trail[p] /\ start'[p] = start[p]
    BY <1>1 DEF StartResolves, Emit, TrailInv, IInv, TypeOK
<1>4. \A d \in Calls : call'[d].pc = "starting"
            => d # c /\ call'[d] = call[d] /\ call[d].proc # q /\ call[d].proc \in Procs
    BY <1>1, <1>2 DEF TrailInv, StartIsAwaited, IInv, CallHoldsItsProcess, Suspended
<1>5. StartIsAwaited'
    <2>1. ASSUME NEW d \in Calls, call'[d].pc = "starting"
          PROVE  start'[call'[d].proc] = "starting"
        BY <2>1, <1>3, <1>4 DEF TrailInv, StartIsAwaited
    <2>2. ASSUME NEW d \in Calls, NEW e \in Calls, call'[d].pc = "starting",
                 call'[e].pc = "starting", call'[e].proc = call'[d].proc
          PROVE  e = d
        BY <2>2, <1>4 DEF TrailInv, StartIsAwaited
    <2>3. ASSUME NEW p \in Listed', start'[p] = "starting"
          PROVE  \E d \in Calls : call'[d].pc = "starting" /\ call'[d].proc = p
        <3>1. p # q /\ p \in Listed /\ start[p] = "starting"
            BY <2>3, <1>1, <1>3
        <3>2. PICK d \in Calls : call[d].pc = "starting" /\ call[d].proc = p
            BY <3>1 DEF TrailInv, StartIsAwaited
        <3> QED
            BY <3>1, <3>2, <1>2
    <2> QED
        BY <2>1, <2>2, <2>3 DEF StartIsAwaited
<1>6. q \in Listed => OnlyLifecycle(trail'[q], "process.started")
    <2>1. q \in Listed => Lifecycle(trail[q]) = {}
        BY <1>1 DEF TrailInv, TrailFollowsStart
    <2>2. trail[q] \in Seq(BusEvents) /\ "process.started" \in BusEvents
        BY <1>1 DEF TrailInv, IInv, TypeOK, BusEvents
    <2> QED
        BY <2>1, <2>2, <1>3, EventIsLifecycle
<1>7. TrailFollowsStart'
    BY <1>1, <1>3, <1>6 DEF TrailInv, TrailFollowsStart
<1> QED
    BY <1>5, <1>7

\* Each other continuation of a call murmurs or lets go.
LEMMA ContinueTrailKind ==
    ASSUME TrailInv, NEW c \in Calls, Continue(c), IInv'
    PROVE  MurmurStep \/ LetGoStep(c) \/ StartResolves(c)
<1>1. IInv
    BY DEF TrailInv
<1>2. call[c].pc \in Suspended
          => call[c].proc \in Procs /\ start[call[c].proc] # "unborn"
    BY <1>1, NoneIsNoObject DEF IInv, CallHoldsItsProcess, BornHasOrigin, Keys
<1>3. "processManager.error" \in BusEvents /\ "process.start.failed" \in BusEvents
      /\ "process.stopped" \in BusEvents
    BY DEF BusEvents
<1>4. processes' = processes => Listed' = Listed
    BY DEF Listed
<1>a. ASSUME NEW pc \in {"erroring", "done"}, call[c].pc # "starting", Goto(c, pc)
      PROVE  /\ \A d \in Calls : call'[d].pc = "starting" <=> call[d].pc = "starting"
             /\ \A d \in Calls : call[d].pc = "starting" => call'[d].proc = call[d].proc
    BY <1>a, <1>1 DEF Goto, IInv, TypeOK, CallRecord
<1>b. ASSUME CleanUpStep(c)
      PROVE  /\ call[c].proc \notin Listed'
             /\ Listed' \subseteq Listed
             /\ \A d \in Calls \ {c} : call'[d] = call[d]
             /\ call'[c].pc # "starting"
    <2>1. /\ \A d \in Calls \ {c} : call'[d] = call[d]
          /\ call'[c].pc # "starting" /\ call'[c].removed
          /\ call'[c].proc = call[c].proc
        BY <1>b, <1>1 DEF CleanUpStep, IInv, TypeOK, CallRecord
    <2>2. call[c].proc \notin Listed'
        BY <2>1 DEF IInv, RemovedIsUnlisted
    <2>3. Listed' \subseteq Listed
        BY <1>b, <1>1, NoneIsNoObject DEF CleanUpStep, DeleteKey, Listed, IInv, TypeOK
    <2> QED
        BY <2>1, <2>2, <2>3
<1>5. CASE OnEventResolves(c)
    BY <1>4, <1>5, <1>a DEF OnEventResolves, MurmurStep
<1>6. CASE OnEventRejects(c)
    BY <1>2, <1>4, <1>6, <1>a DEF OnEventRejects, MurmurStep, Suspended
<1>7. CASE FailureEmitted(c)
    BY <1>2, <1>4, <1>7, <1>a DEF FailureEmitted, MurmurStep, Suspended
<1>8. CASE Return(c)
    BY <1>4, <1>8, <1>a DEF Return, MurmurStep
<1>9. CASE StartRejects(c)
    <2>1. CleanUpStep(c)
        BY <1>9 DEF StartRejects, CleanUp, CleanUpStep
    <2> QED
        BY <1>2, <1>3, <1>9, <1>b, <2>1 DEF StartRejects, CleanUp, LetGoStep, Suspended
<1>10. CASE AnnounceRejects(c)
    <2>1. CleanUpStep(c)
        BY <1>10 DEF AnnounceRejects, CleanUp, CleanUpStep
    <2> QED
        BY <1>2, <1>3, <1>10, <1>b, <2>1 DEF AnnounceRejects, CleanUp, LetGoStep, Suspended
<1>11. CASE StopSettles(c)
    <2>1. CleanUpStep(c)
        BY <1>11 DEF StopSettles, CleanUpStep
    <2> QED
        BY <1>2, <1>3, <1>11, <1>b, <2>1 DEF StopSettles, LetGoStep, Suspended
<1> QED
    BY <1>5, <1>6, <1>7, <1>8, <1>9, <1>10, <1>11 DEF Continue

\* A call that begins without creating a process murmurs nothing at all.
LEMMA BeginMurmurs ==
    ASSUME TrailInv, NEW c \in Calls,
           StopNothing(c) \/ \E k \in Keys : RouteEvent(c, k) \/ IgnoreEvent(c, k)
                                                \/ StopEntry(c, k)
    PROVE  MurmurStep
<1>1. UNCHANGED <<start, trail, processes>> /\ call[c].pc = "idle"
    BY DEF StopNothing, RouteEvent, IgnoreEvent, StopEntry, Idle
<1>2. Listed' = Listed
    BY <1>1 DEF Listed
<1>3. /\ \A d \in Calls \ {c} : call'[d] = call[d]
      /\ call'[c].pc \in {"done", "routing", "stopping"}
    BY DEF StopNothing, RouteEvent, IgnoreEvent, StopEntry, TrailInv, IInv, TypeOK
<1> QED
    BY <1>1, <1>2, <1>3 DEF MurmurStep

LEMMA NextTrailInv == TrailInv /\ [Next]_vars => TrailInv'
<1> SUFFICES ASSUME TrailInv, [Next]_vars PROVE TrailInv'
    OBVIOUS
<1>1. IInv'
    BY NextIInv DEF TrailInv
<1>2. ASSUME MurmurStep PROVE TrailInv'
    BY <1>1, <1>2, MurmurKeepsTrail DEF TrailInv
<1>3. CASE UNCHANGED vars \/ \E n \in Names : RegisterFactory(n)
    BY <1>2, <1>3 DEF MurmurStep, vars, RegisterFactory, Listed
<1>4. CASE ResetForTests
    BY <1>2, <1>4, NoneIsNoObject DEF MurmurStep, ResetForTests, Listed
<1>5. ASSUME NEW c \in Calls, NEW k \in Keys, HandleEvent(c, k) \/ StopByKey(c, k)
      PROVE  TrailInv'
    BY <1>1, <1>2, <1>5, BeginMurmurs, CreateKeepsTrail
       DEF HandleEvent, StopByKey, TrailInv
<1>6. ASSUME NEW c \in Calls, NEW p \in Procs, StopById(c, p) PROVE TrailInv'
    BY <1>2, <1>6, BeginMurmurs DEF StopById
<1>7. ASSUME NEW c \in Calls, Continue(c) PROVE TrailInv'
    BY <1>1, <1>2, <1>7, ContinueTrailKind, LetGoKeepsTrail, StartResolvesKeepsTrail
       DEF TrailInv
<1> QED
    BY <1>3, <1>4, <1>5, <1>6, <1>7 DEF Next, Request

LEMMA TrailInvariance == Spec => []TrailInv
<1>1. Init => TrailInv
    <2> SUFFICES ASSUME Init PROVE TrailInv
        OBVIOUS
    <2>1. StartIsAwaited
        BY DEF Init, StartIsAwaited, IdleCall, Listed
    <2>2. TrailFollowsStart
        BY NoneIsNoObject DEF Init, TrailFollowsStart, Listed
    <2> QED
        BY <2>1, <2>2, InitIInv DEF TrailInv
<1>2. TrailInv /\ [Next]_vars => TrailInv'
    BY NextTrailInv
<1> QED
    BY <1>1, <1>2, PTL DEF Spec

-----------------------------------------------------------------------------
(* The theorems *)

LEMMA Invariance == Spec => []IInv
<1>1. Init => IInv
    BY InitIInv
<1>2. IInv /\ [Next]_vars => IInv'
    BY NextIInv
<1> QED
    BY <1>1, <1>2, PTL DEF Spec

\* Every variable keeps its type, for any number of calls and processes.
THEOREM TypeCorrect == Spec => []TypeOK
BY Invariance, PTL DEF IInv

\* The Map lists an object only under its own key and never after its start()
\* has failed.
THEOREM ListedStaysLive == Spec => []ListedIsLive
BY Invariance, PTL DEF IInv

\* After its clean-up no object is listed again.
THEOREM RemovedStaysUnlisted == Spec => []RemovedIsUnlisted
BY Invariance, PTL DEF IInv

\* A process leaves the Map without its own clean-up only if an earlier process
\* of the same key was removed twice.
THEOREM OrphansNeedOverlap == Spec => []OrphanNeedsOverlap
BY Invariance, PTL DEF IInv

\* The manager's invariant: what the Map holds is live and of its key, is not
\* taken back once removed, and, whenever no call is in flight, the bus has told
\* of each listed object that it started, once, and nothing else of its life.
THEOREM ManagerKept == Spec => []ManagerInv
<1>1. TrailInv => ManagerInv
    <2> SUFFICES ASSUME TrailInv PROVE ManagerInv
        OBVIOUS
    <2>1. ASSUME Quiet, NEW p \in Listed
          PROVE  OnlyLifecycle(trail[p], "process.started")
        <3>1. start[p] \in {"starting", "running"}
            BY NoneIsNoObject DEF Listed, TrailInv, IInv, ListedIsLive
        <3>2. \A c \in Calls : call[c].pc # "starting"
            BY <2>1 DEF Quiet
        <3> QED
            BY <3>1, <3>2 DEF TrailInv, StartIsAwaited, TrailFollowsStart
    <2> QED
        BY <2>1 DEF QuietTrail, ManagerInv, TrailInv, IInv
<1> QED
    BY <1>1, TrailInvariance, PTL

-----------------------------------------------------------------------------
(* The manager implements ProcessRegistry *)

LEMMA RegistryStep == IInv /\ [Next]_vars => [Registry!Next]_(Registry!vars)
<1> SUFFICES ASSUME IInv, [Next]_vars PROVE [Registry!Next]_(Registry!vars)
    OBVIOUS
<1> USE DEF Registry!Next, Registry!vars
<1>1. ASSUME UNCHANGED <<origin, processes>> PROVE UNCHANGED <<origin, Listed>>
    BY <1>1 DEF Listed
<1>2. ASSUME NEW c \in Calls, NEW k \in Keys, NEW p \in Procs, CreateProcess(c, k, p)
      PROVE  Registry!Admit(p, k)
    <2>1. origin[p] = None /\ origin' = [origin EXCEPT ![p] = k]
        BY <1>2 DEF CreateProcess, IInv, BornHasOrigin
    <2>2. \A q \in Listed : origin[q] # k
        BY <1>2, NoneIsNoObject, ListedAtOrigin DEF CreateProcess, IInv, Listed
    <2>3. \A q \in Procs : q \in Listed' <=> q \in Listed \/ q = p
        BY <1>2, NoneIsNoObject DEF CreateProcess, Listed, IInv, TypeOK
    <2>4. Listed' = Listed \cup {p}
        BY <2>3 DEF Listed
    <2> QED
        BY <2>1, <2>2, <2>4 DEF Registry!Admit
<1>3. ASSUME origin' = origin, Listed' \subseteq Listed
      PROVE  [Registry!Next]_(Registry!vars)
    <2>1. Registry!Retire(Listed \ Listed')
        BY <1>3 DEF Registry!Retire
    <2> QED
        BY <2>1
<1>4. ASSUME NEW c \in Calls, CleanUpStep(c)
      PROVE  origin' = origin /\ Listed' \subseteq Listed
    BY <1>4, NoneIsNoObject DEF CleanUpStep, DeleteKey, Listed, IInv, TypeOK
<1>5. ASSUME ResetForTests PROVE origin' = origin /\ Listed' \subseteq Listed
    BY <1>5, NoneIsNoObject DEF ResetForTests, Listed
<1>6. ASSUME NEW c \in Calls, Continue(c) PROVE [Registry!Next]_(Registry!vars)
    BY <1>1, <1>3, <1>4, <1>6, ContinueKind DEF QuietStep
<1>7. ASSUME NEW c \in Calls, NEW k \in Keys, HandleEvent(c, k) \/ StopByKey(c, k)
      PROVE  [Registry!Next]_(Registry!vars)
    BY <1>1, <1>2, <1>7 DEF HandleEvent, RouteEvent, IgnoreEvent, StopByKey,
                            StopEntry, StopNothing
<1>8. ASSUME NEW c \in Calls, NEW p \in Procs, StopById(c, p)
      PROVE  [Registry!Next]_(Registry!vars)
    BY <1>1, <1>8 DEF StopById, StopEntry, StopNothing
<1>9. CASE UNCHANGED vars \/ \E n \in Names : RegisterFactory(n)
    BY <1>1, <1>9 DEF vars, RegisterFactory
<1> QED
    BY <1>3, <1>5, <1>6, <1>7, <1>8, <1>9 DEF Next, Request

\* Whatever the interleaving of events, stops, failing starts and resets, the
\* manager's Map behaves as a registry that admits an object once, under a free
\* key, and never takes it back.
THEOREM ImplementsRegistry == Spec => RegistrySpec
<1>1. Init => Registry!Init
    BY NoneIsNoObject DEF Init, Registry!Init, Listed
<1>2. QED
    BY <1>1, RegistryStep, Invariance, PTL DEF Spec, RegistrySpec, Registry!Spec

-----------------------------------------------------------------------------
(* Governance sweeps *)

\* Sweep s awaits the stop of object p, which has not settled.
Stopping(s, p) ==
    call[sweep[s].call].pc = "stopping" /\ call[sweep[s].call].proc = p

\* Inside a loop, the objects the loop still has to clear are in its remaining
\* snapshot or being stopped; the second loop runs only in an open window.
LoopPending(s) ==
    /\ sweep[s].pc \in {"blocked", "maintenance"} =>
        /\ sweep[s].call \in Calls
        /\ call[sweep[s].call].pc \in {"stopping", "closing", "done"}
    /\ sweep[s].pc = "blocked" =>
        \A p \in sweep[s].before \cap Listed :
            Workspace(p) \in PayloadBlocked(sweep[s].shape, sweep[s].asked)
                => p \in sweep[s].todo \/ Stopping(s, p)
    /\ sweep[s].pc = "maintenance" =>
        \A p \in sweep[s].before \cap Listed :
            p \in sweep[s].todo \/ Stopping(s, p)

ExistedBefore(s) == \A p \in sweep[s].before : origin[p] # None

RInv ==
    /\ IInv
    /\ SweepTypeOK
    /\ \A s \in Sweeps : LoopPending(s) /\ ExistedBefore(s)
    /\ SweepClears

-----------------------------------------------------------------------------
(* What a step of the process manager does to what a sweep relies on *)

\* An object that exists keeps its origin, and does not come back once gone.
LEMMA GoneForGood ==
    ASSUME IInv, [Next]_vars, NEW p \in Procs, origin[p] # None
    PROVE  origin'[p] = origin[p] /\ (p \notin Listed => p \notin Listed')
<1>1. [Registry!Next]_(Registry!vars)
    BY RegistryStep
<1>2. CASE UNCHANGED <<origin, Listed>>
    BY <1>2
<1>3. ASSUME NEW q \in Procs, NEW k \in Keys, Registry!Admit(q, k)
      PROVE  origin'[p] = origin[p] /\ (p \notin Listed => p \notin Listed')
    BY <1>3 DEF Registry!Admit, IInv, TypeOK
<1>4. ASSUME NEW S \in SUBSET Listed, Registry!Retire(S)
      PROVE  origin'[p] = origin[p] /\ (p \notin Listed => p \notin Listed')
    BY <1>4 DEF Registry!Retire
<1> QED
    BY <1>1, <1>2, <1>3, <1>4 DEF Registry!Next, Registry!vars

\* A stop that is under way stays so, or has just unlisted its object; one that
\* has settled moves on to its end.
LEMMA StopProgress ==
    ASSUME IInv, [Next]_vars, NEW c \in Calls,
           call[c].pc \in {"stopping", "closing", "done"}
    PROVE  /\ call'[c].pc \in {"stopping", "closing", "done"}
           /\ call[c].pc = "stopping" =>
                \/ call'[c] = call[c]
                \/ call[c].proc \notin Listed'
<1> USE DEF IInv, TypeOK, CallRecord
<1>1. CASE call'[c] = call[c]
    BY <1>1
<1>2. CASE StopSettles(c)
    <2>1. CleanUpStep(c)
        BY <1>2 DEF CleanUpStep, StopSettles
    <2>2. RemovedIsUnlisted'
        BY <2>1, CleanUpKeepsInvariants
    <2>3. call'[c].removed /\ call'[c].proc = call[c].proc /\ call'[c].pc = "closing"
        BY <1>2 DEF StopSettles
    <2> QED
        BY <2>2, <2>3 DEF RemovedIsUnlisted
<1>3. CASE Return(c)
    BY <1>3 DEF Return, Goto
<1>4. ASSUME NEW d \in Calls, Continue(d), d # c PROVE call'[c] = call[c]
    BY <1>4 DEF Continue, OnEventResolves, OnEventRejects, StartResolves,
        StartRejects, AnnounceRejects, FailureEmitted, StopSettles, Return,
        CleanUp, Goto
<1>5. Continue(c) => StopSettles(c) \/ Return(c)
    BY DEF Continue, OnEventResolves, OnEventRejects, StartResolves,
        StartRejects, AnnounceRejects, FailureEmitted
<1>6. ASSUME Request PROVE call'[c] = call[c]
    BY <1>6 DEF Request, RegisterFactory, HandleEvent, RouteEvent, CreateProcess,
        IgnoreEvent, StopByKey, StopById, StopEntry, StopNothing, ResetForTests,
        Idle
<1> QED
    BY <1>1, <1>2, <1>3, <1>4, <1>5, <1>6 DEF Next, vars

\* A step of the process manager keeps what is known of every sweep it does not
\* belong to.
LEMMA BaseStep ==
    ASSUME RInv, [Next]_vars, NEW s \in Sweeps, sweep'[s] = sweep[s]
    PROVE  /\ LoopPending(s)' /\ ExistedBefore(s)'
           /\ sweep[s].pc = "applied" =>
                \A p \in sweep[s].before : Covered(s, p)' => p \notin Listed'
<1> DEFINE sw == sweep[s]
<1>1. sw.before \subseteq Procs
    BY DEF RInv, SweepTypeOK, SweepRecord
<1>2. \A p \in sw.before : /\ origin'[p] = origin[p]
                           /\ p \in Listed' => p \in Listed
    BY <1>1, GoneForGood DEF RInv, ExistedBefore
<1>3. ExistedBefore(s)'
    BY <1>2 DEF RInv, ExistedBefore
<1>4. ASSUME sw.pc \in {"blocked", "maintenance"}
      PROVE  /\ call'[sw.call].pc \in {"stopping", "closing", "done"}
             /\ \A p \in sw.before : Stopping(s, p) /\ p \in Listed' => Stopping(s, p)'
    <2>1. sw.call \in Calls /\ call[sw.call].pc \in {"stopping", "closing", "done"}
        BY <1>4 DEF RInv, LoopPending
    <2> QED
        BY <2>1, StopProgress DEF RInv, Stopping
<1>5. LoopPending(s)'
    BY <1>2, <1>4 DEF RInv, LoopPending, Workspace
<1>6. sw.pc = "applied" => \A p \in sw.before : Covered(s, p)' => p \notin Listed'
    BY <1>2 DEF RInv, SweepClears, Covered, Workspace
<1> QED
    BY <1>3, <1>5, <1>6

-----------------------------------------------------------------------------
(* The steps of a sweep *)

\* sw is a record a sweep can go on with: its loop is in order once the objects
\* of S remain to be stopped.
Ready(s, sw, S) ==
    /\ sw \in SweepRecord
    /\ S \subseteq Procs
    /\ \A p \in sw.before : origin[p] # None

LEMMA StopByIdIsNext ==
    ASSUME NEW c \in Calls, NEW p \in Procs, StopById(c, p)
    PROVE  [Next]_vars
BY DEF Next, Request

\* Issuing the next stop of a loop: every listed object that was still to be
\* cleared is in the rest of the snapshot or is the one being stopped.
LEMMA StopNextStep ==
    ASSUME RInv, NEW s \in Sweeps, NEW sw, NEW loop \in {"blocked", "maintenance"},
           NEW S, Ready(s, sw, S), StopNext(s, sw, loop, S),
           \A p \in sw.before \cap Listed :
               loop = "maintenance" \/ Workspace(p) \in PayloadBlocked(sw.shape, sw.asked)
                   => p \in S
    PROVE  RInv'
<1>1. PICK p \in S, c \in Calls :
        /\ StopById(c, p)
        /\ sweep' = [sweep EXCEPT ![s] =
                        [sw EXCEPT !.pc = loop, !.todo = S \ {p}, !.call = c,
                                   !.stopped = IF loop = "maintenance"
                                               THEN @ \cup {p} ELSE @]]
    BY DEF StopNext
<1>2. p \in Procs /\ sw \in SweepRecord /\ S \subseteq Procs
    BY DEF Ready
<1>3. [Next]_vars
    BY <1>1, <1>2, StopByIdIsNext
<1>4. IInv /\ IInv' /\ SweepTypeOK
    BY <1>3, NextIInv DEF RInv
<1> DEFINE new == [sw EXCEPT !.pc = loop, !.todo = S \ {p}, !.call = c,
                             !.stopped = IF loop = "maintenance"
                                         THEN @ \cup {p} ELSE @]
<1>5. new \in SweepRecord
    BY <1>2 DEF SweepRecord
<1>6. sweep'[s] = new /\ \A t \in Sweeps \ {s} : sweep'[t] = sweep[t]
    BY <1>1, <1>4 DEF SweepTypeOK
<1>7. SweepTypeOK'
    BY <1>1, <1>4, <1>5 DEF SweepTypeOK
<1>8. /\ new.pc = loop /\ new.todo = S \ {p} /\ new.call = c
      /\ new.before = sw.before /\ new.asked = sw.asked /\ new.shape = sw.shape
    BY <1>2 DEF SweepRecord
<1>9. UNCHANGED <<origin, processes>>
    BY <1>1 DEF StopById, StopEntry, StopNothing
<1>10. Listed' = Listed
    BY <1>9 DEF Listed
<1>11. /\ call'[c].pc \in {"stopping", "done"}
       /\ p \in Listed => call'[c].pc = "stopping" /\ call'[c].proc = p
    BY <1>1, <1>4 DEF StopById, StopEntry, StopNothing, IInv, TypeOK
<1>12. LoopPending(s)' /\ ExistedBefore(s)'
    <2>1. sweep'[s].before = sw.before /\ sw.before \subseteq Procs
        BY <1>6, <1>8, <1>2 DEF SweepRecord
    <2>2. ExistedBefore(s)'
        BY <2>1, <1>9 DEF ExistedBefore, Ready
    <2>3. ASSUME NEW q \in sw.before \cap Listed, q \in S
          PROVE  q \in sweep'[s].todo \/ Stopping(s, q)'
        BY <2>3, <1>6, <1>8, <1>11 DEF Stopping
    <2>4. LoopPending(s)'
        BY <2>1, <2>3, <1>6, <1>8, <1>9, <1>10, <1>11 DEF LoopPending, Workspace
    <2> QED
        BY <2>2, <2>4
<1>13. \A t \in Sweeps \ {s} :
            /\ LoopPending(t)' /\ ExistedBefore(t)'
            /\ sweep[t].pc = "applied" =>
                 \A q \in sweep[t].before : Covered(t, q)' => q \notin Listed'
    BY <1>3, <1>6, BaseStep
<1>14. SweepClears'
    BY <1>6, <1>8, <1>13 DEF SweepClears
<1> QED
    BY <1>4, <1>7, <1>12, <1>13, <1>14 DEF RInv

\* Ending a sweep: nothing it covers may be listed any more.
LEMMA FinishStep ==
    ASSUME RInv, NEW s \in Sweeps, NEW sw, Ready(s, sw, {}), Finish(s, sw),
           \A p \in sw.before \cap Listed :
               /\ ~ PayloadWindow(sw.shape, sw.window)
               /\ Workspace(p) \notin PayloadBlocked(sw.shape, sw.asked)
    PROVE  RInv'
<1> DEFINE new == [sw EXCEPT !.pc = "applied", !.todo = {}, !.call = None]
<1>1. sweep' = [sweep EXCEPT ![s] = new] /\ UNCHANGED vars
    BY DEF Finish
<1>2. new \in SweepRecord /\ sw \in SweepRecord
    BY DEF Ready, SweepRecord
<1>3. /\ new.pc = "applied" /\ new.before = sw.before /\ new.asked = sw.asked
      /\ new.shape = sw.shape /\ new.window = sw.window
    BY <1>2 DEF SweepRecord
<1>4. [Next]_vars /\ IInv /\ IInv' /\ SweepTypeOK /\ SweepTypeOK'
    BY <1>1, <1>2, NextIInv DEF RInv, SweepTypeOK
<1>5. sweep'[s] = new /\ \A t \in Sweeps \ {s} : sweep'[t] = sweep[t]
    BY <1>1, <1>4 DEF SweepTypeOK
<1>6. \A t \in Sweeps \ {s} :
            /\ LoopPending(t)' /\ ExistedBefore(t)'
            /\ sweep[t].pc = "applied" =>
                 \A q \in sweep[t].before : Covered(t, q)' => q \notin Listed'
    BY <1>4, <1>5, BaseStep
<1>7. LoopPending(s)' /\ ExistedBefore(s)'
    BY <1>1, <1>3, <1>5 DEF LoopPending, ExistedBefore, Ready, vars
<1>8. \A q \in sweep'[s].before : Covered(s, q)' => q \notin Listed'
    BY <1>1, <1>3, <1>5 DEF Covered, Workspace, vars, Listed
<1>9. SweepClears'
    BY <1>5, <1>6, <1>8 DEF SweepClears
<1> QED
    BY <1>4, <1>6, <1>7, <1>9 DEF RInv

\* Entering the second loop, once the first has cleared the blocked workspaces.
LEMMA MaintenanceStep ==
    ASSUME RInv, NEW s \in Sweeps, NEW sw, Ready(s, sw, {}), Maintenance(s, sw),
           \A p \in sw.before \cap Listed :
               Workspace(p) \notin PayloadBlocked(sw.shape, sw.asked)
    PROVE  RInv'
<1> DEFINE S == IF PayloadWindow(sw.shape, sw.window) THEN Listed ELSE {}
<1>1. S \subseteq Procs /\ Ready(s, sw, S)
    BY DEF Listed, Ready
<1>2. CASE S # {} /\ StopNext(s, sw, "maintenance", S)
    BY <1>1, <1>2, StopNextStep
<1>3. CASE S = {} /\ Finish(s, sw)
    BY <1>3, FinishStep
<1> QED
    BY <1>2, <1>3 DEF Maintenance

LEMMA BeginStep ==
    ASSUME RInv, NEW s \in Sweeps, NEW shape \in {"lists", "keyvalue"},
           NEW B \in SUBSET Workspaces, NEW m \in BOOLEAN, Begin(s, shape, B, m)
    PROVE  RInv'
<1> DEFINE sw == [IdleSweep EXCEPT !.shape = shape, !.asked = B, !.window = m,
                                   !.before = {p \in Procs : origin[p] # None}]
           S  == {p \in Listed : Workspace(p) \in PayloadBlocked(shape, B)}
<1>1. /\ sw \in SweepRecord
      /\ sw.shape = shape /\ sw.asked = B /\ sw.window = m
      /\ sw.before = {p \in Procs : origin[p] # None}
    BY DEF SweepRecord, IdleSweep
<1>2. S \subseteq Procs
    BY DEF Listed
<1>3. Ready(s, sw, S) /\ Ready(s, sw, {})
    BY <1>1, <1>2 DEF Ready
<1>4. CASE S # {} /\ StopNext(s, sw, "blocked", S)
    <2>1. \A p \in sw.before \cap Listed :
            "blocked" = "maintenance" \/ Workspace(p) \in PayloadBlocked(sw.shape, sw.asked)
                => p \in S
        BY <1>1
    <2> HIDE DEF sw, S
    <2> QED
        BY <1>3, <1>4, <2>1, StopNextStep
<1>5. CASE S = {} /\ Maintenance(s, sw)
    <2>1. \A p \in sw.before \cap Listed :
            Workspace(p) \notin PayloadBlocked(sw.shape, sw.asked)
        BY <1>1, <1>5
    <2> HIDE DEF sw, S
    <2> QED
        BY <1>3, <1>5, <2>1, MaintenanceStep
<1> QED
    BY <1>4, <1>5 DEF Begin

LEMMA ResumeStep ==
    ASSUME RInv, NEW s \in Sweeps, Resume(s)
    PROVE  RInv'
<1> DEFINE sw == sweep[s]
<1>1. /\ sw \in SweepRecord /\ sw.todo \subseteq Procs
      /\ \A p \in sw.before : origin[p] # None
    BY DEF RInv, SweepTypeOK, SweepRecord, ExistedBefore
<1>2. sw.pc \in {"blocked", "maintenance"} /\ call[sw.call].pc = "done"
    BY DEF Resume
<1>3. \A p \in sw.before \cap Listed :
        sw.pc = "maintenance" \/ Workspace(p) \in PayloadBlocked(sw.shape, sw.asked)
            => p \in sw.todo
    BY <1>2 DEF RInv, LoopPending, Stopping
<1>4. CASE sw.todo # {} /\ StopNext(s, sw, sw.pc, sw.todo)
    <2>1. Ready(s, sw, sw.todo)
        BY <1>1 DEF Ready
    <2> QED
        BY <1>2, <1>3, <1>4, <2>1, StopNextStep
<1>5. CASE sw.todo = {} /\ sw.pc = "blocked" /\ Maintenance(s, sw)
    <2>1. Ready(s, sw, {})
        BY <1>1 DEF Ready
    <2> QED
        BY <1>3, <1>5, <2>1, MaintenanceStep
<1>6. CASE sw.todo = {} /\ sw.pc = "maintenance" /\ Finish(s, sw)
    <2>1. Ready(s, sw, {})
        BY <1>1 DEF Ready
    <2>2. sw.before \cap Listed = {}
        BY <1>3, <1>6
    <2> QED
        BY <1>6, <2>1, <2>2, FinishStep
<1> QED
    BY <1>4, <1>5, <1>6 DEF Resume

-----------------------------------------------------------------------------
(* The theorems *)

LEMMA RInit_RInv == RInit => RInv
<1> SUFFICES ASSUME RInit PROVE RInv
    OBVIOUS
<1>1. IInv
    BY InitIInv DEF RInit
<1>2. SweepTypeOK
    BY DEF RInit, SweepTypeOK, SweepRecord, IdleSweep
<1>3. \A s \in Sweeps : sweep[s] = IdleSweep
    BY DEF RInit
<1> QED
    BY <1>1, <1>2, <1>3 DEF RInv, LoopPending, ExistedBefore, SweepClears, IdleSweep

LEMMA RNext_RInv == RInv /\ [RNext]_rvars => RInv'
<1> SUFFICES ASSUME RInv, [RNext]_rvars PROVE RInv'
    OBVIOUS
<1>1. ASSUME [Next]_vars, UNCHANGED sweep PROVE RInv'
    <2>1. IInv'
        BY <1>1, NextIInv DEF RInv
    <2>2. \A s \in Sweeps :
            /\ LoopPending(s)' /\ ExistedBefore(s)'
            /\ sweep[s].pc = "applied" =>
                 \A p \in sweep[s].before : Covered(s, p)' => p \notin Listed'
        BY <1>1, BaseStep
    <2>3. SweepTypeOK' /\ SweepClears'
        BY <1>1, <2>2 DEF RInv, SweepTypeOK, SweepClears
    <2> QED
        BY <2>1, <2>2, <2>3 DEF RInv
<1>2. ASSUME NEW s \in Sweeps, NEW B \in SUBSET Workspaces, NEW m \in BOOLEAN,
             \/ ConfigLoaded(s, B, m)
             \/ ConfigUpdated(s, B, m)
             \/ ApplyCurrentGovernance(s, B, m)
      PROVE  RInv'
    BY <1>2, BeginStep DEF ConfigLoaded, ConfigUpdated, ApplyCurrentGovernance
<1>3. ASSUME NEW s \in Sweeps, Resume(s) PROVE RInv'
    BY <1>3, ResumeStep
<1> QED
    BY <1>1, <1>2, <1>3 DEF RNext, rvars

LEMMA RInvariance == RSpec => []RInv
<1> QED
    BY RInit_RInv, RNext_RInv, PTL DEF RSpec

\* Sweeps keep their type.
THEOREM SweepsTyped == RSpec => []SweepTypeOK
BY RInvariance, PTL DEF RInv

\* A finished sweep has cleared every process it covers that existed when it
\* began, whatever ran while it awaited.
THEOREM SweepsClear == RSpec => []SweepClears
BY RInvariance, PTL DEF RInv

\* A covered process escapes its clean-up only as an orphan of the manager.
THEOREM EscapesAreOrphans == RSpec => []EscapeNeedsOrphan
<1>1. RInv => EscapeNeedsOrphan
    BY DEF RInv, IInv, SweepClears, OrphanNeedsOverlap, EscapeNeedsOrphan,
           ExistedBefore, SweepTypeOK, SweepRecord
<1> QED
    BY <1>1, RInvariance, PTL

=============================================================================
