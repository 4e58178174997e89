---------------------------- MODULE GovernedEmit ----------------------------
(***************************************************************************)
(* governance/policies.ts: the guard installed in front of eventBus.emit.  *)
(* An emission evaluates the registered policies one await at a time,      *)
(* writes an audit record, and only then delivers or drops the event.      *)
(* Meanwhile administrators change the knobs the policies read, and        *)
(* policies are registered (which sorts the array in place) and            *)
(* unregistered (which replaces the array).                                *)
(***************************************************************************)
EXTENDS Naturals, FiniteSets, Sequences, SequencesExt

CONSTANTS
    Workspaces,
    Emissions,       \* invocations of the guarded emit
    Custom,          \* policies registered at run time
    CustomPriority,  \* their priorities
    MaxChanges       \* bound on changes of knobs and of the registry

Shipped == {"workspace-block", "maintenance-window-guard",
            "tool-invocation-approval", "annotate-event"}
Policies == Shipped \cup Custom

\* What the constants are assumed to be.
ConstantsOK ==
    /\ CustomPriority \in [Custom -> Nat] /\ Custom \cap Shipped = {}
    /\ MaxChanges \in Nat

Priority(p) ==
    CASE p = "workspace-block" -> 10
      [] p = "maintenance-window-guard" -> 20
      [] p = "tool-invocation-approval" -> 30
      [] p = "annotate-event" -> 100
      [] OTHER -> CustomPriority[p]

VARIABLES
    arrays,    \* the policy arrays created so far, oldest first
    blocked,   \* blockedWorkspaces
    inWindow,  \* a maintenance window is set and the hour is inside it
    approval,  \* toolInvocationRequireApproval
    emission,  \* progress of each emission
    changes    \* changes of knobs and registry so far

vars == <<arrays, blocked, inWindow, approval, emission, changes>>

\* What the shipped policies look at: names starting with sim., tec. or process.
\* may start processes, and tec.tool.invoked is a tool invocation.
EventKinds == {"plain", "process", "tool"}
Events == [ws : Workspaces, kind : EventKinds, approved : BOOLEAN, bypass : BOOLEAN]

\* this.policies is the newest array; an evaluation iterates over the array it
\* found when it began.
Current == arrays[Len(arrays)]
Members(a) == {a[i] : i \in DOMAIN a}

(***************************************************************************)
(* evt: the event; array, index: position of the for-of loop; allowed: the *)
(* verdict so far.  consulted, stable and unblocked record the policies    *)
(* asked, those registered ever since the emission began, and whether the  *)
(* workspace was open at some moment since then.                           *)
(***************************************************************************)
Idle == [pc |-> "idle"]
Evaluation(evt) ==
    [pc |-> "evaluating", evt |-> evt, array |-> Len(arrays), index |-> 1,
     allowed |-> TRUE, consulted |-> {}, stable |-> Members(Current),
     unblocked |-> evt.ws \notin blocked]

Active(e) == emission[e].pc # "idle"

\* Where the sort after a push moves a policy: behind those of its priority.
Places(a, p) ==
    {i \in 1 .. Len(a) + 1 : \A j \in DOMAIN a : j < i <=> Priority(a[j]) <= Priority(p)}

Init ==
    /\ arrays = << <<"workspace-block", "maintenance-window-guard",
                     "tool-invocation-approval", "annotate-event">> >>
    /\ blocked = {}
    /\ inWindow = FALSE
    /\ approval = TRUE
    /\ emission = [e \in Emissions |-> Idle]
    /\ changes = 0

-----------------------------------------------------------------------------
(* Knobs and registry *)

Change == changes < MaxChanges /\ changes' = changes + 1

SetBlockedWorkspaces(B) ==
    /\ Change
    /\ blocked' = B
    /\ emission' = [e \in Emissions |->
                        IF Active(e) /\ emission[e].evt.ws \notin B
                        THEN [emission[e] EXCEPT !.unblocked = TRUE]
                        ELSE emission[e]]
    /\ UNCHANGED <<arrays, inWindow, approval>>

\* The window is set or cleared, or the hour enters or leaves it.
SetMaintenanceWindow(open) ==
    /\ Change
    /\ inWindow' = open
    /\ UNCHANGED <<arrays, blocked, approval, emission>>

SetToolInvocationRequireApproval(require) ==
    /\ Change
    /\ approval' = require
    /\ UNCHANGED <<arrays, blocked, inWindow, emission>>

\* Each policy is held at most once (a bound: register does not look at ids).
Register(p) ==
    /\ Change
    /\ p \notin Members(Current)
    /\ \E i \in Places(Current, p) :
            arrays' = [arrays EXCEPT ![Len(arrays)] = InsertAt(@, i, p)]
    /\ UNCHANGED <<blocked, inWindow, approval, emission>>

\* Slip: the policy is spliced out of the array evaluations iterate over.
Unregister_Splice(p) ==
    /\ Change
    /\ \E i \in DOMAIN Current :
            /\ Current[i] = p
            /\ arrays' = [arrays EXCEPT ![Len(arrays)] = RemoveAt(@, i)]
    /\ emission' = [e \in Emissions |->
                        IF Active(e) THEN [emission[e] EXCEPT !.stable = @ \ {p}]
                        ELSE emission[e]]
    /\ UNCHANGED <<blocked, inWindow, approval>>

Unregister(p) ==
    /\ Change
    /\ \E i \in DOMAIN Current :
            Current[i] = p /\ arrays' = Append(arrays, RemoveAt(Current, i))
    /\ emission' = [e \in Emissions |->
                        IF Active(e) THEN [emission[e] EXCEPT !.stable = @ \ {p}]
                        ELSE emission[e]]
    /\ UNCHANGED <<blocked, inWindow, approval>>

-----------------------------------------------------------------------------
(* The guarded emit *)

\* The verdicts a policy can give on an event now; a custom policy may give any,
\* and one that throws denies.
Denies(p, evt) ==
    CASE p = "workspace-block" -> {evt.ws \in blocked}
      [] p = "maintenance-window-guard" -> {inWindow /\ evt.kind # "plain"}
      [] p = "tool-invocation-approval" ->
            {evt.kind = "tool" /\ approval /\ ~ evt.approved}
      [] p = "annotate-event" -> {FALSE}
      [] OTHER -> BOOLEAN

\* One turn of the loop of PolicyRegistry.evaluate: the callback runs at once and
\* its verdict is awaited; the first denial, or the end of the array, ends it.
Turn(em) ==
    LET a == arrays[em.array]
    IN  IF em.index > Len(a)
        THEN {[em EXCEPT !.pc = "auditing"]}
        ELSE {[em EXCEPT !.consulted = @ \cup {a[em.index]},
                         !.index = @ + 1,
                         !.allowed = ~ deny,
                         !.pc = IF deny THEN "auditing" ELSE @]
                  : deny \in Denies(a[em.index], em.evt)}

\* The emission and, without an await in between, the first turn of the loop.
Emit(e, evt) ==
    /\ emission[e].pc = "idle"
    /\ \E em \in IF evt.bypass THEN {[Evaluation(evt) EXCEPT !.pc = "delivered"]}
                 ELSE Turn(Evaluation(evt)) :
            emission' = [emission EXCEPT ![e] = em]
    /\ UNCHANGED <<arrays, blocked, inWindow, approval, changes>>

\* An awaited verdict arrives and the loop goes on.
Evaluate(e) ==
    /\ emission[e].pc = "evaluating"
    /\ \E em \in Turn(emission[e]) : emission' = [emission EXCEPT ![e] = em]
    /\ UNCHANGED <<arrays, blocked, inWindow, approval, changes>>

\* Slip: a failure to publish the audit record is thrown to the emitter.
Audited_Rethrow(e) ==
    /\ emission[e].pc = "auditing"
    /\ \E pc \in {"failed", IF emission[e].allowed THEN "delivered" ELSE "blocked"} :
            emission' = [emission EXCEPT ![e].pc = pc]
    /\ UNCHANGED <<arrays, blocked, inWindow, approval, changes>>

\* The audit record has been published, or publishing it has failed: the event is
\* delivered or dropped as it was decided before.
Audited(e) ==
    /\ emission[e].pc = "auditing"
    /\ emission' = [emission EXCEPT ![e].pc =
                        IF emission[e].allowed THEN "delivered" ELSE "blocked"]
    /\ UNCHANGED <<arrays, blocked, inWindow, approval, changes>>

Next ==
    \/ \E B \in SUBSET Workspaces : SetBlockedWorkspaces(B)
    \/ \E b \in BOOLEAN : SetMaintenanceWindow(b) \/ SetToolInvocationRequireApproval(b)
    \/ \E p \in Custom : Register(p)
    \/ \E p \in Policies : Unregister(p)
    \/ \E e \in Emissions, evt \in Events : Emit(e, evt)
    \/ \E e \in Emissions : Evaluate(e) \/ Audited(e)

Spec == Init /\ [][Next]_vars

FairSpec == Spec /\ \A e \in Emissions : WF_vars(Evaluate(e) \/ Audited(e))

-----------------------------------------------------------------------------
(* Properties *)

\* Arrays stay sorted lists of different policies and the loops stay inside them.
TypeOK ==
    /\ \A n \in DOMAIN arrays : \A i, j \in DOMAIN arrays[n] :
            /\ arrays[n][i] \in Policies
            /\ i < j => /\ arrays[n][i] # arrays[n][j]
                       /\ Priority(arrays[n][i]) <= Priority(arrays[n][j])
    /\ blocked \subseteq Workspaces
    /\ \A e \in Emissions : Active(e) =>
            emission[e].array \in DOMAIN arrays /\ emission[e].consulted \subseteq Policies

Delivered(e) == emission[e].pc = "delivered" /\ ~ emission[e].evt.bypass

\* No change of the registry while an event is being evaluated makes the loop
\* skip a policy: an event is delivered only after every policy that was
\* registered throughout has been asked, in spite of the in-place sort.
EveryPolicyConsulted ==
    \A e \in Emissions : Delivered(e) => emission[e].stable \subseteq emission[e].consulted

\* While a workspace is blocked, and its policy stays registered, no event whose
\* emission began during the block is delivered.
BlockHolds ==
    \A e \in Emissions :
        Delivered(e) /\ "workspace-block" \in emission[e].stable
            => emission[e].unblocked

\* Every emission ends, delivered or blocked, whether or not its audit record could
\* be published and although registrations in front of the loop shift it back
\* (each of the finitely many repeats one policy).
EmissionEnds ==
    \A e \in Emissions :
        Active(e) ~> emission[e].pc \in {"delivered", "blocked"}

=============================================================================
