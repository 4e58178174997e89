------------------------------ MODULE EventLog ------------------------------
(***************************************************************************)
(* What core/eventBus.ts expects of a PersistentPublisher (l.25-30):       *)
(* publish resolves when the event has been durably recorded.  It may be   *)
(* recorded although publish rejects, even later.                          *)
(***************************************************************************)
CONSTANT Publications
VARIABLES
    outcome,   \* of each call of publish
    recorded   \* the events durably recorded

vars == <<outcome, recorded>>

Init == outcome = [p \in Publications |-> "none"] /\ recorded = {}

Begin(p) ==
    /\ outcome[p] = "none"
    /\ outcome' = [outcome EXCEPT ![p] = "pending"]
    /\ UNCHANGED recorded

Record(p) ==
    /\ outcome[p] \in {"pending", "rejected"}
    /\ recorded' = recorded \cup {p}
    /\ UNCHANGED outcome

Resolve(p) ==
    /\ outcome[p] = "pending" /\ p \in recorded
    /\ outcome' = [outcome EXCEPT ![p] = "resolved"]
    /\ UNCHANGED recorded

Reject(p) ==
    /\ outcome[p] = "pending"
    /\ outcome' = [outcome EXCEPT ![p] = "rejected"]
    /\ UNCHANGED recorded

Next == \E p \in Publications : Begin(p) \/ Record(p) \/ Resolve(p) \/ Reject(p)

Spec == Init /\ [][Next]_vars

=============================================================================
