-------------------------- MODULE EventPersistence --------------------------
(***************************************************************************)
(* substrate/events.ts: SubstrateDOPublisher.publish forwards an event to  *)
(* the Durable Object of its workspace, with retries; handleIngest, inside *)
(* the object, stores the event and then an audit record in KV.  Requests  *)
(* and responses are lost, storage and KV fail, the object is evicted.     *)
(***************************************************************************)
EXTENDS Naturals, FiniteSets

CONSTANTS
    Publications,  \* calls of publish
    Attempts,      \* attempts of retry
    HasKV,         \* SUBSTRATE_KV is bound
    MaxFaults      \* bound on failures of the network, the object, storage and KV

ASSUME AttemptsPositive == Attempts \in Nat \ {0}
ASSUME FaultBound == MaxFaults \in Nat /\ HasKV \in BOOLEAN

VARIABLES
    pub,       \* progress of each publication
    requests,  \* requests at the object
    stored,    \* event records in the object's storage
    audited,   \* audit records in KV
    marked,    \* kv_error markers in the object's storage
    faults     \* failures so far

vars == <<pub, requests, stored, audited, marked, faults>>

Init ==
    /\ pub = [p \in Publications |->
                [pc |-> "idle", attempt |-> 0, bodyUsed |-> FALSE, faults |-> 0]]
    /\ requests = {}
    /\ stored = {} /\ audited = {} /\ marked = {}
    /\ faults = 0

Fault == faults < MaxFaults /\ faults' = faults + 1
NoFault == UNCHANGED faults

-----------------------------------------------------------------------------
(* The publisher *)

Publish(p) ==
    /\ pub[p].pc = "idle"
    /\ pub' = [pub EXCEPT ![p].pc = "due", ![p].attempt = 1]
    /\ UNCHANGED <<requests, stored, audited, marked, faults>>

\* An attempt has thrown: the next one after the delay, or the last error.
AfterFailure(s) ==
    IF s.attempt < Attempts THEN [s EXCEPT !.pc = "due", !.attempt = @ + 1]
    ELSE [s EXCEPT !.pc = "rejected"]

\* Slip: every attempt sends a copy of the request.
Fetch_Clone(p) ==
    /\ pub[p].pc = "due"
    /\ pub' = [pub EXCEPT ![p].pc = "waiting", ![p].bodyUsed = TRUE]
    /\ requests' = requests \cup {[p |-> p, attempt |-> pub[p].attempt, pc |-> "received"]}
    /\ UNCHANGED <<stored, audited, marked, faults>>

\* One attempt.  The request is built once, before the retries: fetch uses its body
\* up and throws at once when it is given the same request again.
Fetch(p) ==
    /\ pub[p].pc = "due"
    /\ IF pub[p].bodyUsed
       THEN /\ pub' = [pub EXCEPT ![p] = AfterFailure(pub[p])]
            /\ UNCHANGED requests
       ELSE /\ pub' = [pub EXCEPT ![p].pc = "waiting", ![p].bodyUsed = TRUE]
            /\ requests' = requests \cup
                    {[p |-> p, attempt |-> pub[p].attempt, pc |-> "received"]}
    /\ UNCHANGED <<stored, audited, marked, faults>>

\* The attempt fails although the object may still be at work on it.
Waits(r) == pub[r.p].pc = "waiting" /\ pub[r.p].attempt = r.attempt
Failed(s) == [AfterFailure(s) EXCEPT !.faults = s.faults + 1]
FailedAttempt(r) ==
    pub' = IF Waits(r) THEN [pub EXCEPT ![r.p] = Failed(pub[r.p])] ELSE pub

Disconnect(r) ==
    /\ Waits(r) /\ Fault
    /\ FailedAttempt(r)
    /\ UNCHANGED <<requests, stored, audited, marked>>

\* The request is lost on its way, or the object is evicted while at work on it.
Drop(r) ==
    /\ Fault
    /\ FailedAttempt(r)
    /\ requests' = requests \ {r}
    /\ UNCHANGED <<stored, audited, marked>>

Respond(r) ==
    /\ r.pc \in {"ok", "error"}
    /\ requests' = requests \ {r}
    /\ IF r.pc = "error" THEN FailedAttempt(r)
       ELSE pub' = IF Waits(r) THEN [pub EXCEPT ![r.p].pc = "resolved"] ELSE pub
    /\ UNCHANGED <<stored, audited, marked, faults>>

-----------------------------------------------------------------------------
(* handleIngest *)

Goto(r, pc) == requests' = (requests \ {r}) \cup {[r EXCEPT !.pc = pc]}
Record(r) == [p |-> r.p, attempt |-> r.attempt]

\* Slip: the object does not wait for its storage.
Store_Unawaited(r) ==
    /\ r.pc = "received"
    /\ Goto(r, IF HasKV THEN "auditing" ELSE "ok")
    /\ \/ NoFault /\ stored' = stored \cup {Record(r)}
       \/ Fault /\ UNCHANGED stored
    /\ UNCHANGED <<pub, audited, marked>>

Store(r) ==
    /\ r.pc = "received"
    /\ \/ NoFault /\ stored' = stored \cup {Record(r)}
                  /\ Goto(r, IF HasKV THEN "auditing" ELSE "ok")
       \/ Fault /\ UNCHANGED stored /\ Goto(r, "error")
    /\ UNCHANGED <<pub, audited, marked>>

\* Slip: a failure of KV is swallowed.
Audit_Silent(r) ==
    /\ r.pc = "auditing"
    /\ \/ NoFault /\ audited' = audited \cup {Record(r)}
       \/ Fault /\ UNCHANGED audited
    /\ Goto(r, "ok")
    /\ UNCHANGED <<pub, stored, marked>>

Audit(r) ==
    /\ r.pc = "auditing"
    /\ \/ NoFault /\ audited' = audited \cup {Record(r)} /\ Goto(r, "ok")
       \/ Fault /\ UNCHANGED audited /\ Goto(r, "marking")
    /\ UNCHANGED <<pub, stored, marked>>

\* The error marker goes to the object's storage, under the key of the event with
\* a suffix.
Mark(r) ==
    /\ r.pc = "marking"
    /\ \/ NoFault /\ marked' = marked \cup {Record(r)} /\ Goto(r, "ok")
       \/ Fault /\ UNCHANGED marked /\ Goto(r, "error")
    /\ UNCHANGED <<pub, stored, audited>>

Next ==
    \/ \E p \in Publications : Publish(p) \/ Fetch(p)
    \/ \E r \in requests :
            Disconnect(r) \/ Drop(r) \/ Respond(r) \/ Store(r) \/ Audit(r) \/ Mark(r)

Spec == Init /\ [][Next]_vars

\* Timers fire, and a request that is not lost is worked on and answered.
FairSpec ==
    /\ Spec
    /\ \A p \in Publications : WF_vars(Fetch(p))
    /\ WF_vars(\E r \in requests : Respond(r) \/ Store(r) \/ Audit(r) \/ Mark(r))

-----------------------------------------------------------------------------
(* Properties *)

TypeOK ==
    /\ \A p \in Publications :
        /\ pub[p].pc \in {"idle", "due", "waiting", "resolved", "rejected"}
        /\ pub[p].attempt \in 0 .. Attempts
    /\ \A r \in requests : r.p \in Publications /\ r.attempt \in 1 .. Attempts
    /\ stored \cup audited \cup marked \subseteq [p : Publications, attempt : 1 .. Attempts]

\* No retry stores an event a second time, wherever the first attempt was cut off.
StoredAtMostOnce == \A s, t \in stored : s.p = t.p => s = t

\* When publish resolves, the event is in the object's storage and the cross-worker
\* audit has it, or a marker says that it has not.
AcceptedIsAccountedFor ==
    \A p \in Publications : pub[p].pc = "resolved" =>
        \E s \in stored : s.p = p /\ (HasKV => s \in audited \cup marked)

\* The publisher is what the event bus expects: "resolves when the event has been
\* durably recorded or forwarded".
Outcome(s) ==
    CASE s.pc = "idle" -> "none"
      [] s.pc \in {"due", "waiting"} -> "pending"
      [] OTHER -> s.pc

Log == INSTANCE EventLog WITH
        outcome <- [p \in Publications |-> Outcome(pub[p])],
        recorded <- {s.p : s \in stored}

ImplementsLog == Log!Spec

\* publish gives up only when a failure was met, of the network, the object, its
\* storage or KV: a retry in vain is never the first cause.
RejectionHasCause ==
    \A p \in Publications : pub[p].pc = "rejected" => pub[p].faults > 0

\* Every publication ends, resolved or rejected.
PublicationEnds ==
    \A p \in Publications :
        pub[p].pc \in {"due", "waiting"} ~> pub[p].pc \in {"resolved", "rejected"}

=============================================================================
