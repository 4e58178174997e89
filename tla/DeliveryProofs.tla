--------------------------- MODULE DeliveryProofs ---------------------------
(***************************************************************************)
(* Proofs about an event on its way, for any numbers of publications,      *)
(* emissions, policies, processes and requests.                            *)
(*                                                                         *)
(* Publisher: the body of the request can be sent once, in the first       *)
(* attempt, so every request at the object and everything stored comes     *)
(* from attempt 1, and a positive answer is given only after the event was *)
(* stored.                                                                 *)
(*                                                                         *)
(* Governed emit: what has been registered ever since an emission began is *)
(* in the newest array and in the one the emission's loop runs over, and   *)
(* what the loop has passed of it has been asked, because an insertion     *)
(* shifts the array forward only.                                          *)
(*                                                                         *)
(* Kernel IPC: as long as no handler is registered twice and no            *)
(* unsubscribe is called again, each subscription of a process has a       *)
(* handler of its own in the Set the process has.                          *)
(***************************************************************************)
EXTENDS MCDelivery, Sequences, WellFoundedInduction, TLAPS

PubStates == [pc : {"idle", "due", "waiting", "resolved", "rejected"},
              attempt : 0 .. Attempts, bodyUsed : BOOLEAN, faults : Nat]

Records == [p : Publications, attempt : 1 .. Attempts]

RequestStates == {"received", "auditing", "marking", "ok", "error"}

Types ==
    /\ pub \in [Publications -> PubStates]
    /\ requests \subseteq [p : Publications, attempt : 1 .. Attempts, pc : RequestStates]
    /\ stored \subseteq Records
    /\ audited \subseteq Records
    /\ marked \subseteq Records

\* A body that is unused is that of a publication at its first attempt, or before.
Unsent ==
    \A p \in Publications :
        /\ pub[p].pc = "idle" => ~ pub[p].bodyUsed
        /\ pub[p].pc # "idle" /\ ~ pub[p].bodyUsed => pub[p].pc = "due" /\ pub[p].attempt = 1

FirstAttemptOnly ==
    /\ \A r \in requests : r.attempt = 1 /\ pub[r.p].bodyUsed
    /\ \A s \in stored : s.attempt = 1

\* What the object has done for a request, by the point it has reached.
WorkDone ==
    \A r \in requests :
        /\ r.pc \in {"auditing", "marking", "ok"} => Record(r) \in stored
        /\ r.pc = "ok" /\ HasKV => Record(r) \in audited \cup marked

Accounted(p) == \E s \in stored : s.p = p /\ (HasKV => s \in audited \cup marked)

Accepted == \A p \in Publications : pub[p].pc = "resolved" => Accounted(p)

IInv == Types /\ Unsent /\ FirstAttemptOnly /\ WorkDone /\ Accepted

-----------------------------------------------------------------------------

LEMMA InitIInv == Init => IInv
    BY AttemptsPositive DEF Init, IInv, Types, PubStates, Records, Unsent,
                            FirstAttemptOnly, WorkDone, Accepted

\* A publication whose attempt has failed is due again or rejected.
LEMMA AfterFailureState ==
    ASSUME NEW s \in PubStates, s.bodyUsed
    PROVE  /\ AfterFailure(s) \in PubStates
           /\ AfterFailure(s).pc \in {"due", "rejected"}
           /\ AfterFailure(s).bodyUsed
           /\ AfterFailure(s).faults = s.faults
<1>1. CASE s.attempt < Attempts
    <2>1. AfterFailure(s) = [s EXCEPT !.pc = "due", !.attempt = s.attempt + 1]
        BY <1>1 DEF AfterFailure
    <2>2. s.attempt + 1 \in 0 .. Attempts
        BY <1>1, AttemptsPositive DEF PubStates
    <2> QED
        BY <2>1, <2>2 DEF PubStates
<1>2. CASE ~ (s.attempt < Attempts)
    <2>1. AfterFailure(s) = [s EXCEPT !.pc = "rejected"]
        BY <1>2 DEF AfterFailure
    <2> QED
        BY <2>1 DEF PubStates
<1> QED
    BY <1>1, <1>2

LEMMA FailedState ==
    ASSUME NEW s \in PubStates, s.bodyUsed
    PROVE  /\ Failed(s) \in PubStates
           /\ Failed(s).pc \in {"due", "rejected"}
           /\ Failed(s).bodyUsed
<1> DEFINE t == AfterFailure(s)
<1>1. t \in PubStates /\ t.pc \in {"due", "rejected"} /\ t.bodyUsed
    BY AfterFailureState
<1>2. Failed(s) = [t EXCEPT !.faults = s.faults + 1]
    BY DEF Failed
<1>3. s.faults + 1 \in Nat
    BY DEF PubStates
<1> HIDE DEF t
<1> QED
    BY <1>1, <1>2, <1>3 DEF PubStates

\* What a step of the publisher may do to the publications: those that change have
\* used their body up, and do not resolve.
Retreats ==
    /\ pub' \in [Publications -> PubStates]
    /\ \A p \in Publications :
        \/ pub'[p] = pub[p]
        \/ /\ pub[p].pc \in {"due", "waiting"} /\ pub[p].bodyUsed
           /\ pub'[p].pc \in {"due", "rejected"} /\ pub'[p].bodyUsed

LEMMA FailedAttemptRetreats ==
    ASSUME IInv, NEW r \in requests, FailedAttempt(r)
    PROVE  Retreats
<1>1. CASE ~ Waits(r)
    BY <1>1 DEF FailedAttempt, Retreats, IInv, Types
<1>2. CASE Waits(r)
    <2>1. r.p \in Publications /\ pub[r.p] \in PubStates
          /\ pub[r.p].pc = "waiting" /\ pub[r.p].bodyUsed
        BY <1>2 DEF IInv, Types, Waits, FirstAttemptOnly
    <2>2. Failed(pub[r.p]) \in PubStates /\ Failed(pub[r.p]).bodyUsed
          /\ Failed(pub[r.p]).pc \in {"due", "rejected"}
        BY <2>1, FailedState
    <2>3. pub' = [pub EXCEPT ![r.p] = Failed(pub[r.p])]
        BY <1>2 DEF FailedAttempt
    <2> QED
        BY <2>1, <2>2, <2>3 DEF Retreats, IInv, Types
<1> QED
    BY <1>1, <1>2

\* Failing attempts, and requests that go away, disturb nothing.
LEMMA RetreatKeepsIInv ==
    ASSUME IInv, Retreats, requests' \subseteq requests, UNCHANGED <<stored, audited, marked>>
    PROVE  IInv'
    BY DEF IInv, Retreats, Types, Unsent, FirstAttemptOnly, WorkDone, Accepted,
           Accounted, Record

LEMMA PublishKeepsIInv ==
    ASSUME IInv, NEW p \in Publications, Publish(p) PROVE IInv'
<1>0. 1 \in 0 .. Attempts /\ pub \in [Publications -> PubStates] /\ pub[p] \in PubStates
    BY AttemptsPositive DEF IInv, Types
<1>1. pub' \in [Publications -> PubStates]
    <2> DEFINE s == [pub[p] EXCEPT !.pc = "due", !.attempt = 1]
    <2>1. s \in PubStates
        BY <1>0 DEF PubStates
    <2>2. pub' = [pub EXCEPT ![p] = s]
        BY <1>0 DEF Publish
    <2> HIDE DEF s
    <2> QED
        BY <1>0, <2>1, <2>2
<1>2. pub'[p].pc = "due" /\ pub'[p].attempt = 1 /\ pub'[p].bodyUsed = pub[p].bodyUsed
    BY DEF IInv, Types, Publish, PubStates
<1>3. \A q \in Publications \ {p} : pub'[q] = pub[q]
    BY DEF IInv, Types, Publish
<1>4. UNCHANGED <<requests, stored, audited, marked>>
    BY DEF Publish
<1>5. Types' /\ FirstAttemptOnly' /\ Accepted'
    BY <1>1, <1>2, <1>3, <1>4 DEF IInv, Types, FirstAttemptOnly, Accepted, Accounted
<1>6. Unsent' /\ WorkDone'
    BY <1>2, <1>3, <1>4 DEF IInv, Unsent, WorkDone, Record
<1> QED
    BY <1>5, <1>6 DEF IInv

LEMMA FetchKeepsIInv ==
    ASSUME IInv, NEW p \in Publications, Fetch(p) PROVE IInv'
<1>0. UNCHANGED <<stored, audited, marked>> /\ pub[p].pc = "due" /\ pub[p] \in PubStates
    BY DEF Fetch, IInv, Types
<1>1. CASE pub[p].bodyUsed
    <2>1. AfterFailure(pub[p]) \in PubStates /\ AfterFailure(pub[p]).bodyUsed
          /\ AfterFailure(pub[p]).pc \in {"due", "rejected"}
        BY <1>0, <1>1, AfterFailureState
    <2>2. pub' = [pub EXCEPT ![p] = AfterFailure(pub[p])] /\ requests' = requests
        BY <1>1 DEF Fetch
    <2>3. Retreats
        BY <1>0, <1>1, <2>1, <2>2 DEF Retreats, IInv, Types
    <2> QED
        BY <1>0, <2>2, <2>3, RetreatKeepsIInv
<1>2. CASE ~ pub[p].bodyUsed
    <2> DEFINE new == [p |-> p, attempt |-> 1, pc |-> "received"]
    <2>1. pub[p].attempt = 1
        BY <1>0, <1>2 DEF IInv, Unsent
    <2>2. requests' = requests \cup {new}
        BY <1>2, <2>1 DEF Fetch
    <2>3. /\ pub' \in [Publications -> PubStates]
          /\ pub'[p].pc = "waiting" /\ pub'[p].bodyUsed
          /\ \A q \in Publications \ {p} : pub'[q] = pub[q]
        BY <1>2 DEF Fetch, IInv, Types, PubStates
    <2>4. new \in [p : Publications, attempt : 1 .. Attempts, pc : RequestStates]
        BY AttemptsPositive DEF RequestStates
    <2>5. Types'
        BY <1>0, <2>2, <2>3, <2>4 DEF IInv, Types
    <2>6. Unsent' /\ Accepted'
        BY <1>0, <2>3 DEF IInv, Unsent, Accepted, Accounted
    <2>7. FirstAttemptOnly' /\ WorkDone'
        BY <1>0, <2>2, <2>3 DEF IInv, Types, FirstAttemptOnly, WorkDone, Record
    <2> QED
        BY <2>5, <2>6, <2>7 DEF IInv
<1> QED
    BY <1>1, <1>2

LEMMA RespondKeepsIInv ==
    ASSUME IInv, NEW r \in requests, Respond(r) PROVE IInv'
<1>0. requests' = requests \ {r} /\ UNCHANGED <<stored, audited, marked>>
    BY DEF Respond
<1>1. CASE r.pc = "error"
    BY <1>0, <1>1, FailedAttemptRetreats, RetreatKeepsIInv DEF Respond
<1>2. CASE r.pc = "ok" /\ ~ Waits(r)
    <2>1. Retreats
        BY <1>2 DEF Respond, Retreats, IInv, Types
    <2> QED
        BY <1>0, <2>1, RetreatKeepsIInv
<1>3. CASE r.pc = "ok" /\ Waits(r)
    <2>1. r.p \in Publications /\ pub[r.p].bodyUsed
        BY DEF IInv, Types, FirstAttemptOnly
    <2>2. pub' = [pub EXCEPT ![r.p].pc = "resolved"]
        BY <1>3 DEF Respond
    <2>3. /\ pub' \in [Publications -> PubStates]
          /\ pub'[r.p].pc = "resolved" /\ pub'[r.p].bodyUsed
          /\ \A q \in Publications \ {r.p} : pub'[q] = pub[q]
        BY <2>1, <2>2 DEF IInv, Types, PubStates
    <2>4. Accounted(r.p)
        BY <1>3 DEF IInv, WorkDone, Accounted, Record
    <2>5. Types' /\ Unsent'
        BY <1>0, <2>3 DEF IInv, Types, Unsent
    <2>6. FirstAttemptOnly' /\ WorkDone'
        BY <1>0, <2>1, <2>3 DEF IInv, Types, FirstAttemptOnly, WorkDone, Record
    <2>7. Accepted'
        BY <1>0, <2>3, <2>4 DEF IInv, Accepted, Accounted
    <2> QED
        BY <2>5, <2>6, <2>7 DEF IInv
<1> QED
    BY <1>1, <1>2, <1>3 DEF Respond

\* A step of handleIngest moves one request on and adds records of its event.
LEMMA IngestKeepsIInv ==
    ASSUME IInv, NEW r \in requests, Store(r) \/ Audit(r) \/ Mark(r) PROVE IInv'
<1> DEFINE rec == Record(r)
<1>1. pub' = pub /\ rec \in Records /\ rec.attempt = 1
    BY DEF Store, Audit, Mark, IInv, Types, FirstAttemptOnly, Record, Records
<1>2. /\ stored \subseteq stored' /\ stored' \subseteq stored \cup {rec}
      /\ audited \subseteq audited' /\ audited' \subseteq audited \cup {rec}
      /\ marked \subseteq marked' /\ marked' \subseteq marked \cup {rec}
    BY DEF Store, Audit, Mark
<1>3. PICK pc \in RequestStates :
        /\ requests' = (requests \ {r}) \cup {[r EXCEPT !.pc = pc]}
        /\ pc \in {"auditing", "marking", "ok"} => rec \in stored'
        /\ pc = "ok" /\ HasKV => rec \in audited' \cup marked'
    BY DEF Store, Audit, Mark, Goto, RequestStates, IInv, WorkDone
<1> DEFINE moved == [r EXCEPT !.pc = pc]
<1>4. moved \in [p : Publications, attempt : 1 .. Attempts, pc : RequestStates]
      /\ moved.p = r.p /\ moved.attempt = r.attempt /\ moved.pc = pc
    BY DEF IInv, Types
<1>5. requests' = (requests \ {r}) \cup {moved}
    BY <1>3
<1>6. Types'
    BY <1>1, <1>2, <1>4, <1>5 DEF IInv, Types
<1>7. Unsent' /\ Accepted'
    BY <1>1, <1>2 DEF IInv, Unsent, Accepted, Accounted
<1>8. FirstAttemptOnly'
    BY <1>1, <1>2, <1>4, <1>5 DEF IInv, FirstAttemptOnly
<1>9. Record(moved) = rec
    BY <1>4 DEF Record
<1>10. WorkDone'
    BY <1>2, <1>3, <1>4, <1>5, <1>9 DEF IInv, WorkDone, Record
<1> QED
    BY <1>6, <1>7, <1>8, <1>10 DEF IInv

LEMMA StepKeepsIInv == IInv /\ [Next]_vars => IInv'
<1> SUFFICES ASSUME IInv, [Next]_vars PROVE IInv'
    OBVIOUS
<1>1. ASSUME NEW r \in requests, Disconnect(r) \/ Drop(r) PROVE IInv'
    <2>1. FailedAttempt(r) /\ requests' \subseteq requests /\ UNCHANGED <<stored, audited, marked>>
        BY <1>1 DEF Disconnect, Drop
    <2> QED
        BY <2>1, FailedAttemptRetreats, RetreatKeepsIInv
<1>2. CASE UNCHANGED vars
    BY <1>2 DEF vars, IInv, Types, Unsent, FirstAttemptOnly, WorkDone, Accepted, Accounted, Record
<1> QED
    BY <1>1, <1>2, PublishKeepsIInv, FetchKeepsIInv, RespondKeepsIInv, IngestKeepsIInv DEF Next

LEMMA Invariance == Spec => []IInv
    BY InitIInv, StepKeepsIInv, PTL DEF Spec

-----------------------------------------------------------------------------

\* The publisher and the object keep their types whatever fails.
THEOREM TypeCorrect == Spec => []TypeOK
<1>1. IInv => TypeOK
    BY DEF IInv, Types, TypeOK, PubStates, Records
<1> QED
    BY <1>1, Invariance, PTL

\* No failure and no retry stores an event twice, for any number of attempts.
THEOREM NothingStoredTwice == Spec => []StoredAtMostOnce
<1>1. IInv => StoredAtMostOnce
    BY DEF IInv, Types, Records, FirstAttemptOnly, StoredAtMostOnce
<1> QED
    BY <1>1, Invariance, PTL

\* A publication that resolved is in the object's storage and accounted for in KV
\* or by a marker.
THEOREM AcceptedAccountedFor == Spec => []AcceptedIsAccountedFor
<1>1. IInv => AcceptedIsAccountedFor
    BY DEF IInv, Accepted, Accounted, AcceptedIsAccountedFor
<1> QED
    BY <1>1, Invariance, PTL

-----------------------------------------------------------------------------
(* Refinement *)

LogOutcome == [p \in Publications |-> Outcome(pub[p])]
LogRecorded == {s.p : s \in stored}

\* Publications that retreat stay pending or are rejected: one of them at a time.
LEMMA RetreatRefines ==
    ASSUME IInv, NEW p \in Publications, NEW s \in PubStates, s.pc \in {"due", "rejected"},
           pub[p].pc \in {"due", "waiting"}, pub' = [pub EXCEPT ![p] = s], stored' = stored
    PROVE  [Log!Next]_(Log!vars)
<1>0. pub \in [Publications -> PubStates]
    BY DEF IInv, Types
<1>1. LogRecorded' = LogRecorded
    BY DEF LogRecorded
<1>2. LogOutcome[p] = "pending" /\ LogOutcome' = [LogOutcome EXCEPT ![p] = Outcome(s)]
    BY <1>0 DEF LogOutcome, Outcome
<1>3. CASE s.pc = "due"
    <2>1. LogOutcome' = LogOutcome
        BY <1>2, <1>3 DEF LogOutcome, Outcome
    <2> QED
        BY <1>1, <2>1 DEF Log!vars, LogOutcome, LogRecorded
<1>4. CASE s.pc = "rejected"
    <2>1. Outcome(s) = "rejected"
        BY <1>4 DEF Outcome
    <2>2. Log!Reject(p)
        BY <1>1, <1>2, <2>1 DEF Log!Reject, LogOutcome, LogRecorded
    <2> QED
        BY <2>2 DEF Log!Next
<1> QED
    BY <1>3, <1>4

LEMMA FailedAttemptRefines ==
    ASSUME IInv, NEW r \in requests, FailedAttempt(r), stored' = stored
    PROVE  [Log!Next]_(Log!vars)
<1>1. CASE ~ Waits(r)
    BY <1>1 DEF FailedAttempt, Log!vars
<1>2. CASE Waits(r)
    <2>1. r.p \in Publications /\ pub[r.p] \in PubStates
          /\ pub[r.p].pc = "waiting" /\ pub[r.p].bodyUsed
        BY <1>2 DEF IInv, Types, Waits, FirstAttemptOnly
    <2>2. Failed(pub[r.p]) \in PubStates /\ Failed(pub[r.p]).pc \in {"due", "rejected"}
        BY <2>1, FailedState
    <2>3. pub' = [pub EXCEPT ![r.p] = Failed(pub[r.p])]
        BY <1>2 DEF FailedAttempt
    <2> QED
        BY <2>1, <2>2, <2>3, RetreatRefines
<1> QED
    BY <1>1, <1>2

LEMMA PublisherRefines ==
    ASSUME IInv, NEW p \in Publications, Publish(p) \/ Fetch(p)
    PROVE  [Log!Next]_(Log!vars)
<1>0. pub \in [Publications -> PubStates] /\ stored' = stored
    BY DEF IInv, Types, Publish, Fetch
<1>1. CASE Publish(p)
    <2>1. pub' = [pub EXCEPT ![p] = [@ EXCEPT !.pc = "due", !.attempt = 1]]
        BY <1>0, <1>1 DEF Publish, PubStates
    <2>2. LogOutcome[p] = "none" /\ LogOutcome' = [LogOutcome EXCEPT ![p] = "pending"]
        BY ZenonT(60), <1>0, <1>1, <2>1 DEF Publish, LogOutcome, Outcome, PubStates
    <2>3. Log!Begin(p)
        BY <1>0, <2>2 DEF Log!Begin, LogOutcome
    <2> QED
        BY <2>3 DEF Log!Next
<1>2. CASE Fetch(p) /\ pub[p].bodyUsed
    <2>1. AfterFailure(pub[p]) \in PubStates /\ AfterFailure(pub[p]).pc \in {"due", "rejected"}
        BY <1>0, <1>2, AfterFailureState DEF Fetch
    <2> QED
        BY <1>0, <1>2, <2>1, RetreatRefines DEF Fetch
<1>3. CASE Fetch(p) /\ ~ pub[p].bodyUsed
    <2>1. LogOutcome' = LogOutcome
        BY <1>0, <1>3 DEF Fetch, LogOutcome, Outcome, PubStates
    <2> QED
        BY <1>0, <2>1 DEF Log!vars, LogOutcome
<1> QED
    BY <1>1, <1>2, <1>3

LEMMA RespondRefines ==
    ASSUME IInv, NEW r \in requests, Respond(r)
    PROVE  [Log!Next]_(Log!vars)
<1>0. pub \in [Publications -> PubStates] /\ stored' = stored /\ r.p \in Publications
    BY DEF IInv, Types, Respond
<1>1. CASE r.pc = "error"
    BY <1>0, <1>1, FailedAttemptRefines DEF Respond
<1>2. CASE r.pc = "ok" /\ ~ Waits(r)
    BY <1>0, <1>2 DEF Respond, Log!vars
<1>3. CASE r.pc = "ok" /\ Waits(r)
    <2>1. pub' = [pub EXCEPT ![r.p] = [@ EXCEPT !.pc = "resolved"]] /\ pub[r.p].pc = "waiting"
        BY <1>3 DEF Respond, Waits
    <2>2. LogOutcome[r.p] = "pending" /\ LogOutcome' = [LogOutcome EXCEPT ![r.p] = "resolved"]
        BY <1>0, <2>1 DEF LogOutcome, Outcome, PubStates
    <2>3. r.p \in LogRecorded
        <3>1. Record(r) \in stored
            BY <1>3 DEF IInv, WorkDone
        <3>2. Record(r).p = r.p
            BY DEF Record
        <3> QED
            BY <3>1, <3>2 DEF LogRecorded
    <2>4. Log!Resolve(r.p)
        BY <1>0, <2>2, <2>3 DEF Log!Resolve, LogOutcome, LogRecorded
    <2> QED
        BY <1>0, <2>4 DEF Log!Next
<1> QED
    BY <1>1, <1>2, <1>3 DEF Respond

LEMMA IngestRefines ==
    ASSUME IInv, NEW r \in requests, Store(r) \/ Audit(r) \/ Mark(r)
    PROVE  [Log!Next]_(Log!vars)
<1>0. pub' = pub /\ r.p \in Publications /\ pub[r.p] \in PubStates
    BY DEF Store, Audit, Mark, IInv, Types
<1>1. CASE stored' = stored
    BY <1>0, <1>1 DEF Log!vars
<1>2. CASE stored' = stored \cup {Record(r)}
    <2>1. LogRecorded' = LogRecorded \cup {r.p}
        <3>1. Record(r).p = r.p
            BY DEF Record
        <3> QED
            BY <1>2, <3>1 DEF LogRecorded
    <2>2. CASE r.p \in LogRecorded
        BY <1>0, <2>1, <2>2 DEF Log!vars, LogRecorded
    <2>3. CASE r.p \notin LogRecorded
        <3>1. pub[r.p].pc \notin {"idle", "resolved"}
            BY <1>0, <2>3 DEF IInv, Unsent, FirstAttemptOnly, Accepted, Accounted, LogRecorded
        <3>2. LogOutcome[r.p] \in {"pending", "rejected"}
            BY <1>0, <3>1 DEF LogOutcome, Outcome, PubStates
        <3>3. Log!Record(r.p)
            BY <1>0, <2>1, <3>2 DEF Log!Record, LogOutcome, LogRecorded
        <3> QED
            BY <1>0, <3>3 DEF Log!Next
    <2> QED
        BY <2>2, <2>3
<1> QED
    BY <1>1, <1>2 DEF Store, Audit, Mark

LEMMA LogStep == IInv /\ [Next]_vars => [Log!Next]_(Log!vars)
<1> SUFFICES ASSUME IInv, [Next]_vars PROVE [Log!Next]_(Log!vars)
    OBVIOUS
<1>1. ASSUME NEW r \in requests, Disconnect(r) \/ Drop(r) PROVE [Log!Next]_(Log!vars)
    BY <1>1, FailedAttemptRefines DEF Disconnect, Drop
<1>2. CASE UNCHANGED vars
    BY <1>2 DEF vars, Log!vars
<1> QED
    BY <1>1, <1>2, PublisherRefines, RespondRefines, IngestRefines DEF Next

\* The publisher is what the event bus expects of a PersistentPublisher: it resolves
\* a publication only when the event has been recorded.
THEOREM PublisherIsLog == Spec => ImplementsLog
<1>1. Init => Log!Init
    BY DEF Init, Log!Init, Outcome
<1> QED
    BY <1>1, LogStep, Invariance, PTL DEF Spec, ImplementsLog, Log!Spec

-----------------------------------------------------------------------------
(* Giving up *)

\* An attempt after the first, and a rejection, have a failure behind them.
Caused ==
    \A p \in Publications :
        pub[p].pc \in {"due", "rejected"} /\ pub[p].bodyUsed => pub[p].faults > 0

LEMMA CausedKept == IInv /\ Caused /\ [Next]_vars => Caused'
<1> SUFFICES ASSUME IInv, Caused, [Next]_vars PROVE Caused'
    OBVIOUS
<1>0. pub \in [Publications -> PubStates]
    BY DEF IInv, Types
<1>1. ASSUME NEW r \in requests, FailedAttempt(r) PROVE Caused'
    <2>1. CASE ~ Waits(r)
        BY <1>1, <2>1 DEF FailedAttempt, Caused
    <2>2. CASE Waits(r)
        <3> DEFINE s == pub[r.p]
                   t == AfterFailure(s)
        <3>1. r.p \in Publications /\ s \in PubStates /\ s.bodyUsed /\ s.faults \in Nat
            BY <1>0 DEF IInv, Types, FirstAttemptOnly, PubStates
        <3>2. t \in PubStates
            BY <3>1, AfterFailureState
        <3>3. Failed(s) = [t EXCEPT !.faults = s.faults + 1]
            BY DEF Failed
        <3>4. Failed(s).faults = s.faults + 1
            <4> HIDE DEF t, s
            <4> QED
                BY <3>2, <3>3 DEF PubStates
        <3>5. pub' = [pub EXCEPT ![r.p] = Failed(s)]
            BY <1>1, <2>2 DEF FailedAttempt
        <3>6. pub'[r.p].faults > 0
            BY <1>0, <3>1, <3>4, <3>5
        <3>7. \A q \in Publications \ {r.p} : pub'[q] = pub[q]
            BY <1>0, <3>5
        <3> QED
            BY <3>6, <3>7 DEF Caused
    <2> QED
        BY <2>1, <2>2
<1>2. ASSUME NEW p \in Publications, Publish(p) PROVE Caused'
    <2>1. pub[p].pc = "idle" /\ ~ pub[p].bodyUsed
        BY <1>2 DEF Publish, IInv, Unsent
    <2>2. /\ pub'[p].bodyUsed = pub[p].bodyUsed
          /\ \A q \in Publications \ {p} : pub'[q] = pub[q]
        BY <1>0, <1>2 DEF Publish, PubStates
    <2> QED
        BY <2>1, <2>2 DEF Caused
<1>3. ASSUME NEW p \in Publications, Fetch(p) PROVE Caused'
    <2>1. CASE pub[p].bodyUsed
        <3>1. /\ pub[p] \in PubStates /\ pub[p].pc = "due"
              /\ pub' = [pub EXCEPT ![p] = AfterFailure(pub[p])]
            BY <1>0, <1>3, <2>1 DEF Fetch
        <3>2. AfterFailure(pub[p]).faults = pub[p].faults
            BY <2>1, <3>1, AfterFailureState
        <3>3. /\ pub'[p].faults = pub[p].faults /\ pub[p].faults > 0
              /\ \A q \in Publications \ {p} : pub'[q] = pub[q]
            BY <1>0, <2>1, <3>1, <3>2 DEF Caused
        <3> QED
            BY <3>3 DEF Caused
    <2>2. CASE ~ pub[p].bodyUsed
        <3>1. /\ pub'[p].pc = "waiting"
              /\ \A q \in Publications \ {p} : pub'[q] = pub[q]
            BY <1>0, <1>3, <2>2 DEF Fetch, PubStates
        <3> QED
            BY <3>1 DEF Caused
    <2> QED
        BY <2>1, <2>2
<1>4. ASSUME NEW r \in requests, Respond(r) PROVE Caused'
    <2>1. CASE r.pc = "error"
        BY <1>1, <1>4, <2>1 DEF Respond
    <2>2. CASE r.pc # "error" /\ ~ Waits(r)
        BY <1>4, <2>2 DEF Respond, Caused
    <2>3. CASE r.pc # "error" /\ Waits(r)
        <3>1. r.p \in Publications /\ pub' = [pub EXCEPT ![r.p].pc = "resolved"]
            BY <1>4, <2>3 DEF Respond, IInv, Types
        <3>2. /\ pub'[r.p].pc = "resolved"
              /\ \A q \in Publications \ {r.p} : pub'[q] = pub[q]
            BY <1>0, <3>1 DEF PubStates
        <3> QED
            BY <3>2 DEF Caused
    <2> QED
        BY <2>1, <2>2, <2>3
<1>5. ASSUME NEW r \in requests, Disconnect(r) \/ Drop(r) PROVE Caused'
    BY <1>1, <1>5 DEF Disconnect, Drop
<1>6. ASSUME UNCHANGED pub PROVE Caused'
    BY <1>6 DEF Caused
<1> QED
    BY <1>2, <1>3, <1>4, <1>5, <1>6 DEF Next, vars, Store, Audit, Mark

\* publish gives up only after a failure of the network, the object, its storage
\* or KV.
THEOREM NoRejectionInVain == Spec => []RejectionHasCause
<1>1. Init => Caused
    BY DEF Init, Caused
<1>2. Spec => []Caused
    BY <1>1, CausedKept, Invariance, PTL DEF Spec
<1>3. IInv /\ Caused => RejectionHasCause
    BY DEF IInv, Unsent, Caused, RejectionHasCause
<1> QED
    BY <1>2, <1>3, Invariance, PTL

-----------------------------------------------------------------------------
(* The governed emit *)

Lists == Seq(Guard!Policies)

\* A list sorted by priority that holds no policy twice.
Sorted(a) ==
    \A i, j \in DOMAIN a :
        i < j => a[i] # a[j] /\ Guard!Priority(a[i]) <= Guard!Priority(a[j])

Evaluations ==
    [pc : {"evaluating", "auditing", "delivered", "blocked"}, evt : Guard!Events,
     array : Nat, index : Nat \ {0}, allowed : BOOLEAN, consulted : SUBSET Guard!Policies,
     stable : SUBSET Guard!Policies, unblocked : BOOLEAN]

\* The event has passed the policies asked so far.
Passing(em) ==
    \/ em.pc = "evaluating"
    \/ em.pc = "auditing" /\ em.allowed
    \/ em.pc = "delivered" /\ ~ em.evt.bypass

\* What is known of an emission, by the arrays and the blocked workspaces.
EmissionOK(em) ==
    /\ em.array \in DOMAIN arrays
    /\ em.stable \subseteq Guard!Members(arrays[em.array])
    /\ em.stable \subseteq Guard!Members(Guard!Current)
    /\ em.unblocked \/ em.evt.ws \in blocked
    /\ Passing(em) /\ "workspace-block" \in em.consulted => em.unblocked
    /\ em.pc = "evaluating" =>
            \A i \in DOMAIN arrays[em.array] :
                i < em.index /\ arrays[em.array][i] \in em.stable
                    => arrays[em.array][i] \in em.consulted
    /\ Passing(em) /\ em.pc # "evaluating" => em.stable \subseteq em.consulted

ArraysOK ==
    /\ arrays \in Seq(Lists)
    /\ Len(arrays) > 0
    /\ \A n \in DOMAIN arrays : Sorted(arrays[n])

EmissionTypes ==
    /\ emission = [e \in Emissions |-> emission[e]]
    /\ \A e \in Emissions : emission[e] = Guard!Idle \/ emission[e] \in Evaluations

GuardInv ==
    /\ ArraysOK
    /\ blocked \subseteq Workspaces
    /\ EmissionTypes
    /\ \A e \in Emissions : Guard!Active(e) => EmissionOK(emission[e])

USE ConstantsAssumption

LEMMA ActiveIsEvaluation ==
    ASSUME EmissionTypes, NEW e \in Emissions
    PROVE  Guard!Active(e) <=> emission[e] \in Evaluations
BY DEF EmissionTypes, Guard!Active, Guard!Idle, Evaluations

LEMMA CurrentIsList ==
    ASSUME ArraysOK
    PROVE  /\ Len(arrays) \in DOMAIN arrays
           /\ Guard!Current \in Lists
           /\ Sorted(Guard!Current)
BY DEF ArraysOK, Guard!Current

\* One turn of the loop keeps what is known of the emission.
LEMMA TurnKeeps ==
    ASSUME ArraysOK, NEW em \in Evaluations, EmissionOK(em), em.pc = "evaluating",
           NEW t \in Guard!Turn(em)
    PROVE  t \in Evaluations /\ EmissionOK(t)
<1> DEFINE a == arrays[em.array]
<1>0. em.array \in DOMAIN arrays /\ a \in Lists
    BY DEF EmissionOK, ArraysOK
<1>1. CASE em.index > Len(a)
    <2>1. t = [em EXCEPT !.pc = "auditing"]
        BY <1>1 DEF Guard!Turn
    <2>2. t \in Evaluations
        BY <2>1 DEF Evaluations
    <2>3. /\ t.pc = "auditing" /\ t.array = em.array /\ t.stable = em.stable
          /\ t.unblocked = em.unblocked /\ t.evt = em.evt /\ t.consulted = em.consulted
        BY <2>1 DEF Evaluations
    <2>4. em.stable \subseteq em.consulted
        <3> SUFFICES ASSUME NEW p \in em.stable PROVE p \in em.consulted
            OBVIOUS
        <3>1. PICK i \in DOMAIN a : p = a[i]
            BY DEF EmissionOK, Guard!Members
        <3>2. i < em.index
            BY <1>0, <1>1, <3>1 DEF Lists, Evaluations
        <3> QED
            BY <3>1, <3>2 DEF EmissionOK
    <2>5. Passing(em)
        BY DEF Passing
    <2> QED
        BY <2>2, <2>3, <2>4, <2>5 DEF EmissionOK
<1>2. CASE ~ (em.index > Len(a))
    <2> DEFINE p == a[em.index]
    <2>1. PICK deny \in Guard!Denies(p, em.evt) :
            t = [em EXCEPT !.consulted = em.consulted \cup {p}, !.index = em.index + 1,
                           !.allowed = ~ deny,
                           !.pc = IF deny THEN "auditing" ELSE em.pc]
        BY <1>2 DEF Guard!Turn
    <2>2. em.index \in Nat \ {0} /\ em.consulted \subseteq Guard!Policies
        BY DEF Evaluations
    <2>3. deny \in BOOLEAN
        <3>1. CASE p = "workspace-block"
            BY <3>1 DEF Guard!Denies
        <3>2. CASE p = "maintenance-window-guard"
            BY <3>2 DEF Guard!Denies
        <3>3. CASE p = "tool-invocation-approval"
            BY <3>3 DEF Guard!Denies
        <3>4. CASE p = "annotate-event"
            BY <3>4 DEF Guard!Denies
        <3> QED
            BY <3>1, <3>2, <3>3, <3>4 DEF Guard!Denies
    <2> HIDE DEF p, a
    <2>4. /\ t.pc = (IF deny THEN "auditing" ELSE "evaluating")
          /\ t.allowed = ~ deny
          /\ t.array = em.array /\ t.stable = em.stable
          /\ t.unblocked = em.unblocked /\ t.evt = em.evt
          /\ t.consulted = em.consulted \cup {p}
          /\ t.index = em.index + 1
        BY <2>1 DEF Evaluations
    <2>5. p = "workspace-block" /\ ~ deny => em.unblocked
        <3>1. p = "workspace-block" => deny = (em.evt.ws \in blocked)
            BY <2>1 DEF Guard!Denies
        <3> QED
            BY <3>1 DEF EmissionOK
    <2>6. t \in Evaluations
        <3>1. p \in Guard!Policies
            BY <1>0, <1>2, <2>2 DEF Lists, p, a
        <3>2. em.index + 1 \in Nat \ {0} /\ em.consulted \cup {p} \in SUBSET Guard!Policies
            BY <2>2, <3>1
        <3>3. (IF deny THEN "auditing" ELSE em.pc) \in {"evaluating", "auditing", "delivered", "blocked"}
            OBVIOUS
        <3> QED
            BY <2>1, <2>3, <3>2, <3>3 DEF Evaluations
    <2>7. Passing(t) /\ "workspace-block" \in t.consulted => t.unblocked
        BY <2>4, <2>5 DEF EmissionOK, Passing
    <2>8. t.pc = "evaluating" =>
            \A i \in DOMAIN arrays[t.array] :
                i < t.index /\ arrays[t.array][i] \in t.stable
                    => arrays[t.array][i] \in t.consulted
        <3> SUFFICES ASSUME NEW i \in DOMAIN a, i < em.index + 1, a[i] \in em.stable
                     PROVE  a[i] \in em.consulted \cup {p}
            BY <2>4 DEF a
        <3>1. i \in Nat
            BY <1>0 DEF Lists, a
        <3>2. CASE i = em.index
            BY <3>2 DEF p
        <3>3. CASE i < em.index
            BY <3>3 DEF EmissionOK, a
        <3> QED
            BY <2>2, <3>1, <3>2, <3>3
    <2>9. Passing(t) => t.pc = "evaluating"
        BY <2>3, <2>4 DEF Passing
    <2> QED
        BY <2>4, <2>6, <2>7, <2>8, <2>9 DEF EmissionOK
<1> QED
    BY <1>1, <1>2

\* A new emission knows nothing yet.
LEMMA EvaluationBegins ==
    ASSUME ArraysOK, NEW evt \in Guard!Events
    PROVE  /\ Guard!Evaluation(evt) \in Evaluations
           /\ EmissionOK(Guard!Evaluation(evt))
<1> DEFINE em == Guard!Evaluation(evt)
<1>1. /\ em.pc = "evaluating" /\ em.array = Len(arrays) /\ em.index = 1
      /\ em.consulted = {} /\ em.stable = Guard!Members(Guard!Current)
      /\ em.unblocked = (evt.ws \notin blocked) /\ em.evt = evt
    BY DEF Guard!Evaluation
<1>2. Len(arrays) \in DOMAIN arrays /\ Guard!Current = arrays[Len(arrays)]
    BY CurrentIsList DEF Guard!Current
<1>3. em \in Evaluations
    <2>1. Guard!Members(Guard!Current) \subseteq Guard!Policies
        BY CurrentIsList DEF Guard!Members, Lists
    <2>2. Len(arrays) \in Nat
        BY DEF ArraysOK
    <2> QED
        BY <2>1, <2>2 DEF Guard!Evaluation, Evaluations
<1>4. \A i \in DOMAIN arrays[em.array] : ~ (i < em.index)
    <2>1. arrays[em.array] \in Lists
        BY <1>1, <1>2, CurrentIsList
    <2> QED
        BY <1>1, <2>1 DEF Lists
<1>5. EmissionOK(em)
    <2> HIDE DEF em
    <2> QED
        BY <1>1, <1>2, <1>4 DEF EmissionOK, Passing
<1> QED
    BY <1>3, <1>5

\* An emission that changes by itself leaves everything else alone.
LEMMA OneEmissionChanges ==
    ASSUME GuardInv, NEW e \in Emissions, NEW em \in Evaluations, EmissionOK(em),
           emission' = [emission EXCEPT ![e] = em], UNCHANGED <<arrays, blocked>>
    PROVE  GuardInv'
<1>1. ArraysOK' /\ (blocked \subseteq Workspaces)'
    BY DEF GuardInv, ArraysOK, Sorted
<1>2. /\ emission'[e] = em
      /\ \A d \in Emissions \ {e} : emission'[d] = emission[d]
      /\ DOMAIN emission = Emissions
    BY DEF GuardInv, EmissionTypes
<1>3. EmissionTypes'
    BY <1>2 DEF GuardInv, EmissionTypes
<1>4. ASSUME NEW d \in Emissions, Guard!Active(d)' PROVE EmissionOK(emission[d])'
    <2>1. CASE d = e
        BY <1>2, <2>1 DEF EmissionOK, Guard!Members, Guard!Current
    <2>2. CASE d # e
        <3>1. EmissionOK(emission[d])
            BY <1>2, <1>4, <2>2 DEF GuardInv, Guard!Active
        <3> QED
            BY <1>2, <2>2, <3>1 DEF EmissionOK, Guard!Members, Guard!Current
    <2> QED
        BY <2>1, <2>2
<1> QED
    BY <1>1, <1>3, <1>4 DEF GuardInv

LEMMA EmitKeeps ==
    ASSUME GuardInv, NEW e \in Emissions, NEW evt \in Guard!Events, Guard!Emit(e, evt)
    PROVE  GuardInv'
<1> DEFINE em == Guard!Evaluation(evt)
<1>0. ArraysOK /\ em \in Evaluations /\ EmissionOK(em) /\ em.pc = "evaluating"
    BY EvaluationBegins DEF GuardInv, Guard!Evaluation
<1>1. em.evt = evt
    BY DEF Guard!Evaluation
<1>2. UNCHANGED <<arrays, blocked>>
    BY DEF Guard!Emit
<1>3. PICK t \in (IF evt.bypass THEN {[em EXCEPT !.pc = "delivered"]} ELSE Guard!Turn(em)) :
            emission' = [emission EXCEPT ![e] = t]
    BY DEF Guard!Emit
<1> HIDE DEF em
<1>4. t \in Evaluations /\ EmissionOK(t)
    <2>1. CASE evt.bypass
        <3>1. t = [em EXCEPT !.pc = "delivered"]
            BY <1>3, <2>1
        <3>2. t \in Evaluations
            BY <1>0, <3>1 DEF Evaluations
        <3>3. /\ t.pc = "delivered" /\ t.evt = evt /\ t.array = em.array
              /\ t.stable = em.stable /\ t.unblocked = em.unblocked
              /\ t.consulted = em.consulted
            BY <1>0, <1>1, <3>1 DEF Evaluations
        <3>4. ~ Passing(t)
            BY <2>1, <3>3 DEF Passing
        <3> QED
            BY <1>0, <1>1, <3>2, <3>3, <3>4 DEF EmissionOK
    <2>2. CASE ~ evt.bypass
        BY <1>0, <1>3, <2>2, TurnKeeps
    <2> QED
        BY <2>1, <2>2
<1> QED
    BY <1>2, <1>3, <1>4, OneEmissionChanges

LEMMA EvaluateKeeps ==
    ASSUME GuardInv, NEW e \in Emissions, Guard!Evaluate(e)
    PROVE  GuardInv'
<1>1. ArraysOK /\ emission[e] \in Evaluations /\ EmissionOK(emission[e])
      /\ emission[e].pc = "evaluating"
    BY ActiveIsEvaluation DEF GuardInv, Guard!Evaluate, Guard!Active
<1>2. PICK t \in Guard!Turn(emission[e]) : emission' = [emission EXCEPT ![e] = t]
    BY DEF Guard!Evaluate
<1>3. UNCHANGED <<arrays, blocked>>
    BY DEF Guard!Evaluate
<1>4. t \in Evaluations /\ EmissionOK(t)
    BY <1>1, TurnKeeps
<1> QED
    BY <1>2, <1>3, <1>4, OneEmissionChanges

LEMMA AuditedKeeps ==
    ASSUME GuardInv, NEW e \in Emissions, Guard!Audited(e)
    PROVE  GuardInv'
<1> DEFINE em == emission[e]
           pc == IF em.allowed THEN "delivered" ELSE "blocked"
           t == [em EXCEPT !.pc = pc]
<1>1. em \in Evaluations /\ EmissionOK(em) /\ em.pc = "auditing"
    BY ActiveIsEvaluation DEF GuardInv, Guard!Audited, Guard!Active
<1>2. emission' = [emission EXCEPT ![e] = t] /\ UNCHANGED <<arrays, blocked>>
    BY DEF Guard!Audited
<1> HIDE DEF em
<1>3. /\ t.pc = pc /\ t.evt = em.evt /\ t.array = em.array /\ t.index = em.index
      /\ t.stable = em.stable /\ t.unblocked = em.unblocked
      /\ t.consulted = em.consulted
    BY <1>1 DEF Evaluations
<1>4. t \in Evaluations
    BY <1>1 DEF Evaluations
<1>5. Passing(t) => Passing(em)
    BY <1>1, <1>3 DEF Passing
<1>6. EmissionOK(t)
    <2> HIDE DEF t
    <2> QED
        BY <1>1, <1>3, <1>5 DEF EmissionOK
<1> HIDE DEF t
<1> QED
    BY <1>2, <1>4, <1>6, OneEmissionChanges

LEMMA BlockedKeeps ==
    ASSUME GuardInv, NEW B \in SUBSET Workspaces, Guard!SetBlockedWorkspaces(B)
    PROVE  GuardInv'
<1>1. arrays' = arrays /\ blocked' = B
    BY DEF Guard!SetBlockedWorkspaces
<1>2. ArraysOK' /\ (blocked \subseteq Workspaces)'
    BY <1>1 DEF GuardInv, ArraysOK, Sorted
<1>3. \A d \in Emissions : emission'[d] =
            IF Guard!Active(d) /\ emission[d].evt.ws \notin B
            THEN [emission[d] EXCEPT !.unblocked = TRUE] ELSE emission[d]
    BY DEF Guard!SetBlockedWorkspaces
<1>4. emission' = [d \in Emissions |-> emission'[d]]
    BY DEF Guard!SetBlockedWorkspaces
<1>5. ASSUME NEW d \in Emissions
      PROVE  /\ emission'[d] = Guard!Idle \/ emission'[d] \in Evaluations
             /\ emission'[d].pc # "idle" => EmissionOK(emission[d])'
    <2>1. CASE ~ Guard!Active(d)
        BY <1>3, <2>1 DEF GuardInv, EmissionTypes, Guard!Active
    <2>2. CASE Guard!Active(d)
        <3> DEFINE em == emission[d]
                   t == emission'[d]
        <3>1. em \in Evaluations /\ EmissionOK(em)
            BY <2>2, ActiveIsEvaluation DEF GuardInv
        <3>2. t = IF em.evt.ws \notin B THEN [em EXCEPT !.unblocked = TRUE] ELSE em
            BY <1>3, <2>2
        <3> HIDE DEF em, t
        <3>3. t \in Evaluations
            BY <3>1, <3>2 DEF Evaluations
        <3>4. /\ t.pc = em.pc /\ t.evt = em.evt /\ t.array = em.array /\ t.index = em.index
              /\ t.stable = em.stable /\ t.consulted = em.consulted /\ t.allowed = em.allowed
              /\ t.unblocked = (em.unblocked \/ em.evt.ws \notin B)
            BY <3>1, <3>2 DEF Evaluations
        <3>5. /\ t.array \in DOMAIN arrays
              /\ t.stable \subseteq Guard!Members(arrays[t.array])
              /\ t.stable \subseteq Guard!Members(Guard!Current)
              /\ t.pc = "evaluating" =>
                    \A i \in DOMAIN arrays[t.array] :
                        i < t.index /\ arrays[t.array][i] \in t.stable
                            => arrays[t.array][i] \in t.consulted
            BY <3>1, <3>4 DEF EmissionOK
        <3>6. /\ t.unblocked \/ t.evt.ws \in B
              /\ Passing(t) = Passing(em)
              /\ Passing(t) /\ "workspace-block" \in t.consulted => t.unblocked
              /\ Passing(t) /\ t.pc # "evaluating" => t.stable \subseteq t.consulted
            BY <3>1, <3>4 DEF EmissionOK, Passing
        <3>7. EmissionOK(emission[d])'
            BY <1>1, <3>5, <3>6 DEF EmissionOK, Guard!Members, Guard!Current, t
        <3> QED
            BY <3>3, <3>7 DEF t
    <2> QED
        BY <2>1, <2>2
<1> QED
    BY <1>2, <1>4, <1>5 DEF GuardInv, EmissionTypes, Guard!Active

-----------------------------------------------------------------------------
(* Registering: the list of the newest array grows by one policy *)

LEMMA ConcatFacts ==
    ASSUME NEW S, NEW u \in Seq(S), NEW v \in Seq(S)
    PROVE  /\ u \o v \in Seq(S)
           /\ Len(u \o v) = Len(u) + Len(v)
           /\ \A j \in 1 .. Len(u) : (u \o v)[j] = u[j]
           /\ \A j \in 1 .. Len(v) : (u \o v)[Len(u) + j] = v[j]
    OBVIOUS

LEMMA InsertAtFacts ==
    ASSUME NEW S, NEW a \in Seq(S), NEW p \in S, NEW i \in 1 .. Len(a) + 1
    PROVE  LET b == Guard!InsertAt(a, i, p) IN
           /\ b \in Seq(S)
           /\ Len(b) = Len(a) + 1
           /\ \A j \in 1 .. Len(a) + 1 :
                b[j] = IF j < i THEN a[j] ELSE IF j = i THEN p ELSE a[j - 1]
<1> DEFINE u == SubSeq(a, 1, i - 1)
           v == SubSeq(a, i, Len(a))
<1>0. i \in Nat /\ Len(a) \in Nat
    OBVIOUS
<1>1. u \in Seq(S) /\ Len(u) = i - 1 /\ \A j \in 1 .. i - 1 : u[j] = a[j]
    OBVIOUS
<1>2. v \in Seq(S) /\ Len(v) = Len(a) - i + 1 /\ \A j \in 1 .. Len(a) - i + 1 : v[j] = a[i + j - 1]
    OBVIOUS
<1>3. Guard!InsertAt(a, i, p) = u \o <<p>> \o v
    BY DEF Guard!InsertAt
<1> HIDE DEF u, v
<1> DEFINE w == u \o <<p>>
<1>4. w \in Seq(S) /\ Len(w) = i /\ w[i] = p /\ \A j \in 1 .. i - 1 : w[j] = a[j]
    BY <1>1
<1> HIDE DEF w
<1>5. Guard!InsertAt(a, i, p) = w \o v
    BY <1>3 DEF w
<1>6. /\ w \o v \in Seq(S) /\ Len(w \o v) = Len(a) + 1
      /\ \A j \in 1 .. i : (w \o v)[j] = w[j]
      /\ \A j \in 1 .. Len(a) - i + 1 : (w \o v)[i + j] = v[j]
    <2>1. /\ w \o v \in Seq(S) /\ Len(w \o v) = Len(w) + Len(v)
          /\ \A j \in 1 .. Len(w) : (w \o v)[j] = w[j]
          /\ \A j \in 1 .. Len(v) : (w \o v)[Len(w) + j] = v[j]
        BY <1>2, <1>4, ConcatFacts
    <2> QED
        BY <1>2, <1>4, <2>1
<1>7. \A j \in 1 .. Len(a) + 1 :
            (w \o v)[j] = IF j < i THEN a[j] ELSE IF j = i THEN p ELSE a[j - 1]
    <2> SUFFICES ASSUME NEW j \in 1 .. Len(a) + 1
                 PROVE  (w \o v)[j] = IF j < i THEN a[j] ELSE IF j = i THEN p ELSE a[j - 1]
        OBVIOUS
    <2>0. j \in Nat
        BY <1>0
    <2>1. CASE j <= i
        BY <1>4, <1>6, <2>1
    <2>2. CASE j > i
        <3> DEFINE k == j - i
        <3>1. k \in 1 .. Len(a) - i + 1 /\ i + k = j /\ i + k - 1 = j - 1
            BY <2>2
        <3> HIDE DEF k
        <3>2. (w \o v)[j] = v[k]
            <4>1. (w \o v)[i + k] = v[k]
                BY <1>6, <3>1
            <4> QED
                BY <3>1, <4>1
        <3>3. v[k] = a[j - 1]
            <4>1. v[k] = a[i + k - 1]
                BY <1>2, <3>1
            <4> QED
                BY <3>1, <4>1
        <3>4. ~ (j < i) /\ j # i
            BY <1>0, <2>0, <2>2
        <3> QED
            BY <3>2, <3>3, <3>4, Zenon
    <2>3. j <= i \/ j > i
        BY <1>0, <2>0
    <2> QED
        BY <2>1, <2>2, <2>3, Zenon
<1> QED
    BY <1>5, <1>6, <1>7

LEMMA RemoveAtFacts ==
    ASSUME NEW S, NEW a \in Seq(S), NEW i \in 1 .. Len(a)
    PROVE  LET b == Guard!RemoveAt(a, i) IN
           /\ b \in Seq(S)
           /\ Len(b) = Len(a) - 1
           /\ \A j \in 1 .. Len(a) - 1 : b[j] = IF j < i THEN a[j] ELSE a[j + 1]
<1> DEFINE u == SubSeq(a, 1, i - 1)
           v == SubSeq(a, i + 1, Len(a))
<1>0. i \in Nat /\ Len(a) \in Nat
    OBVIOUS
<1>1. u \in Seq(S) /\ Len(u) = i - 1 /\ \A j \in 1 .. i - 1 : u[j] = a[j]
    OBVIOUS
<1>2. v \in Seq(S) /\ Len(v) = Len(a) - i /\ \A j \in 1 .. Len(a) - i : v[j] = a[i + j]
    OBVIOUS
<1>3. Guard!RemoveAt(a, i) = u \o v
    BY DEF Guard!RemoveAt
<1> HIDE DEF u, v
<1>4. /\ u \o v \in Seq(S) /\ Len(u \o v) = Len(a) - 1
      /\ \A j \in 1 .. i - 1 : (u \o v)[j] = u[j]
      /\ \A j \in 1 .. Len(a) - i : (u \o v)[i - 1 + j] = v[j]
    <2>1. /\ u \o v \in Seq(S) /\ Len(u \o v) = Len(u) + Len(v)
          /\ \A j \in 1 .. Len(u) : (u \o v)[j] = u[j]
          /\ \A j \in 1 .. Len(v) : (u \o v)[Len(u) + j] = v[j]
        <3>1. u \in Seq(S) /\ v \in Seq(S)
            BY <1>1, <1>2
        <3> QED
            BY <3>1, ConcatFacts
    <2>2. Len(u) = i - 1 /\ Len(v) = Len(a) - i
        BY <1>1, <1>2
    <2>3. Len(u) + Len(v) = Len(a) - 1
        BY <1>0, <2>2
    <2> QED
        BY <2>1, <2>2, <2>3
<1>5. \A j \in 1 .. Len(a) - 1 : (u \o v)[j] = IF j < i THEN a[j] ELSE a[j + 1]
    <2> SUFFICES ASSUME NEW j \in 1 .. Len(a) - 1
                 PROVE  (u \o v)[j] = IF j < i THEN a[j] ELSE a[j + 1]
        OBVIOUS
    <2>0. j \in Nat
        BY <1>0
    <2>1. CASE j < i
        BY <1>1, <1>4, <2>1
    <2>2. CASE j >= i
        <3> DEFINE k == j - (i - 1)
        <3>1. k \in 1 .. Len(a) - i /\ i - 1 + k = j /\ i + k = j + 1
            BY <2>2
        <3> HIDE DEF k
        <3>2. (u \o v)[j] = v[k]
            <4>1. (u \o v)[i - 1 + k] = v[k]
                BY <1>4, <3>1
            <4> QED
                BY <3>1, <4>1
        <3>3. v[k] = a[j + 1]
            <4>1. v[k] = a[i + k]
                BY <1>2, <3>1
            <4> QED
                BY <3>1, <4>1
        <3>4. ~ (j < i)
            BY <1>0, <2>0, <2>2
        <3> QED
            BY <3>2, <3>3, <3>4, Zenon
    <2>3. j < i \/ j >= i
        BY <1>0, <2>0
    <2> QED
        BY <2>1, <2>2, <2>3, Zenon
<1> QED
    BY <1>3, <1>4, <1>5

LEMMA LeastElement ==
    ASSUME NEW T \in SUBSET Nat, T # {}
    PROVE  \E n \in T : \A m \in T : n <= m
<1> DEFINE R == {ss \in Nat \X Nat : ss[1] < ss[2]}
<1>1. R = OpToRel(<, Nat)
    BY DEF OpToRel
<1>2. IsWellFoundedOn(R, Nat)
    BY <1>1, NatLessThanWellFounded
<1>3. PICK n \in T : \A m \in T : ~ (<<m, n>> \in R)
    BY <1>2, WFMin
<1>4. ASSUME NEW m \in T PROVE n <= m
    <2>1. ~ (<<m, n>> \in R) /\ m \in Nat /\ n \in Nat
        BY <1>3
    <2> QED
        BY <2>1
<1> QED
    BY <1>4

LEMMA PriorityIsNumber == \A p \in Guard!Policies : Guard!Priority(p) \in Nat
BY DEF Guard!Policies, Guard!Shipped, Guard!Priority, Guard!ConstantsOK

\* The sort after a push always finds a place.
LEMMA PlaceExists ==
    ASSUME NEW a \in Lists, Sorted(a), NEW p \in Guard!Policies
    PROVE  Guard!Places(a, p) # {}
<1> DEFINE T == {i \in 1 .. Len(a) + 1 :
                    i = Len(a) + 1 \/ Guard!Priority(a[i]) > Guard!Priority(p)}
<1>1. T \in SUBSET Nat /\ T # {}
    BY DEF Lists
<1>2. PICK m \in T : \A i \in T : m <= i
    BY <1>1, LeastElement
<1>3. ASSUME NEW j \in DOMAIN a PROVE j < m <=> Guard!Priority(a[j]) <= Guard!Priority(p)
    <2>1. j \in 1 .. Len(a) /\ a[j] \in Guard!Policies /\ Guard!Priority(a[j]) \in Nat
          /\ Guard!Priority(p) \in Nat
        BY PriorityIsNumber DEF Lists
    <2>2. ASSUME j < m PROVE Guard!Priority(a[j]) <= Guard!Priority(p)
        <3>1. j \notin T
            BY <1>2, <2>1, <2>2
        <3> QED
            BY <2>1, <3>1
    <2>3. ASSUME ~ (j < m) PROVE Guard!Priority(a[j]) > Guard!Priority(p)
        <3>1. m \in 1 .. Len(a) /\ Guard!Priority(a[m]) > Guard!Priority(p)
            BY <1>2, <2>1, <2>3
        <3>2. m = j \/ (m \in DOMAIN a /\ m < j)
            BY <2>1, <2>3, <3>1 DEF Lists
        <3>3. Guard!Priority(a[m]) <= Guard!Priority(a[j])
            BY <2>1, <3>2 DEF Sorted
        <3>4. Guard!Priority(a[m]) \in Nat
            BY <3>1, PriorityIsNumber DEF Lists
        <3> QED
            BY <2>1, <3>1, <3>3, <3>4
    <2> QED
        BY <2>1, <2>2, <2>3
<1>4. m \in Guard!Places(a, p)
    BY <1>2, <1>3 DEF Guard!Places
<1> QED
    BY <1>4

\* The sorted list with a new policy at its place is sorted, holds one policy more,
\* and what was at a position is there or one further.
LEMMA InsertKeepsList ==
    ASSUME NEW a \in Lists, Sorted(a), NEW p \in Guard!Policies,
           p \notin Guard!Members(a), NEW i \in Guard!Places(a, p)
    PROVE  LET b == Guard!InsertAt(a, i, p) IN
           /\ b \in Lists
           /\ Sorted(b)
           /\ Guard!Members(a) \subseteq Guard!Members(b)
           /\ \A j \in DOMAIN b :
                b[j] = p \/ \E k \in DOMAIN a : k <= j /\ b[j] = a[k]
<1> DEFINE b == Guard!InsertAt(a, i, p)
<1>0. i \in 1 .. Len(a) + 1 /\ DOMAIN a = 1 .. Len(a) /\ Len(a) \in Nat
      /\ \A j \in 1 .. Len(a) : a[j] \in Guard!Policies
    BY DEF Guard!Places, Lists
<1>1. /\ b \in Lists /\ DOMAIN b = 1 .. Len(a) + 1
      /\ \A j \in 1 .. Len(a) + 1 :
            b[j] = IF j < i THEN a[j] ELSE IF j = i THEN p ELSE a[j - 1]
    <2>1. a \in Seq(Guard!Policies)
        BY DEF Lists
    <2>2. /\ b \in Seq(Guard!Policies) /\ Len(b) = Len(a) + 1
          /\ \A j \in 1 .. Len(a) + 1 :
                b[j] = IF j < i THEN a[j] ELSE IF j = i THEN p ELSE a[j - 1]
        BY <1>0, <2>1, InsertAtFacts
    <2> HIDE DEF b
    <2> QED
        BY <2>2 DEF Lists
<1>p. \A j \in 1 .. Len(a) : /\ j < i <=> Guard!Priority(a[j]) <= Guard!Priority(p)
                             /\ a[j] # p
    BY <1>0 DEF Guard!Places, Guard!Members
<1> HIDE DEF b
<1>2. Sorted(b)
    <2> SUFFICES ASSUME NEW j \in 1 .. Len(a) + 1, NEW k \in 1 .. Len(a) + 1, j < k
                 PROVE  b[j] # b[k] /\ Guard!Priority(b[j]) <= Guard!Priority(b[k])
        BY <1>1 DEF Sorted
    <2>0. j \in Nat /\ k \in Nat /\ i \in Nat
        BY <1>0
    <2>1. CASE k = i
        <3>1. j \in 1 .. Len(a) /\ b[j] = a[j] /\ b[k] = p
            BY <1>0, <1>1, <2>1
        <3> QED
            BY <1>p, <2>1, <3>1
    <2>2. CASE j = i
        <3>1. k - 1 \in 1 .. Len(a) /\ ~ (k - 1 < i) /\ b[j] = p /\ b[k] = a[k - 1]
            BY <1>0, <1>1, <2>2
        <3>2. Guard!Priority(a[k - 1]) \in Nat /\ Guard!Priority(p) \in Nat
            BY <1>0, <3>1, PriorityIsNumber
        <3> QED
            BY <1>p, <2>2, <3>1, <3>2
    <2>3. CASE j # i /\ k # i
        <3> DEFINE jj == IF j < i THEN j ELSE j - 1
                   kk == IF k < i THEN k ELSE k - 1
        <3>1. jj \in 1 .. Len(a) /\ kk \in 1 .. Len(a) /\ jj < kk
            BY <1>0, <2>0, <2>3
        <3>2. b[j] = a[jj] /\ b[k] = a[kk]
            BY <1>1, <2>0, <2>3
        <3> QED
            BY <1>0, <3>1, <3>2 DEF Sorted
    <2> QED
        BY <2>1, <2>2, <2>3
<1>3. Guard!Members(a) \subseteq Guard!Members(b)
    <2> SUFFICES ASSUME NEW j \in 1 .. Len(a)
                 PROVE  \E k \in 1 .. Len(a) + 1 : a[j] = b[k]
        BY <1>0, <1>1 DEF Guard!Members
    <2>1. CASE j < i
        BY <1>0, <1>1, <2>1
    <2>2. CASE ~ (j < i)
        <3>1. j + 1 \in 1 .. Len(a) + 1 /\ b[j + 1] = a[j]
            BY <1>0, <1>1, <2>2
        <3> QED
            BY <3>1
    <2> QED
        BY <2>1, <2>2
<1>4. ASSUME NEW j \in 1 .. Len(a) + 1
      PROVE  b[j] = p \/ \E k \in 1 .. Len(a) : k <= j /\ b[j] = a[k]
    <2>1. CASE j < i
        <3>1. j \in 1 .. Len(a) /\ j <= j
            BY <1>0, <2>1
        <3> QED
            BY <1>1, <2>1, <3>1
    <2>2. CASE j = i
        BY <1>1, <2>2
    <2>3. CASE j > i
        <3>1. j - 1 \in 1 .. Len(a) /\ j - 1 <= j /\ b[j] = a[j - 1]
            BY <1>0, <1>1, <2>3
        <3> QED
            BY <3>1
    <2> QED
        BY <1>0, <2>1, <2>2, <2>3
<1> QED
    BY <1>0, <1>1, <1>2, <1>3, <1>4 DEF b

LEMMA RemoveKeepsList ==
    ASSUME NEW a \in Lists, Sorted(a), NEW i \in DOMAIN a
    PROVE  LET b == Guard!RemoveAt(a, i) IN
           /\ b \in Lists
           /\ Sorted(b)
           /\ Guard!Members(a) \ {a[i]} \subseteq Guard!Members(b)
<1> DEFINE b == Guard!RemoveAt(a, i)
<1>0. i \in 1 .. Len(a) /\ DOMAIN a = 1 .. Len(a) /\ Len(a) \in Nat
    BY DEF Lists
<1>1. /\ b \in Lists /\ DOMAIN b = 1 .. Len(a) - 1
      /\ \A j \in 1 .. Len(a) - 1 : b[j] = IF j < i THEN a[j] ELSE a[j + 1]
    <2>1. a \in Seq(Guard!Policies)
        BY DEF Lists
    <2>2. /\ b \in Seq(Guard!Policies) /\ Len(b) = Len(a) - 1
          /\ \A j \in 1 .. Len(a) - 1 : b[j] = IF j < i THEN a[j] ELSE a[j + 1]
        BY <1>0, <2>1, RemoveAtFacts
    <2> HIDE DEF b
    <2> QED
        BY <2>2 DEF Lists
<1> HIDE DEF b
<1>2. Sorted(b)
    <2> SUFFICES ASSUME NEW j \in 1 .. Len(a) - 1, NEW k \in 1 .. Len(a) - 1, j < k
                 PROVE  b[j] # b[k] /\ Guard!Priority(b[j]) <= Guard!Priority(b[k])
        BY <1>1 DEF Sorted
    <2> DEFINE jj == IF j < i THEN j ELSE j + 1
               kk == IF k < i THEN k ELSE k + 1
    <2>1. jj \in 1 .. Len(a) /\ kk \in 1 .. Len(a) /\ jj < kk
        BY <1>0
    <2>2. b[j] = a[jj] /\ b[k] = a[kk]
        BY <1>1
    <2> QED
        BY <1>0, <2>1, <2>2 DEF Sorted
<1>3. ASSUME NEW j \in 1 .. Len(a), j # i PROVE \E k \in 1 .. Len(a) - 1 : a[j] = b[k]
    <2>1. CASE j < i
        <3>1. j \in 1 .. Len(a) - 1 /\ b[j] = a[j]
            BY <1>0, <1>1, <2>1
        <3> QED
            BY <3>1
    <2>2. CASE j > i
        <3>1. j - 1 \in 1 .. Len(a) - 1 /\ b[j - 1] = a[j]
            BY <1>0, <1>1, <2>2
        <3> QED
            BY <3>1
    <2> QED
        BY <1>0, <1>3, <2>1, <2>2
<1>4. Guard!Members(a) \ {a[i]} \subseteq Guard!Members(b)
    <2>1. DOMAIN a = 1 .. Len(a) /\ DOMAIN b = 1 .. Len(a) - 1
        BY <1>0, <1>1
    <2> SUFFICES ASSUME NEW x \in Guard!Members(a), x # a[i] PROVE x \in Guard!Members(b)
        OBVIOUS
    <2>2. PICK j \in 1 .. Len(a) : x = a[j]
        BY <2>1 DEF Guard!Members
    <2>3. PICK k \in 1 .. Len(a) - 1 : a[j] = b[k]
        BY <1>3, <2>2
    <2> QED
        BY <2>1, <2>2, <2>3 DEF Guard!Members
<1> QED
    BY <1>1, <1>2, <1>4 DEF b

LEMMA RegisterKeeps ==
    ASSUME GuardInv, NEW p \in Custom, Guard!Register(p)
    PROVE  GuardInv'
<1> DEFINE n == Len(arrays)
           a == Guard!Current
<1>0. /\ n \in DOMAIN arrays /\ a \in Lists /\ Sorted(a) /\ a = arrays[n]
      /\ p \in Guard!Policies
    BY CurrentIsList DEF GuardInv, Guard!Current, Guard!Policies
<1>1. PICK i \in Guard!Places(a, p) :
            arrays' = [arrays EXCEPT ![n] = Guard!InsertAt(a, i, p)]
    BY <1>0 DEF Guard!Register, Guard!Current
<1> DEFINE b == Guard!InsertAt(a, i, p)
<1>2. /\ b \in Lists /\ Sorted(b)
      /\ Guard!Members(a) \subseteq Guard!Members(b)
      /\ \A j \in DOMAIN b : b[j] = p \/ \E k \in DOMAIN a : k <= j /\ b[j] = a[k]
    <2>1. p \notin Guard!Members(a)
        BY DEF Guard!Register
    <2> QED
        BY <1>0, <2>1, InsertKeepsList
<1>3. b \in Lists /\ arrays' = [arrays EXCEPT ![n] = b]
    BY <1>1, <1>2
<1> HIDE DEF b, a
<1>4. arrays \in Seq(Lists)
    BY DEF GuardInv, ArraysOK
<1>5. /\ arrays' \in Seq(Lists) /\ Len(arrays') = n /\ n > 0
      /\ DOMAIN arrays' = DOMAIN arrays
      /\ arrays'[n] = b
      /\ \A m \in DOMAIN arrays : m # n => arrays'[m] = arrays[m]
    <2>1. n > 0
        BY DEF GuardInv, ArraysOK
    <2> QED
        BY <1>0, <1>3, <1>4, <2>1
<1>6. ArraysOK'
    <2>1. ASSUME NEW m \in DOMAIN arrays PROVE Sorted(arrays'[m])
        <3>1. CASE m = n
            BY <1>2, <1>5, <3>1
        <3>2. CASE m # n
            BY <1>5, <3>2 DEF GuardInv, ArraysOK
        <3> QED
            BY <3>1, <3>2
    <2> QED
        BY <1>5, <2>1 DEF ArraysOK, Sorted
<1>7. Guard!Current' = b
    BY <1>5 DEF Guard!Current
<1>8. UNCHANGED <<blocked, emission>>
    BY DEF Guard!Register
<1>9. ASSUME NEW e \in Emissions, Guard!Active(e) PROVE EmissionOK(emission[e])'
    <2> DEFINE em == emission[e]
               m == em.array
    <2>0. EmissionOK(em) /\ m \in DOMAIN arrays
        BY <1>9 DEF GuardInv, EmissionOK
    <2>1. em.stable \subseteq Guard!Members(b)
        BY <1>2, <2>0 DEF EmissionOK, a
    <2>2. em.stable \subseteq Guard!Members(arrays'[m])
        <3>1. CASE m = n
            BY <1>5, <2>1, <3>1
        <3>2. CASE m # n
            BY <1>5, <2>0, <3>2 DEF EmissionOK
        <3> QED
            BY <3>1, <3>2
    <2>3. p \notin em.stable
        BY <2>0 DEF EmissionOK, Guard!Register
    <2>4. ASSUME em.pc = "evaluating", NEW j \in DOMAIN arrays'[m], j < em.index,
                 arrays'[m][j] \in em.stable
          PROVE  arrays'[m][j] \in em.consulted
        <3>1. CASE m # n
            BY <1>5, <2>0, <2>4, <3>1 DEF EmissionOK
        <3>2. CASE m = n
            <4>1. j \in DOMAIN b /\ b[j] # p /\ arrays'[m] = b
                BY <1>5, <2>3, <2>4, <3>2
            <4>2. PICK k \in DOMAIN a : k <= j /\ b[j] = a[k]
                BY <1>2, <4>1
            <4>3. k < em.index
                <5>1. em.index \in Nat
                    BY <1>9, ActiveIsEvaluation DEF GuardInv, Evaluations
                <5>2. k \in Nat /\ j \in Nat
                    BY <1>0, <1>2, <4>1, <4>2 DEF Lists
                <5> QED
                    BY <2>4, <4>2, <5>1, <5>2
            <4>4. a = arrays[m]
                BY <1>0, <3>2
            <4>5. a[k] \in em.stable
                BY <2>4, <4>1, <4>2
            <4>6. a[k] \in em.consulted
                BY <2>0, <2>4, <4>2, <4>3, <4>4, <4>5 DEF EmissionOK
            <4> QED
                BY <4>1, <4>2, <4>6
        <3> QED
            BY <3>1, <3>2
    <2>5. /\ em.unblocked \/ em.evt.ws \in blocked
          /\ Passing(em) /\ "workspace-block" \in em.consulted => em.unblocked
          /\ Passing(em) /\ em.pc # "evaluating" => em.stable \subseteq em.consulted
        BY <2>0 DEF EmissionOK
    <2> HIDE DEF em
    <2>6. emission[e]' = em
        BY <1>8 DEF em
    <2>7. m \in DOMAIN arrays'
        BY <1>5, <2>0
    <2> QED
        BY <1>7, <1>8, <2>1, <2>2, <2>4, <2>5, <2>6, <2>7 DEF EmissionOK
<1> QED
    BY <1>6, <1>8, <1>9 DEF GuardInv, EmissionTypes, Guard!Active

LEMMA UnregisterKeeps ==
    ASSUME GuardInv, NEW p \in Guard!Policies, Guard!Unregister(p)
    PROVE  GuardInv'
<1> DEFINE n == Len(arrays)
           a == Guard!Current
<1>0. n \in DOMAIN arrays /\ a \in Lists /\ Sorted(a) /\ a = arrays[n]
    BY CurrentIsList DEF GuardInv, Guard!Current
<1>1. PICK i \in DOMAIN a : a[i] = p /\ arrays' = Append(arrays, Guard!RemoveAt(a, i))
    BY DEF Guard!Unregister
<1> DEFINE b == Guard!RemoveAt(a, i)
<1>2. /\ b \in Lists /\ Sorted(b)
      /\ Guard!Members(a) \ {p} \subseteq Guard!Members(b)
    BY <1>0, <1>1, RemoveKeepsList
<1>3. arrays' = Append(arrays, b)
    BY <1>1
<1> HIDE DEF b, a
<1>4. arrays \in Seq(Lists)
    BY DEF GuardInv, ArraysOK
<1>5. /\ arrays' \in Seq(Lists) /\ Len(arrays') = n + 1 /\ n \in Nat
      /\ DOMAIN arrays' = 1 .. n + 1 /\ DOMAIN arrays = 1 .. n
      /\ arrays'[n + 1] = b
      /\ \A m \in 1 .. n : arrays'[m] = arrays[m]
    BY <1>2, <1>3, <1>4
<1>6. ArraysOK'
    <2>1. ASSUME NEW m \in 1 .. n + 1 PROVE Sorted(arrays'[m])
        <3>1. CASE m = n + 1
            BY <1>2, <1>5, <3>1
        <3>2. CASE m # n + 1
            <4>1. m \in 1 .. n
                BY <1>5, <3>2
            <4> QED
                BY <1>5, <4>1 DEF GuardInv, ArraysOK
        <3> QED
            BY <3>1, <3>2
    <2>2. n + 1 > 0
        BY <1>5
    <2> QED
        BY <1>5, <2>1, <2>2 DEF ArraysOK, Sorted
<1>7. Guard!Current' = b
    BY <1>5 DEF Guard!Current
<1>8. blocked' = blocked
    BY DEF Guard!Unregister
<1>9. \A d \in Emissions : emission'[d] =
            IF Guard!Active(d) THEN [emission[d] EXCEPT !.stable = @ \ {p}] ELSE emission[d]
    BY DEF Guard!Unregister
<1>10. emission' = [d \in Emissions |-> emission'[d]]
    BY DEF Guard!Unregister
<1>11. ASSUME NEW e \in Emissions
       PROVE  /\ emission'[e] = Guard!Idle \/ emission'[e] \in Evaluations
              /\ emission'[e].pc # "idle" => EmissionOK(emission[e])'
    <2>1. CASE ~ Guard!Active(e)
        BY <1>9, <2>1 DEF GuardInv, EmissionTypes, Guard!Active
    <2>2. CASE Guard!Active(e)
        <3> DEFINE em == emission[e]
                   t == emission'[e]
        <3>1. em \in Evaluations /\ EmissionOK(em)
            BY <2>2, ActiveIsEvaluation DEF GuardInv
        <3>2. t = [em EXCEPT !.stable = em.stable \ {p}]
            BY <1>9, <2>2
        <3> HIDE DEF em, t
        <3>3. t \in Evaluations
            <4>1. em.stable \ {p} \in SUBSET Guard!Policies
                BY <3>1 DEF Evaluations
            <4> QED
                BY <3>1, <3>2, <4>1 DEF Evaluations
        <3>4. /\ t.pc = em.pc /\ t.evt = em.evt /\ t.array = em.array /\ t.index = em.index
              /\ t.stable = em.stable \ {p} /\ t.consulted = em.consulted
              /\ t.allowed = em.allowed /\ t.unblocked = em.unblocked
            BY <3>1, <3>2 DEF Evaluations
        <3>5. t.array \in 1 .. n /\ arrays'[t.array] = arrays[t.array]
            BY <1>5, <3>1, <3>4 DEF EmissionOK
        <3>6. t.array \in DOMAIN arrays'
            BY <1>5, <3>5
        <3>7. t.stable \subseteq Guard!Members(arrays'[t.array])
            BY <3>1, <3>4, <3>5 DEF EmissionOK
        <3>8. t.stable \subseteq Guard!Members(b)
            BY <1>2, <3>1, <3>4 DEF EmissionOK, a
        <3>9. t.pc = "evaluating" =>
                \A j \in DOMAIN arrays'[t.array] :
                    j < t.index /\ arrays'[t.array][j] \in t.stable
                        => arrays'[t.array][j] \in t.consulted
            BY <3>1, <3>4, <3>5 DEF EmissionOK
        <3>10. /\ t.unblocked \/ t.evt.ws \in blocked
               /\ Passing(t) /\ "workspace-block" \in t.consulted => t.unblocked
               /\ Passing(t) /\ t.pc # "evaluating" => t.stable \subseteq t.consulted
            BY <3>1, <3>4 DEF EmissionOK, Passing
        <3>11. emission[e]' = t
            BY DEF t
        <3>12. EmissionOK(emission[e])'
            BY <1>7, <1>8, <3>6, <3>7, <3>8, <3>9, <3>10, <3>11 DEF EmissionOK
        <3> QED
            BY <3>3, <3>11, <3>12
    <2> QED
        BY <2>1, <2>2
<1> QED
    BY <1>6, <1>8, <1>10, <1>11 DEF GuardInv, EmissionTypes, Guard!Active

LEMMA GuardStep == GuardInv /\ [Guard!Next]_guardVars => GuardInv'
<1> SUFFICES ASSUME GuardInv, [Guard!Next]_guardVars PROVE GuardInv'
    OBVIOUS
<1>1. ASSUME UNCHANGED <<arrays, blocked, emission>> PROVE GuardInv'
    BY <1>1 DEF GuardInv, ArraysOK, Sorted, EmissionTypes, EmissionOK, Guard!Active,
                Guard!Members, Guard!Current
<1>2. ASSUME NEW x \in BOOLEAN,
             Guard!SetMaintenanceWindow(x) \/ Guard!SetToolInvocationRequireApproval(x)
      PROVE  GuardInv'
    BY <1>1, <1>2 DEF Guard!SetMaintenanceWindow, Guard!SetToolInvocationRequireApproval
<1>3. CASE UNCHANGED guardVars
    BY <1>1, <1>3 DEF guardVars
<1> QED
    BY <1>2, <1>3, BlockedKeeps, RegisterKeeps, UnregisterKeeps, EmitKeeps, EvaluateKeeps,
       AuditedKeeps DEF Guard!Next

LEMMA GuardBegins == Guard!Init => GuardInv
<1> SUFFICES ASSUME Guard!Init PROVE GuardInv
    OBVIOUS
<1> DEFINE shipped == <<"workspace-block", "maintenance-window-guard",
                        "tool-invocation-approval", "annotate-event">>
<1>1. arrays = <<shipped>>
    BY DEF Guard!Init
<1>2. shipped \in Lists /\ DOMAIN shipped = 1 .. 4
    BY DEF Lists, Guard!Policies, Guard!Shipped
<1>3. Sorted(shipped)
    <2> SUFFICES ASSUME NEW i \in 1 .. 4, NEW j \in 1 .. 4, i < j
                 PROVE  /\ shipped[i] # shipped[j]
                        /\ Guard!Priority(shipped[i]) <= Guard!Priority(shipped[j])
        BY <1>2 DEF Sorted
    <2>1. /\ Guard!Priority(shipped[1]) = 10 /\ Guard!Priority(shipped[2]) = 20
          /\ Guard!Priority(shipped[3]) = 30 /\ Guard!Priority(shipped[4]) = 100
        BY DEF Guard!Priority
    <2>2. /\ shipped[1] # shipped[2] /\ shipped[1] # shipped[3] /\ shipped[1] # shipped[4]
          /\ shipped[2] # shipped[3] /\ shipped[2] # shipped[4] /\ shipped[3] # shipped[4]
        OBVIOUS
    <2>3. \/ i = 1 /\ j \in {2, 3, 4}
          \/ i = 2 /\ j \in {3, 4}
          \/ i = 3 /\ j = 4
        OBVIOUS
    <2> HIDE DEF shipped
    <2> QED
        BY <2>1, <2>2, <2>3
<1> HIDE DEF shipped
<1>4. ArraysOK
    <2>1. arrays \in Seq(Lists) /\ Len(arrays) = 1 /\ DOMAIN arrays = {1} /\ arrays[1] = shipped
        BY <1>1, <1>2
    <2> QED
        BY <1>3, <2>1 DEF ArraysOK
<1>5. EmissionTypes /\ \A e \in Emissions : ~ Guard!Active(e)
    BY DEF Guard!Init, EmissionTypes, Guard!Active, Guard!Idle
<1> QED
    BY <1>4, <1>5 DEF GuardInv, Guard!Init

LEMMA GuardInvariance == Guard!Spec => []GuardInv
<1>1. GuardInv /\ [Guard!Next]_(Guard!vars) => GuardInv'
    BY GuardStep DEF Guard!vars, guardVars
<1> QED
    BY <1>1, GuardBegins, PTL DEF Guard!Spec

LEMMA GuardInvGives ==
    ASSUME GuardInv
    PROVE  Guard!TypeOK /\ Guard!BlockHolds /\ Guard!EveryPolicyConsulted
<1>1. ASSUME NEW e \in Emissions, Guard!Delivered(e)
      PROVE  /\ emission[e].stable \subseteq emission[e].consulted
             /\ "workspace-block" \in emission[e].stable => emission[e].unblocked
    <2>1. Guard!Active(e) /\ Passing(emission[e]) /\ emission[e].pc # "evaluating"
        BY <1>1 DEF Guard!Delivered, Guard!Active, Passing
    <2> QED
        BY <2>1 DEF GuardInv, EmissionOK
<1>2. Guard!EveryPolicyConsulted /\ Guard!BlockHolds
    BY <1>1 DEF Guard!EveryPolicyConsulted, Guard!BlockHolds
<1>3. Guard!TypeOK
    <2>1. ASSUME NEW n \in DOMAIN arrays, NEW i \in DOMAIN arrays[n]
          PROVE  arrays[n][i] \in Guard!Policies
        BY DEF GuardInv, ArraysOK, Lists
    <2>2. ASSUME NEW e \in Emissions, Guard!Active(e)
          PROVE  emission[e].array \in DOMAIN arrays
                 /\ emission[e].consulted \subseteq Guard!Policies
        BY <2>2, ActiveIsEvaluation DEF GuardInv, EmissionOK, Evaluations
    <2> QED
        BY <2>1, <2>2 DEF Guard!TypeOK, GuardInv, ArraysOK, Sorted
<1> QED
    BY <1>2, <1>3

-----------------------------------------------------------------------------
(* Requests and listening *)

RequestRecords ==
    [pc : {"idle", "publishing", "waiting", "resolved", "failed", "timeout"},
     to : Processes \cup {None}, answer : Requests \cup {None}]

ListenRecords ==
    [p : Processes \cup {None}, h : Handlers \cup {None}, set : Listens \cup {None},
     subscribed : BOOLEAN]

RequestsOK ==
    /\ request \in [Requests -> RequestRecords]
    /\ received \subseteq Requests
    /\ pending \subseteq Requests
    /\ IPC!PendingIffWaiting
    /\ IPC!OwnAnswer

ListenTypes ==
    /\ listen \in [Listens -> ListenRecords]
    /\ handlers \in [Processes -> Listens \cup {None}]
    /\ members \in [Listens -> SUBSET Handlers]

\* The Set of a process is the one a listen for that process made, and so is the
\* one each listen has captured.
SetsBelong ==
    /\ \A l \in Listens :
        listen[l].p # None => /\ listen[l].set \in Listens
                              /\ listen[l].h \in Handlers
                              /\ listen[listen[l].set].p = listen[l].p
    /\ \A p \in Processes : handlers[p] # None =>
        listen[handlers[p]].p = p /\ members[handlers[p]] # {}

\* Unless handlers were repeated, each subscription has a handler of its own in
\* the Set its process has.
OwnHandlers ==
    \A l \in Listens :
        listen[l].subscribed /\ listen[l].p # None /\ listen[l].p \notin repeated =>
            /\ handlers[listen[l].p] = listen[l].set
            /\ listen[l].h \in members[listen[l].set]
            /\ \A k \in Listens \ {l} :
                    listen[k].subscribed /\ listen[k].p = listen[l].p
                        => listen[k].h # listen[l].h

IPCInv == RequestsOK /\ ListenTypes /\ SetsBelong /\ OwnHandlers

LEMMA RequestStep ==
    ASSUME RequestsOK,
           \E r \in Requests :
              \/ \E p \in Processes : IPC!SendAndWaitReply(r, p)
              \/ IPC!AwaitReply(r) \/ IPC!PublishRejects(r) \/ IPC!Reply(r) \/ IPC!Timeout(r)
    PROVE  RequestsOK'
<1>0. None \notin Requests
    BY DEF IPC!ConstantsOK
<1>1. ASSUME NEW r \in Requests, NEW p \in Processes, IPC!SendAndWaitReply(r, p)
      PROVE  RequestsOK'
    <2>1. /\ request' \in [Requests -> RequestRecords] /\ request'[r].pc = "publishing"
          /\ \A q \in Requests \ {r} : request'[q] = request[q]
        BY <1>1 DEF IPC!SendAndWaitReply, RequestsOK, RequestRecords
    <2>2. received' \subseteq Requests /\ pending' = pending /\ request[r].pc = "idle"
        BY <1>1 DEF IPC!SendAndWaitReply, RequestsOK
    <2> QED
        BY <2>1, <2>2 DEF RequestsOK, IPC!PendingIffWaiting, IPC!OwnAnswer
<1>2. ASSUME NEW r \in Requests, IPC!AwaitReply(r) PROVE RequestsOK'
    <2>1. /\ request' \in [Requests -> RequestRecords] /\ request'[r].pc = "waiting"
          /\ \A q \in Requests \ {r} : request'[q] = request[q]
        BY <1>2 DEF IPC!AwaitReply, RequestsOK, RequestRecords
    <2>2. received' = received /\ pending' = pending \cup {r}
        BY <1>2 DEF IPC!AwaitReply
    <2> QED
        BY <2>1, <2>2 DEF RequestsOK, IPC!PendingIffWaiting, IPC!OwnAnswer
<1>3. ASSUME NEW r \in Requests, IPC!PublishRejects(r) PROVE RequestsOK'
    <2>1. /\ request' \in [Requests -> RequestRecords] /\ request'[r].pc = "failed"
          /\ \A q \in Requests \ {r} : request'[q] = request[q]
        BY <1>3 DEF IPC!PublishRejects, RequestsOK, RequestRecords
    <2>2. received' = received /\ pending' = pending /\ request[r].pc = "publishing"
        BY <1>3 DEF IPC!PublishRejects
    <2> QED
        BY <2>1, <2>2 DEF RequestsOK, IPC!PendingIffWaiting, IPC!OwnAnswer
<1>4. ASSUME NEW r \in Requests, IPC!Reply(r) PROVE RequestsOK'
    <2>1. CASE r \in pending
        <3>1. /\ request' \in [Requests -> RequestRecords]
              /\ request'[r].pc = "resolved" /\ request'[r].answer = r
              /\ \A q \in Requests \ {r} : request'[q] = request[q]
            BY <1>4, <2>1 DEF IPC!Reply, RequestsOK, RequestRecords
        <3>2. received' = received /\ pending' = pending \ {r}
            BY <1>4, <2>1 DEF IPC!Reply
        <3> QED
            BY <3>1, <3>2 DEF RequestsOK, IPC!PendingIffWaiting, IPC!OwnAnswer
    <2>2. CASE r \notin pending
        BY <1>4, <2>2 DEF IPC!Reply, RequestsOK, IPC!PendingIffWaiting, IPC!OwnAnswer
    <2> QED
        BY <2>1, <2>2
<1>5. ASSUME NEW r \in Requests, IPC!Timeout(r) PROVE RequestsOK'
    <2>1. /\ request' \in [Requests -> RequestRecords] /\ request'[r].pc = "timeout"
          /\ \A q \in Requests \ {r} : request'[q] = request[q]
        BY <1>5 DEF IPC!Timeout, RequestsOK, RequestRecords
    <2>2. received' = received /\ pending' = pending \ {r}
        BY <1>5 DEF IPC!Timeout
    <2> QED
        BY <2>1, <2>2 DEF RequestsOK, IPC!PendingIffWaiting, IPC!OwnAnswer
<1> QED
    BY <1>1, <1>2, <1>3, <1>4, <1>5

LEMMA ListenKeeps ==
    ASSUME ListenTypes, SetsBelong, OwnHandlers,
           NEW l \in Listens, NEW p \in Processes, NEW h \in Handlers, IPC!Listen(l, p, h)
    PROVE  ListenTypes' /\ SetsBelong' /\ OwnHandlers'
<1> DEFINE set == IF handlers[p] = None THEN l ELSE handlers[p]
           new == [p |-> p, h |-> h, set |-> set, subscribed |-> TRUE]
<1>0. /\ None \notin Processes \cup Listens /\ listen[l].p = None /\ set \in Listens
      /\ handlers[p] \in Listens \cup {None}
    BY DEF IPC!ConstantsOK, IPC!Listen, ListenTypes
<1>1. /\ handlers' = [handlers EXCEPT ![p] = set]
      /\ members' = [members EXCEPT ![set] = @ \cup {h}]
      /\ listen' = [listen EXCEPT ![l] = new]
      /\ repeated' = IF h \in members[set] THEN repeated \cup {p} ELSE repeated
    BY DEF IPC!Listen
<1>s. handlers[p] # None => set = handlers[p] /\ set # l /\ listen[set].p = p
    BY <1>0 DEF SetsBelong
<1>t. handlers[p] = None => set = l
    OBVIOUS
<1>n. /\ new \in ListenRecords /\ new.p = p /\ new.h = h /\ new.set = set
      /\ new.subscribed
    BY <1>0 DEF ListenRecords
<1> HIDE DEF set, new
<1>2. /\ handlers'[p] = set /\ \A q \in Processes \ {p} : handlers'[q] = handlers[q]
      /\ members'[set] = members[set] \cup {h}
      /\ \A k \in Listens \ {set} : members'[k] = members[k]
      /\ listen'[l] = new /\ \A k \in Listens \ {l} : listen'[k] = listen[k]
      /\ listen' \in [Listens -> ListenRecords]
      /\ handlers' \in [Processes -> Listens \cup {None}]
      /\ members' \in [Listens -> SUBSET Handlers]
    BY <1>0, <1>1, <1>n DEF ListenTypes
<1>3. ListenTypes'
    BY <1>2 DEF ListenTypes
<1>4. listen'[set].p = p
    BY <1>0, <1>2, <1>n, <1>s, <1>t
<1>5. ASSUME NEW k \in Listens, listen'[k].p # None
      PROVE  /\ listen'[k].set \in Listens /\ listen'[k].h \in Handlers
             /\ listen'[listen'[k].set].p = listen'[k].p
    <2>1. CASE k = l
        BY <1>0, <1>2, <1>4, <1>n, <2>1
    <2>2. CASE k # l
        <3>1. listen'[k] = listen[k] /\ listen[k].set \in Listens /\ listen[k].h \in Handlers
              /\ listen[listen[k].set].p = listen[k].p
            BY <1>2, <1>5, <2>2 DEF SetsBelong
        <3>2. listen[k].set # l
            BY <1>0, <1>5, <3>1
        <3> QED
            BY <1>2, <3>1, <3>2
    <2> QED
        BY <2>1, <2>2
<1>6. ASSUME NEW q \in Processes, handlers'[q] # None
      PROVE  listen'[handlers'[q]].p = q /\ members'[handlers'[q]] # {}
    <2>1. CASE q = p
        BY <1>0, <1>2, <1>4, <2>1
    <2>2. CASE q # p
        <3>1. handlers'[q] = handlers[q] /\ handlers[q] \in Listens
              /\ listen[handlers[q]].p = q /\ members[handlers[q]] # {}
            BY <1>2, <1>6, <2>2 DEF SetsBelong, ListenTypes
        <3>2. handlers[q] # l /\ handlers[q] # set
            <4>1. handlers[q] # l
                BY <1>0, <3>1
            <4>2. handlers[p] # None => handlers[q] # set
                BY <1>s, <2>2, <3>1
            <4> QED
                BY <4>1, <4>2, <1>t
        <3> QED
            BY <1>2, <3>1, <3>2
    <2> QED
        BY <2>1, <2>2
<1>7. SetsBelong'
    BY <1>5, <1>6 DEF SetsBelong
<1>8. ASSUME NEW k \in Listens, listen'[k].subscribed, listen'[k].p # None,
             listen'[k].p \notin repeated'
      PROVE  /\ handlers'[listen'[k].p] = listen'[k].set
             /\ listen'[k].h \in members'[listen'[k].set]
             /\ \A j \in Listens \ {k} :
                    listen'[j].subscribed /\ listen'[j].p = listen'[k].p
                        => listen'[j].h # listen'[k].h
    <2>0. listen'[k].p \notin repeated
        BY <1>1, <1>8
    <2>1. ASSUME NEW j \in Listens \ {l}, listen[j].subscribed, listen[j].p = p,
                 p \notin repeated'
          PROVE  /\ handlers[p] = listen[j].set /\ set = listen[j].set
                 /\ listen[j].h \in members[set] /\ listen[j].h # h
        <3>1. p \notin repeated /\ h \notin members[set]
            BY <1>1, <2>1
        <3>2. handlers[p] = listen[j].set /\ listen[j].h \in members[listen[j].set]
              /\ listen[j].set \in Listens
            BY <1>0, <2>1, <3>1 DEF OwnHandlers, SetsBelong
        <3>3. handlers[p] # None
            BY <1>0, <3>2
        <3> QED
            BY <1>s, <3>1, <3>2, <3>3
    <2>2. CASE k = l
        <3>1. listen'[k] = new /\ p \notin repeated'
            BY <1>2, <1>8, <1>n, <2>2
        <3>2. ASSUME NEW j \in Listens \ {l}, listen'[j].subscribed, listen'[j].p = p
              PROVE  listen'[j].h # h
            BY <1>2, <2>1, <3>1, <3>2
        <3> QED
            BY <1>2, <1>n, <2>2, <3>1, <3>2
    <2>3. CASE k # l
        <3>1. listen'[k] = listen[k] /\ listen[k].p \in Processes
            BY <1>2, <1>8, <2>3 DEF ListenTypes, ListenRecords
        <3>2. /\ handlers[listen[k].p] = listen[k].set
              /\ listen[k].h \in members[listen[k].set]
              /\ listen[k].set \in Listens
              /\ \A j \in Listens \ {k} : listen[j].subscribed /\ listen[j].p = listen[k].p
                        => listen[j].h # listen[k].h
            BY <1>8, <2>0, <3>1 DEF OwnHandlers, SetsBelong
        <3>3. listen[k].h \in members'[listen[k].set]
            BY <1>0, <1>2, <3>2
        <3>4. CASE listen[k].p = p
            <4>1. handlers[p] = listen[k].set /\ set = listen[k].set /\ listen[k].h # h
                BY <1>8, <2>1, <2>3, <3>1, <3>4
            <4>2. handlers'[listen[k].p] = listen[k].set
                BY <1>2, <3>4, <4>1
            <4>3. \A j \in Listens \ {k} : listen'[j].subscribed /\ listen'[j].p = p
                        => listen'[j].h # listen[k].h
                BY <1>2, <1>n, <3>2, <3>4, <4>1
            <4> QED
                BY <3>1, <3>3, <3>4, <4>2, <4>3
        <3>5. CASE listen[k].p # p
            <4>1. handlers'[listen[k].p] = listen[k].set
                BY <1>2, <3>1, <3>2, <3>5
            <4>2. \A j \in Listens \ {k} :
                        listen'[j].subscribed /\ listen'[j].p = listen[k].p
                            => listen'[j].h # listen[k].h
                BY <1>2, <1>n, <3>2, <3>5
            <4> QED
                BY <3>1, <3>3, <4>1, <4>2
        <3> QED
            BY <3>4, <3>5
    <2> QED
        BY <2>2, <2>3
<1>9. OwnHandlers'
    BY <1>8 DEF OwnHandlers
<1> QED
    BY <1>3, <1>7, <1>9

LEMMA UnsubscribeKeeps ==
    ASSUME ListenTypes, SetsBelong, OwnHandlers, NEW l \in Listens, IPC!Unsubscribe(l)
    PROVE  ListenTypes' /\ SetsBelong' /\ OwnHandlers'
<1> DEFINE p == listen[l].p
           set == listen[l].set
           left == members[set] \ {listen[l].h}
<1>0. /\ p \in Processes /\ set \in Listens /\ listen[set].p = p /\ p # None
      /\ None \notin Listens
    BY DEF IPC!Unsubscribe, ListenTypes, ListenRecords, SetsBelong, IPC!ConstantsOK
<1>1. /\ members' = [members EXCEPT ![set] = left]
      /\ handlers' = IF left = {} THEN [handlers EXCEPT ![p] = None] ELSE handlers
      /\ repeated' = IF listen[l].subscribed THEN repeated ELSE repeated \cup {p}
      /\ listen' = [listen EXCEPT ![l].subscribed = FALSE]
    BY DEF IPC!Unsubscribe
<1>l. left \in SUBSET Handlers
    BY <1>0 DEF ListenTypes
<1> HIDE DEF left
<1>2. /\ members' \in [Listens -> SUBSET Handlers]
      /\ members'[set] = left
      /\ \A k \in Listens \ {set} : members'[k] = members[k]
    BY <1>0, <1>1, <1>l DEF ListenTypes
<1>3. /\ handlers' \in [Processes -> Listens \cup {None}]
      /\ left = {} => handlers'[p] = None
      /\ left # {} => handlers'[p] = handlers[p]
      /\ \A q \in Processes \ {p} : handlers'[q] = handlers[q]
    BY <1>0, <1>1 DEF ListenTypes
<1>4. /\ listen' \in [Listens -> ListenRecords]
      /\ ~ listen'[l].subscribed
      /\ \A k \in Listens : /\ listen'[k].p = listen[k].p /\ listen'[k].h = listen[k].h
                            /\ listen'[k].set = listen[k].set
      /\ \A k \in Listens \ {l} : listen'[k].subscribed = listen[k].subscribed
    BY <1>1 DEF ListenTypes, ListenRecords
<1>5. SetsBelong'
    <2>1. ASSUME NEW k \in Listens, listen'[k].p # None
          PROVE  /\ listen'[k].set \in Listens /\ listen'[k].h \in Handlers
                 /\ listen'[listen'[k].set].p = listen'[k].p
        BY <1>4, <2>1 DEF SetsBelong
    <2>2. ASSUME NEW q \in Processes, handlers'[q] # None
          PROVE  listen'[handlers'[q]].p = q /\ members'[handlers'[q]] # {}
        <3>1. handlers'[q] = handlers[q] /\ handlers[q] \in Listens
              /\ listen[handlers[q]].p = q /\ members[handlers[q]] # {}
            BY <1>3, <2>2 DEF SetsBelong, ListenTypes
        <3>2. handlers[q] = set => left # {}
            BY <1>0, <1>3, <2>2, <3>1
        <3> QED
            BY <1>2, <1>4, <3>1, <3>2
    <2> QED
        BY <2>1, <2>2 DEF SetsBelong
<1>6. ASSUME NEW k \in Listens, listen'[k].subscribed, listen'[k].p # None,
             listen'[k].p \notin repeated'
      PROVE  /\ handlers'[listen'[k].p] = listen'[k].set
             /\ listen'[k].h \in members'[listen'[k].set]
             /\ \A j \in Listens \ {k} :
                    listen'[j].subscribed /\ listen'[j].p = listen'[k].p
                        => listen'[j].h # listen'[k].h
    <2>1. k # l /\ listen[k].subscribed /\ listen[k].p # None /\ listen[k].p \notin repeated
          /\ listen[k].p \in Processes
        BY <1>1, <1>4, <1>6 DEF ListenTypes, ListenRecords
    <2>2. /\ handlers[listen[k].p] = listen[k].set
          /\ listen[k].h \in members[listen[k].set]
          /\ listen[k].set \in Listens /\ listen[listen[k].set].p = listen[k].p
          /\ \A j \in Listens \ {k} : listen[j].subscribed /\ listen[j].p = listen[k].p
                    => listen[j].h # listen[k].h
        BY <2>1 DEF OwnHandlers, SetsBelong
    <2>3. \A j \in Listens \ {k} :
                    listen'[j].subscribed /\ listen'[j].p = listen'[k].p
                        => listen'[j].h # listen'[k].h
        BY <1>4, <2>2
    <2>4. CASE listen[k].p = p
        <3>1. listen[l].subscribed
            BY <1>0, <1>1, <1>4, <1>6, <2>4
        <3>2. handlers[p] = set /\ listen[k].set = set /\ listen[l].h # listen[k].h
            BY <1>0, <2>1, <2>2, <2>4, <3>1 DEF OwnHandlers
        <3>3. listen[k].h \in left
            BY <2>2, <3>2 DEF left
        <3>4. handlers'[p] = set
            BY <1>3, <3>2, <3>3
        <3> QED
            BY <1>2, <1>4, <2>3, <2>4, <3>2, <3>3, <3>4
    <2>5. CASE listen[k].p # p
        <3>1. listen[k].set # set
            BY <1>0, <2>2, <2>5
        <3>2. handlers'[listen[k].p] = listen[k].set
            BY <1>3, <2>1, <2>2, <2>5
        <3>3. listen[k].h \in members'[listen[k].set]
            BY <1>2, <2>2, <3>1
        <3> QED
            BY <1>4, <2>3, <3>2, <3>3
    <2> QED
        BY <2>4, <2>5
<1>7. OwnHandlers'
    BY <1>6 DEF OwnHandlers
<1>8. ListenTypes'
    BY <1>2, <1>3, <1>4 DEF ListenTypes
<1> QED
    BY <1>5, <1>7, <1>8

LEMMA IPCStep == IPCInv /\ [IPC!Next]_(IPC!vars) => IPCInv'
<1> SUFFICES ASSUME IPCInv, [IPC!Next]_(IPC!vars) PROVE IPCInv'
    OBVIOUS
<1>1. ASSUME UNCHANGED <<request, received, pending>> PROVE RequestsOK'
    BY <1>1 DEF IPCInv, RequestsOK, IPC!PendingIffWaiting, IPC!OwnAnswer
<1>2. ASSUME UNCHANGED <<listen, handlers, members, repeated>>
      PROVE  ListenTypes' /\ SetsBelong' /\ OwnHandlers'
    BY <1>2 DEF IPCInv, ListenTypes, SetsBelong, OwnHandlers
<1>3. CASE UNCHANGED IPC!vars
    BY <1>1, <1>2, <1>3 DEF IPC!vars, IPC!ipcVars, IPC!listenVars, IPCInv
<1>4. CASE \E l \in Listens, p \in Processes, h \in Handlers : IPC!Listen(l, p, h)
    <2>1. UNCHANGED <<request, received, pending>>
        BY <1>4 DEF IPC!Listen, IPC!ipcVars
    <2> QED
        BY <1>1, <1>4, <2>1, ListenKeeps DEF IPCInv
<1>5. CASE \E l \in Listens : IPC!Unsubscribe(l)
    <2>1. UNCHANGED <<request, received, pending>>
        BY <1>5 DEF IPC!Unsubscribe, IPC!ipcVars
    <2> QED
        BY <1>1, <1>5, <2>1, UnsubscribeKeeps DEF IPCInv
<1>6. CASE \E r \in Requests :
              \/ \E p \in Processes : IPC!SendAndWaitReply(r, p)
              \/ IPC!AwaitReply(r) \/ IPC!PublishRejects(r) \/ IPC!Reply(r) \/ IPC!Timeout(r)
    <2>1. UNCHANGED <<listen, handlers, members, repeated>>
        BY <1>6 DEF IPC!SendAndWaitReply, IPC!AwaitReply, IPC!PublishRejects, IPC!Reply,
                    IPC!Timeout, IPC!listenVars
    <2> QED
        BY <1>2, <1>6, <2>1, RequestStep DEF IPCInv
<1> QED
    BY <1>3, <1>4, <1>5, <1>6 DEF IPC!Next

LEMMA IPCInvariance == IPC!Spec => []IPCInv
<1>1. ASSUME IPC!Init PROVE IPCInv
    <2>1. RequestsOK
        BY <1>1 DEF IPC!Init, RequestsOK, RequestRecords, IPC!PendingIffWaiting, IPC!OwnAnswer
    <2>2. ListenTypes /\ SetsBelong /\ OwnHandlers
        BY <1>1 DEF IPC!Init, ListenTypes, ListenRecords, SetsBelong, OwnHandlers
    <2> QED
        BY <2>1, <2>2 DEF IPCInv
<1> QED
    BY <1>1, IPCStep, PTL DEF IPC!Spec

LEMMA IPCInvGives ==
    ASSUME IPCInv
    PROVE  /\ IPC!TypeOK /\ IPC!PendingIffWaiting /\ IPC!OwnAnswer
           /\ IPC!UnlistedNeedsRepeat
<1>1. IPC!TypeOK
    BY DEF IPCInv, RequestsOK, RequestRecords, ListenTypes, SetsBelong, IPC!TypeOK
<1>2. IPC!UnlistedNeedsRepeat
    <2> SUFFICES ASSUME NEW p \in Processes, NEW l \in Listens, listen[l].p = p,
                        listen[l].subscribed, p \notin repeated
                 PROVE  handlers[p] # None
        BY DEF IPC!UnlistedNeedsRepeat, IPC!Subscribed
    <2>1. p # None /\ None \notin Listens
        BY DEF IPC!ConstantsOK
    <2> QED
        BY <2>1 DEF IPCInv, SetsBelong, OwnHandlers
<1> QED
    BY <1>1, <1>2 DEF IPCInv, RequestsOK

-----------------------------------------------------------------------------
(* The three together *)

LEMMA EachGoesItsWay == MCSpec => Spec /\ Guard!Spec /\ IPC!Spec
<1>1. MCInit => Init /\ Guard!Init /\ IPC!Init
    BY DEF MCInit
<1>2. [MCNext]_allVars => [Next]_vars
    BY DEF MCNext, Persistence, Guarding, Asking, allVars
<1>3. [MCNext]_allVars => [Guard!Next]_(Guard!vars)
    BY DEF MCNext, Persistence, Guarding, Asking, allVars, guardVars, Guard!vars
<1>4. [MCNext]_allVars => [IPC!Next]_(IPC!vars)
    BY DEF MCNext, Persistence, Guarding, Asking, allVars, busVars, IPC!vars,
           IPC!ipcVars, IPC!listenVars
<1> QED
    BY <1>1, <1>2, <1>3, <1>4, PTL DEF MCSpec, Spec, Guard!Spec, IPC!Spec

\* An event on its way is stored once at most and given up for a cause only; none of
\* a workspace blocked all along is delivered; and a request gets its own answer and
\* leaves no entry behind, whatever fails and however the calls interleave.
THEOREM DeliveryKept == MCSpec => []DeliveryInv
<1>1. IPCInv => /\ IPC!TypeOK /\ IPC!PendingIffWaiting /\ IPC!OwnAnswer
                /\ IPC!UnlistedNeedsRepeat
    BY IPCInvGives
<1>2. GuardInv => Guard!TypeOK /\ Guard!BlockHolds
    BY GuardInvGives
<1> QED
    BY <1>1, <1>2, EachGoesItsWay, TypeCorrect, NothingStoredTwice, NoRejectionInVain,
       GuardInvariance, IPCInvariance, PTL DEF DeliveryInv

\* An event is delivered only after each policy registered throughout has been asked,
\* although registering sorts the array the loop runs over.
THEOREM PoliciesConsulted == MCSpec => []EveryPolicyConsulted
<1>1. GuardInv => EveryPolicyConsulted
    BY GuardInvGives DEF EveryPolicyConsulted
<1> QED
    BY <1>1, EachGoesItsWay, GuardInvariance, PTL

=============================================================================
