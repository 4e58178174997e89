-------------------------- MODULE GovernanceConfig --------------------------
(***************************************************************************)
(* governance/config.ts: the governance knobs live in the memory of each   *)
(* isolate and in the shared KV store.  A setter writes KV, then an audit  *)
(* record, then memory; a load reads the keys one by one and applies each. *)
(* Every access to KV is awaited; calls of all isolates overlap, KV        *)
(* requests fail (applied or not), isolates restart.                       *)
(***************************************************************************)
EXTENDS Naturals, Sequences

CONSTANTS
    Isolates,
    Calls,     \* concurrent calls of the setters and of loadGovernanceConfig
    Absent     \* no entry in KV

\* The order in which a load reads the keys.
KeyOrder == <<"blocked", "window", "tool">>
Keys == {KeyOrder[n] : n \in DOMAIN KeyOrder}

\* No blocked workspace, no maintenance window, approval required; or otherwise.
Values == {"default", "changed"}
\* What the constants are assumed to be.
ConstantsOK == Absent \notin Values

VARIABLES
    kv,       \* the entries in KV
    mem,      \* the knobs of each isolate
    call,     \* progress of each call
    stored,   \* history: the values each key has had in KV
    settled   \* history: keys whose last call in the isolate ran undisturbed

vars == <<kv, mem, call, stored, settled>>

\* What the getters make of an entry.
Decoded(entry) == IF entry = Absent THEN "default" ELSE entry

\* What the setters make of a value: a window that is not set is deleted.
Encoded(k, v) == IF k = "window" /\ v = "default" THEN Absent ELSE v

Idle == [pc |-> "idle"]
Active(c) == call[c].pc # "idle"

\* The keys a call may still read or write.
Concerns(c, k) ==
    Active(c) /\ (IF call[c].kind = "set" THEN call[c].key = k ELSE TRUE)

Init ==
    /\ kv = [k \in Keys |-> Absent]
    /\ mem = [i \in Isolates |-> [k \in Keys |-> "default"]]
    /\ call = [c \in Calls |-> Idle]
    /\ stored = [k \in Keys |-> {"default"}]
    /\ settled = [i \in Isolates |-> Keys]

\* A call on the keys K begins: it disturbs those it overlaps, and if it writes,
\* the other isolates no longer know the value.
Begins(c, record, K, writes) ==
    /\ ~ Active(c)
    /\ LET met == {d \in Calls : \E k \in K : Concerns(d, k)}
       IN  call' = [d \in Calls |->
                IF d = c THEN [record EXCEPT !.alone = (met = {})]
                ELSE IF d \in met THEN [call[d] EXCEPT !.alone = FALSE] ELSE call[d]]
    /\ settled' = [i \in Isolates |->
                IF writes \/ i = record.isolate THEN settled[i] \ K ELSE settled[i]]
    /\ UNCHANGED <<kv, mem, stored>>

-----------------------------------------------------------------------------
(* setBlockedWorkspacesKV, setMaintenanceWindowKV,                         *)
(* setToolInvocationRequireApprovalKV                                      *)

BeginSet(c, i, k, v) ==
    Begins(c, [pc |-> "putting", kind |-> "set", isolate |-> i, key |-> k,
               value |-> v, alone |-> TRUE], {k}, TRUE)

\* Slip: clearing a key is not written.
PutInKV_NoDelete(c) ==
    /\ call[c].pc = "putting"
    /\ LET k == call[c].key
           entry == Encoded(k, call[c].value)
       IN  /\ kv' = [kv EXCEPT ![k] = IF entry = Absent THEN @ ELSE entry]
           /\ stored' = [stored EXCEPT ![k] = @ \cup {call[c].value}]
    /\ call' = [call EXCEPT ![c].pc = "auditing"]
    /\ UNCHANGED <<mem, settled>>

PutInKV(c) ==
    /\ call[c].pc = "putting"
    /\ LET k == call[c].key
       IN  /\ kv' = [kv EXCEPT ![k] = Encoded(k, call[c].value)]
           /\ stored' = [stored EXCEPT ![k] = @ \cup {call[c].value}]
    /\ call' = [call EXCEPT ![c].pc = "auditing"]
    /\ UNCHANGED <<mem, settled>>

\* KV rejects: the setter rejects, and the entry may or may not have been written.
PutFails(c) ==
    /\ call[c].pc = "putting"
    /\ LET k == call[c].key
       IN  \/ UNCHANGED <<kv, stored>>
           \/ /\ kv' = [kv EXCEPT ![k] = Encoded(k, call[c].value)]
              /\ stored' = [stored EXCEPT ![k] = @ \cup {call[c].value}]
    /\ call' = [call EXCEPT ![c] = Idle]
    /\ UNCHANGED <<mem, settled>>

\* The audit record is written, or not: the knob is set and the runtime notified.
ApplySet(c) ==
    /\ call[c].pc = "auditing"
    /\ LET i == call[c].isolate
           k == call[c].key
       IN  /\ mem' = [mem EXCEPT ![i][k] = call[c].value]
           /\ settled' = IF call[c].alone THEN [settled EXCEPT ![i] = @ \cup {k}] ELSE settled
    /\ call' = [call EXCEPT ![c] = Idle]
    /\ UNCHANGED <<kv, stored>>

-----------------------------------------------------------------------------
(* loadGovernanceConfig *)

BeginLoad(c, i) ==
    Begins(c, [pc |-> "reading", kind |-> "load", isolate |-> i, next |-> 1,
               got |-> Absent, alone |-> TRUE], Keys, FALSE)

ReadFromKV(c) ==
    /\ call[c].pc = "reading"
    /\ call' = [call EXCEPT ![c].pc = "read", ![c].got = kv[KeyOrder[call[c].next]]]
    /\ UNCHANGED <<kv, mem, stored, settled>>

\* An absent window is not applied.
Applies(k, entry) == k = "window" => entry # Absent

\* The key is applied, and the load goes on or reports that it is done.
ApplyRead(c) ==
    /\ call[c].pc = "read"
    /\ LET i == call[c].isolate
           k == KeyOrder[call[c].next]
           v == Decoded(call[c].got)
       IN  /\ mem' = IF Applies(k, call[c].got) THEN [mem EXCEPT ![i][k] = v] ELSE mem
           /\ settled' = IF call[c].alone /\ (k = "window" => v # "default")
                         THEN [settled EXCEPT ![i] = @ \cup {k}] ELSE settled
    /\ call' = IF call[c].next = Len(KeyOrder) THEN [call EXCEPT ![c] = Idle]
               ELSE [call EXCEPT ![c].pc = "reading", ![c].next = @ + 1]
    /\ UNCHANGED <<kv, stored>>

\* A read fails: the keys read so far stay applied.
ReadFails(c) ==
    /\ call[c].pc = "reading"
    /\ call' = [call EXCEPT ![c] = Idle]
    /\ UNCHANGED <<kv, mem, stored, settled>>

\* The isolate is evicted and starts again with the defaults of policies.ts.
Restart(i) ==
    /\ mem' = [mem EXCEPT ![i] = [k \in Keys |-> "default"]]
    /\ call' = [c \in Calls |-> IF Active(c) /\ call[c].isolate = i THEN Idle ELSE call[c]]
    /\ settled' = [settled EXCEPT ![i] = {}]
    /\ UNCHANGED <<kv, stored>>

Next ==
    \/ \E c \in Calls, i \in Isolates, k \in Keys, v \in Values : BeginSet(c, i, k, v)
    \/ \E c \in Calls, i \in Isolates : BeginLoad(c, i)
    \/ \E c \in Calls :
            \/ PutInKV(c) \/ PutFails(c) \/ ApplySet(c)
            \/ ReadFromKV(c) \/ ApplyRead(c) \/ ReadFails(c)
    \/ \E i \in Isolates : Restart(i)

Spec == Init /\ [][Next]_vars

-----------------------------------------------------------------------------
(* Properties *)

TypeOK ==
    /\ kv \in [Keys -> Values \cup {Absent}] /\ kv["window"] # "default"
    /\ mem \in [Isolates -> [Keys -> Values]]
    /\ \A c \in Calls : Active(c) =>
            /\ call[c].isolate \in Isolates
            /\ call[c].pc \in {"putting", "auditing", "reading", "read"}
            /\ call[c].kind = "load" => call[c].next \in DOMAIN KeyOrder

\* No isolate ever enforces a value that KV has not held: a setter whose write fails
\* leaves the knob alone, and a load invents nothing.
EnforcedWasStored ==
    \A i \in Isolates, k \in Keys : mem[i][k] \in stored[k]

\* When the last call on a key ran undisturbed in an isolate and succeeded, that
\* isolate enforces what KV holds, so a restart and a load bring it back.
UndisturbedAgree ==
    \A i \in Isolates : \A k \in settled[i] : mem[i][k] = Decoded(kv[k])

=============================================================================
