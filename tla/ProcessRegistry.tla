-------------------------- MODULE ProcessRegistry --------------------------
(***************************************************************************)
(* What a process manager promises about its registry, whatever the        *)
(* interleaving: at most one process per key, a process object is admitted *)
(* once, under the key of the event that created it, and once it has left  *)
(* the registry it never comes back.                                       *)
(***************************************************************************)
CONSTANTS Keys, Procs, None

VARIABLES
    keyOf,   \* key a process object was admitted under, or None
    listed   \* process objects in the registry

vars == <<keyOf, listed>>

Init ==
    /\ keyOf = [p \in Procs |-> None]
    /\ listed = {}

Admit(p, k) ==
    /\ keyOf[p] = None
    /\ \A q \in listed : keyOf[q] # k
    /\ keyOf' = [keyOf EXCEPT ![p] = k]
    /\ listed' = listed \cup {p}

Retire(S) ==
    /\ listed' = listed \ S
    /\ UNCHANGED keyOf

Next ==
    \/ \E p \in Procs, k \in Keys : Admit(p, k)
    \/ \E S \in SUBSET listed : Retire(S)

Spec == Init /\ [][Next]_vars

=============================================================================
