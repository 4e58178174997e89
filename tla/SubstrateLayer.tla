--------------------------- MODULE SubstrateLayer ---------------------------
(***************************************************************************)
(* substrate/index.ts: a key-value layer over Cloudflare KV and a Durable  *)
(* Object, with a bounded cache in the memory of each isolate.  Every      *)
(* request to a store is awaited, so calls of one layer overlap, and the   *)
(* layers of several isolates share the stores.  Both stores are bound.    *)
(***************************************************************************)
EXTENDS Naturals, FiniteSets

CONSTANTS
    Layers,        \* SubstrateLayer objects, one in each isolate
    Calls,         \* concurrent calls of their operations
    Keys,
    Values,
    Nil,           \* no value
    CacheMaxSize,
    Modify(_)      \* the modifier given to transaction

\* What the constants are assumed to be.
ConstantsOK ==
    /\ CacheMaxSize \in Nat \ {0}
    /\ Nil \notin Values
    /\ \A v \in Values \cup {Nil} : Modify(v) \in Values

VARIABLES
    kv,      \* Cloudflare KV
    dobj,    \* storage of the Durable Object
    cache,   \* localCache of each layer
    call,    \* progress of each call
    last     \* history: what the last undisturbed call on a key in a layer left

vars == <<kv, dobj, cache, call, last>>

Idle == [pc |-> "idle"]
Active(c) == call[c].pc # "idle"

\* One key of the cache: its value, and whether it has not expired.
Entry(v) == [v |-> v, live |-> TRUE]
Including(c, k, v) == [x \in DOMAIN c \cup {k} |-> IF x = k THEN Entry(v) ELSE c[x]]
Without(c, k) == [x \in DOMAIN c \ {k} |-> c[x]]
Hit(c, k) == k \in DOMAIN c /\ c[k].live

Unknown == [known |-> FALSE, v |-> Nil, mixed |-> FALSE]

Init ==
    /\ kv = [k \in Keys |-> Nil]
    /\ dobj = [k \in Keys |-> Nil]
    /\ cache = [l \in Layers |-> [k \in {} |-> Nil]]
    /\ call = [c \in Calls |-> Idle]
    /\ last = [l \in Layers |-> [k \in Keys |-> [Unknown EXCEPT !.known = TRUE]]]

-----------------------------------------------------------------------------
(* The cache *)

\* Entries expire at the time of their write plus a ttl of the caller's, so among
\* live entries any may be the oldest, but expired ones come first.
Oldest(c) ==
    LET expired == {k \in DOMAIN c : ~ c[k].live}
    IN  IF expired # {} THEN expired ELSE DOMAIN c

\* The caches that can result: a full one loses an entry, even if it has the key.
UpdateCache(c, k, v) ==
    {Including(d, k, v) :
        d \in IF Cardinality(DOMAIN c) >= CacheMaxSize
              THEN {Without(c, x) : x \in Oldest(c)} ELSE {c}}

Expire(l, k) ==
    /\ Hit(cache[l], k)
    /\ cache' = [cache EXCEPT ![l][k].live = FALSE]
    /\ UNCHANGED <<kv, dobj, call, last>>

\* shutdown
Shutdown(l) ==
    /\ cache' = [cache EXCEPT ![l] = [k \in {} |-> Nil]]
    /\ UNCHANGED <<kv, dobj, call, last>>

-----------------------------------------------------------------------------
(***************************************************************************)
(* Calls.  op: the operation, of which write and transaction also record   *)
(* durable; store: where the outstanding request goes; v: the value to     *)
(* write, or the response; alone: no other call on the key so far.         *)
(* Of a transaction, base is what its read should return, and sound says   *)
(* that it did, or that it failed.                                         *)
(***************************************************************************)
Mutates(op) == op \in {"write", "delete", "transaction"}

\* Calls on the same key disturb each other unless both only read.
Met(record) ==
    {d \in Calls : /\ Active(d) /\ call[d].k = record.k
                   /\ Mutates(call[d].op) \/ Mutates(record.op)}

Begins(c, record) ==
    /\ ~ Active(c)
    /\ call' = [d \in Calls |->
            IF d = c THEN [record EXCEPT !.alone = (Met(record) = {})]
            ELSE IF d \in Met(record) THEN [call[d] EXCEPT !.alone = FALSE] ELSE call[d]]
    /\ last' = IF Mutates(record.op)
               THEN [l \in Layers |-> [last[l] EXCEPT ![record.k] = Unknown]] ELSE last

Call(op, l, k) ==
    [pc |-> "request", op |-> op, l |-> l, k |-> k, store |-> "kv", v |-> Nil,
     durable |-> FALSE, base |-> Nil, sound |-> TRUE, alone |-> TRUE]

\* What a read that begins now, alone, returns.
Lookup(l, k) ==
    IF Hit(cache[l], k) THEN cache[l][k].v
    ELSE IF kv[k] # Nil THEN kv[k] ELSE dobj[k]

\* The store of a write, and what it leaves when nothing disturbed it; mixed: KV
\* holds another value of a key written to the Durable Object.
StoreOf(durable) == IF durable THEN "do" ELSE "kv"
Leaves(c, v) ==
    [known |-> TRUE, v |-> v,
     mixed |-> call[c].op # "delete" /\ call[c].durable /\ kv[call[c].k] # Nil]

Write(c, l, k, v, durable) ==
    /\ Begins(c, [Call("write", l, k) EXCEPT !.store = StoreOf(durable),
                                             !.v = v, !.durable = durable])
    /\ UNCHANGED <<kv, dobj, cache>>

\* A read, or the read of a transaction, that misses the cache; an expired entry
\* is dropped.
ReadMiss(c, op, l, k, durable) ==
    /\ ~ Hit(cache[l], k)
    /\ Begins(c, [Call(op, l, k) EXCEPT
                    !.durable = durable,
                    !.base = IF op = "transaction" THEN Lookup(l, k) ELSE Nil])
    /\ cache' = [cache EXCEPT ![l] = Without(@, k)]
    /\ UNCHANGED <<kv, dobj>>

\* A transaction whose read hits the cache goes on to its write; a read that hits
\* returns at once.
TransactionHit(c, l, k, durable) ==
    /\ Hit(cache[l], k)
    /\ LET v == cache[l][k].v
       IN  Begins(c, [Call("transaction", l, k) EXCEPT
                        !.pc = "writing", !.store = StoreOf(durable), !.durable = durable,
                        !.v = Modify(v)])
    /\ UNCHANGED <<kv, dobj, cache>>

Delete(c, l, k) ==
    /\ Begins(c, Call("delete", l, k))
    /\ cache' = [cache EXCEPT ![l] = Without(@, k)]
    /\ UNCHANGED <<kv, dobj>>

Exists(c, l, k) ==
    /\ ~ Hit(cache[l], k)
    /\ Begins(c, Call("exists", l, k))
    /\ cache' = [cache EXCEPT ![l] = Without(@, k)]
    /\ UNCHANGED <<kv, dobj>>

-----------------------------------------------------------------------------
(* Stores and continuations *)

Writing(c) == call[c].op = "write" \/ call[c].pc = "writing"
Stored(c) == IF call[c].store = "kv" THEN kv[call[c].k] ELSE dobj[call[c].k]

Put(c, v) ==
    IF call[c].store = "kv"
    THEN kv' = [kv EXCEPT ![call[c].k] = v] /\ UNCHANGED dobj
    ELSE dobj' = [dobj EXCEPT ![call[c].k] = v] /\ UNCHANGED kv

\* The store serves the request; the response is on its way.
Serve(c) ==
    /\ call[c].pc \in {"request", "writing"}
    /\ IF Writing(c) THEN
            /\ Put(c, call[c].v)
            /\ call' = [call EXCEPT ![c].pc = "written"]
       ELSE IF call[c].op = "delete" THEN
            /\ Put(c, Nil)
            /\ call' = [call EXCEPT ![c].pc = "deleted"]
       ELSE /\ UNCHANGED <<kv, dobj>>
            /\ call' = [call EXCEPT ![c].pc = "got", ![c].v = Stored(c)]
    /\ UNCHANGED <<cache, last>>

\* The call of the layer is over, undisturbed or not.
Ends(c, outcome) ==
    /\ call' = [call EXCEPT ![c] = Idle]
    /\ last' = IF call[c].alone THEN [last EXCEPT ![call[c].l][call[c].k] = outcome] ELSE last

Written(c) ==
    /\ call[c].pc = "written"
    /\ \E d \in UpdateCache(cache[call[c].l], call[c].k, call[c].v) :
            cache' = [cache EXCEPT ![call[c].l] = d]
    /\ Ends(c, Leaves(c, call[c].v))
    /\ UNCHANGED <<kv, dobj>>

\* Slip: delete stops after KV.
Deleted_KVOnly(c) ==
    /\ call[c].pc = "deleted"
    /\ Ends(c, Leaves(c, Nil))
    /\ UNCHANGED <<kv, dobj, cache>>

Deleted(c) ==
    /\ call[c].pc = "deleted"
    /\ IF call[c].store = "kv"
       THEN /\ call' = [call EXCEPT ![c].pc = "request", ![c].store = "do"]
            /\ UNCHANGED last
       ELSE Ends(c, Leaves(c, Nil))
    /\ UNCHANGED <<kv, dobj, cache>>

\* A read or a transaction has its value from a store, or from none: a read ends, a
\* transaction goes on to write.
ReadEnds(c, v, failed) ==
    IF call[c].op = "transaction"
    THEN /\ call' = [call EXCEPT ![c].pc = "writing", ![c].store = StoreOf(call[c].durable),
                                 ![c].v = Modify(v), ![c].base = Nil,
                                 ![c].sound = failed \/ v = call[c].base]
         /\ UNCHANGED last
    ELSE call' = [call EXCEPT ![c] = Idle] /\ UNCHANGED last

Got(c) ==
    /\ call[c].pc = "got" /\ call[c].op # "exists"
    /\ IF call[c].v # Nil THEN
            /\ \E d \in UpdateCache(cache[call[c].l], call[c].k, call[c].v) :
                    cache' = [cache EXCEPT ![call[c].l] = d]
            /\ ReadEnds(c, call[c].v, FALSE)
       ELSE IF call[c].store = "kv" THEN
            /\ call' = [call EXCEPT ![c].pc = "request", ![c].store = "do"]
            /\ UNCHANGED <<cache, last>>
       ELSE ReadEnds(c, Nil, FALSE) /\ UNCHANGED cache
    /\ UNCHANGED <<kv, dobj>>

\* exists asks KV only.
ExistsAnswers(c) ==
    /\ call[c].pc = "got" /\ call[c].op = "exists"
    /\ call' = [call EXCEPT ![c] = Idle]
    /\ UNCHANGED <<kv, dobj, cache, last>>

\* A store fails, before or after it has served the request.  A write is cached all
\* the same, a read has found nothing, a delete stops, exists says no.
Fails(c) ==
    /\ Active(c)
    /\ IF Writing(c) \/ call[c].pc = "written" THEN
            /\ \E d \in UpdateCache(cache[call[c].l], call[c].k, call[c].v) :
                    cache' = [cache EXCEPT ![call[c].l] = d]
            /\ call' = [call EXCEPT ![c] = Idle]
            /\ UNCHANGED last
       ELSE IF call[c].op = "delete" THEN
            call' = [call EXCEPT ![c] = Idle] /\ UNCHANGED <<cache, last>>
       ELSE ReadEnds(c, Nil, TRUE) /\ UNCHANGED cache
    /\ UNCHANGED <<kv, dobj>>

Next ==
    \/ \E l \in Layers, k \in Keys : Expire(l, k)
    \/ \E l \in Layers : Shutdown(l)
    \/ \E c \in Calls, l \in Layers, k \in Keys :
            \/ \E v \in Values, durable \in BOOLEAN : Write(c, l, k, v, durable)
            \/ \E durable \in BOOLEAN :
                    \/ ReadMiss(c, "transaction", l, k, durable)
                    \/ TransactionHit(c, l, k, durable)
            \/ ReadMiss(c, "read", l, k, FALSE)
            \/ Delete(c, l, k) \/ Exists(c, l, k)
    \/ \E c \in Calls :
            Serve(c) \/ Written(c) \/ Deleted(c) \/ Got(c) \/ ExistsAnswers(c) \/ Fails(c)

Spec == Init /\ [][Next]_vars

-----------------------------------------------------------------------------
(* Properties *)

TypeOK ==
    /\ kv \in [Keys -> Values \cup {Nil}] /\ dobj \in [Keys -> Values \cup {Nil}]
    /\ \A l \in Layers : \A k \in DOMAIN cache[l] : k \in Keys /\ cache[l][k].v \in Values
    /\ \A c \in Calls : Active(c) =>
            call[c].pc \in {"request", "writing", "got", "written", "deleted"}

\* The cache never outgrows its bound.
CacheBounded == \A l \in Layers : Cardinality(DOMAIN cache[l]) <= CacheMaxSize

\* A layer reads what its last call on the key left, a deletion included, if no
\* other call on the key, of any layer, overlapped or followed it and the key has
\* not been written to both stores: neither expiry nor eviction brings an older
\* value back.
ReadsLast ==
    \A l \in Layers, k \in Keys :
        last[l][k].known /\ ~ last[l][k].mixed => Lookup(l, k) = last[l][k].v

\* transaction reads and writes in separate requests, so it is no transaction: its
\* modifier may be applied to another value than the key had when it began.  That
\* takes a call that overlaps it or a read that failed, which counts as no value.
LostUpdateNeedsCause ==
    \A c \in Calls : Active(c) /\ call[c].alone => call[c].sound

=============================================================================
