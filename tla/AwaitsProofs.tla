---------------------------- MODULE AwaitsProofs ----------------------------
(***************************************************************************)
(* Proofs about what awaits while others overtake it, for any numbers of   *)
(* emissions, handlers, calls, isolates, layers and keys.                  *)
(*                                                                         *)
(* Event bus: a channel's handlers are distinct, so a handler that removes *)
(* itself is gone; the calls of a stage are all made when it begins.       *)
(*                                                                         *)
(* Configuration and layer: a call that is still alone on its keys has met *)
(* nobody who could change them, so what it has read or written is what    *)
(* the store holds; what is settled, or known, has no writer under way.    *)
(***************************************************************************)
EXTENDS MCAwaits, FiniteSetTheorems, TLAPS

-----------------------------------------------------------------------------
(* Lists of handlers *)

Distinct(q) == \A m, n \in DOMAIN q : q[m] = q[n] => m = n

LEMMA AppendFacts ==
    ASSUME NEW S, NEW q \in Seq(S), NEW x \in S
    PROVE  /\ Append(q, x) \in Seq(S)
           /\ DOMAIN q = 1 .. Len(q) /\ Len(q) \in Nat /\ DOMAIN Append(q, x) = 1 .. Len(q) + 1
           /\ Append(q, x)[Len(q) + 1] = x /\ \A k \in 1 .. Len(q) : Append(q, x)[k] = q[k]
    OBVIOUS

\* A function that was not subscribed is subscribed once.
LEMMA AppendDistinct ==
    ASSUME NEW S, NEW q \in Seq(S), Distinct(q), NEW x \in S, \A n \in DOMAIN q : q[n] # x
    PROVE  /\ Append(q, x) \in Seq(S) /\ Distinct(Append(q, x))
           /\ \A n \in DOMAIN Append(q, x) :
                Append(q, x)[n] = x \/ \E m \in DOMAIN q : Append(q, x)[n] = q[m]
<1> DEFINE r == Append(q, x)
           N == Len(q)
<1>1. /\ r \in Seq(S) /\ N \in Nat /\ DOMAIN q = 1 .. N /\ DOMAIN r = 1 .. N + 1
      /\ r[N + 1] = x /\ \A k \in 1 .. N : r[k] = q[k]
    BY AppendFacts
<1>2. \A k \in 1 .. N + 1 : k = N + 1 \/ k \in 1 .. N
    BY <1>1
<1> HIDE DEF r, N
<1>3. Distinct(r)
    BY <1>1, <1>2 DEF Distinct
<1> QED
    BY <1>1, <1>2, <1>3 DEF r

LEMMA RemoveAtFacts ==
    ASSUME NEW S, NEW q \in Seq(S), NEW i \in 1 .. Len(q)
    PROVE  /\ RemoveAt(q, i) \in Seq(S)
           /\ Len(RemoveAt(q, i)) = Len(q) - 1
           /\ \A j \in 1 .. Len(q) - 1 : RemoveAt(q, i)[j] = IF j < i THEN q[j] ELSE q[j + 1]
<1> DEFINE u == SubSeq(q, 1, i - 1)
           v == SubSeq(q, i + 1, Len(q))
<1>0. i \in Nat /\ Len(q) \in Nat
    OBVIOUS
<1>1. u \in Seq(S) /\ Len(u) = i - 1 /\ \A j \in 1 .. i - 1 : u[j] = q[j]
    OBVIOUS
<1>2. v \in Seq(S) /\ Len(v) = Len(q) - i /\ \A j \in 1 .. Len(q) - i : v[j] = q[i + j]
    OBVIOUS
<1>3. RemoveAt(q, i) = u \o v
    BY DEF RemoveAt
<1> HIDE DEF u, v
<1>4. /\ u \o v \in Seq(S) /\ Len(u \o v) = Len(u) + Len(v)
      /\ \A j \in 1 .. Len(u) : (u \o v)[j] = u[j]
      /\ \A j \in 1 .. Len(v) : (u \o v)[Len(u) + j] = v[j]
    <2>1. u \in Seq(S) /\ v \in Seq(S)
        BY <1>1, <1>2
    <2> QED
        BY <2>1
<1>5. Len(u \o v) = Len(q) - 1
    BY <1>0, <1>1, <1>2, <1>4
<1>6. ASSUME NEW j \in 1 .. Len(q) - 1, j < i PROVE (u \o v)[j] = q[j]
    <2>1. j \in 1 .. i - 1
        BY <1>0, <1>6
    <2> QED
        BY <1>1, <1>4, <2>1
<1>7. ASSUME NEW j \in 1 .. Len(q) - 1, ~ (j < i) PROVE (u \o v)[j] = q[j + 1]
    <2>1. PICK m : m = j - i + 1
        OBVIOUS
    <2>2. m \in 1 .. Len(q) - i /\ j = Len(u) + m /\ i + m = j + 1
        BY <1>0, <1>1, <1>7, <2>1
    <2>3. v[m] = q[i + m] /\ (u \o v)[Len(u) + m] = v[m]
        BY <1>2, <1>4, <2>2
    <2> QED
        BY <2>2, <2>3
<1> QED
    BY <1>3, <1>4, <1>5, <1>6, <1>7

\* A function that unsubscribes is gone, as it was there once.
LEMMA RemoveDistinct ==
    ASSUME NEW S, NEW q \in Seq(S), Distinct(q), NEW i \in DOMAIN q
    PROVE  /\ RemoveAt(q, i) \in Seq(S) /\ Distinct(RemoveAt(q, i))
           /\ \A n \in DOMAIN RemoveAt(q, i) :
                RemoveAt(q, i)[n] # q[i] /\ \E m \in DOMAIN q : RemoveAt(q, i)[n] = q[m]
<1> DEFINE r == RemoveAt(q, i)
           N == Len(q)
           old(j) == IF j < i THEN j ELSE j + 1
<1>1. N \in Nat /\ DOMAIN q = 1 .. N /\ i \in 1 .. N
    OBVIOUS
<1>2. /\ r \in Seq(S) /\ Len(r) = N - 1
      /\ \A j \in 1 .. N - 1 : r[j] = IF j < i THEN q[j] ELSE q[j + 1]
    BY <1>1, RemoveAtFacts
<1> HIDE DEF r
<1>3. DOMAIN r = 1 .. N - 1
    BY <1>2
<1>4. \A j \in 1 .. N - 1 : old(j) \in 1 .. N /\ old(j) # i /\ r[j] = q[old(j)]
    BY <1>1, <1>2
<1>5. \A j, k \in 1 .. N - 1 : old(j) = old(k) => j = k
    BY <1>1
<1> HIDE DEF N, old
<1>6. Distinct(r)
    BY <1>1, <1>3, <1>4, <1>5 DEF Distinct
<1>7. \A j \in DOMAIN r : r[j] # q[i] /\ \E m \in DOMAIN q : r[j] = q[m]
    BY <1>1, <1>3, <1>4 DEF Distinct
<1> QED
    BY <1>2, <1>6, <1>7 DEF r

-----------------------------------------------------------------------------
(* The event bus *)

Functions == Handlers \cup Once

EmissionRecord ==
    [pc : Stages, name : Names \cup {""}, persist : BOOLEAN, stable : SUBSET Functions]

\* What holds of one emission: it has called only the channels of the stages it has
\* been through; a stage past a wait has nothing at work; the handlers subscribed all
\* along were called when it began.
EmissionInv(e) ==
    /\ emission[e].pc # "idle" => emission[e].name \in Names
    /\ \A i \in Invoked(e) :
          /\ emission[e].pc # "idle"
          /\ emission[e].pc = "exact" => i.c = emission[e].name
          /\ emission[e].pc \in {"wildcard", "publish"} => i.c \in {emission[e].name, "*"}
    /\ emission[e].pc \in {"publish", "done"} => Pending(e) = {}
    /\ emission[e].pc \notin {"idle", "rejected"} =>
          \A h \in emission[e].stable :
              [e |-> e, c |-> emission[e].name, h |-> h] \in running \cup settled

BusInv ==
    /\ handlers \in [Channels -> Seq(Functions)]
    /\ \A c \in Channels : Distinct(handlers[c])
    /\ emission \in [Emissions -> EmissionRecord]
    /\ running \subseteq Invocations /\ settled \subseteq Invocations
    /\ running \cap settled = {}
    /\ \A e \in Emissions : EmissionInv(e)
    /\ OnceGone

LEMMA BusInvImplies == BusInv => TypeOK /\ EmitterWaits /\ AllHear /\ OnceGone
<1> SUFFICES ASSUME BusInv PROVE TypeOK /\ EmitterWaits /\ AllHear /\ OnceGone
    OBVIOUS
<1>1. TypeOK
    BY DEF BusInv, TypeOK, EmissionRecord, Functions, Distinct
<1>2. EmitterWaits /\ OnceGone
    BY DEF BusInv, EmitterWaits, EmissionInv
<1>3. AllHear
    <2> SUFFICES ASSUME NEW e \in Emissions, emission[e].pc = "done", NEW h \in emission[e].stable
                 PROVE  \E i \in Invoked(e) : i.c = emission[e].name /\ i.h = h
        BY DEF AllHear
    <2> DEFINE i == [e |-> e, c |-> emission[e].name, h |-> h]
    <2>1. i \in running \cup settled
        BY DEF BusInv, EmissionInv
    <2>2. i.e = e /\ i.c = emission[e].name /\ i.h = h
        OBVIOUS
    <2> QED
        BY <2>1, <2>2 DEF Invoked
<1> QED
    BY <1>1, <1>2, <1>3

LEMMA BusInit == Init => BusInv
<1> SUFFICES ASSUME Init PROVE BusInv
    OBVIOUS
<1>1. handlers \in [Channels -> Seq(Functions)] /\ \A c \in Channels : handlers[c] = <<>>
    BY DEF Init
<1>2. emission \in [Emissions -> EmissionRecord]
    BY DEF Init, NotEmitted, EmissionRecord, Stages
<1>3. \A e \in Emissions : EmissionInv(e)
    BY DEF Init, NotEmitted, EmissionInv, Invoked
<1> QED
    BY <1>1, <1>2, <1>3 DEF Init, BusInv, OnceGone, Distinct

\* Nothing is called and nothing settles: what remains to be seen of the handlers.
LEMMA SubscriptionsKeep ==
    ASSUME BusInv, UNCHANGED <<running, settled>>,
           handlers' \in [Channels -> Seq(Functions)],
           \A c \in Channels : Distinct(handlers'[c]),
           NEW H, \A i \in settled : i.h \in Once => i.h \notin H,
           \A c \in Channels : Subscribed(c)' \subseteq Subscribed(c) \cup H,
           emission' \in [Emissions -> EmissionRecord],
           \A e \in Emissions : /\ emission'[e].pc = emission[e].pc
                                /\ emission'[e].name = emission[e].name
                                /\ emission'[e].stable \subseteq emission[e].stable
    PROVE  BusInv'
<1>1. OnceGone'
    BY DEF BusInv, OnceGone, Invocations
<1>2. ASSUME NEW e \in Emissions PROVE EmissionInv(e)'
    BY <1>2 DEF BusInv, EmissionInv, Invoked, Pending
<1> QED
    BY <1>1, <1>2 DEF BusInv

LEMMA SubscribeKeeps ==
    ASSUME BusInv, NEW c \in Channels, NEW h \in Functions, h \notin Subscribed(c),
           \A i \in settled : i.h \in Once => i.h # h,
           handlers' = [handlers EXCEPT ![c] = Append(@, h)],
           UNCHANGED <<emission, running, settled>>
    PROVE  BusInv'
<1>1. PICK q : q = handlers[c]
    OBVIOUS
<1>2. q \in Seq(Functions) /\ Distinct(q) /\ \A n \in DOMAIN q : q[n] # h
    BY <1>1 DEF BusInv, Subscribed
<1>3. PICK r : r = Append(q, h)
    OBVIOUS
<1>4. /\ r \in Seq(Functions) /\ Distinct(r)
      /\ \A n \in DOMAIN r : r[n] = h \/ \E m \in DOMAIN q : r[n] = q[m]
    BY <1>2, <1>3, AppendDistinct
<1>5. handlers' = [handlers EXCEPT ![c] = r]
    BY <1>1, <1>3
<1>6. /\ handlers' \in [Channels -> Seq(Functions)] /\ \A d \in Channels : Distinct(handlers'[d])
      /\ handlers'[c] = r /\ \A d \in Channels \ {c} : handlers'[d] = handlers[d]
    BY <1>4, <1>5 DEF BusInv
<1>7. \A d \in Channels : Subscribed(d)' \subseteq Subscribed(d) \cup {h}
    BY <1>1, <1>4, <1>6 DEF Subscribed
<1>8. \A i \in settled : i.h \in Once => i.h \notin {h}
    OBVIOUS
<1> QED
    BY <1>6, <1>7, <1>8, SubscriptionsKeep DEF BusInv

\* off, of a plain handler or by a wrapper.
LEMMA UnsubscribeEffect ==
    ASSUME BusInv, NEW c \in Channels, NEW h, Unsubscribe(c, h)
    PROVE  /\ handlers' \in [Channels -> Seq(Functions)]
           /\ \A d \in Channels : Distinct(handlers'[d]) /\ Subscribed(d)' \subseteq Subscribed(d)
           /\ h \notin Subscribed(c)'
           /\ emission' \in [Emissions -> EmissionRecord]
           /\ \A e \in Emissions : /\ emission'[e].pc = emission[e].pc
                                   /\ emission'[e].name = emission[e].name
                                   /\ emission'[e].stable \subseteq emission[e].stable
<1>1. /\ emission' \in [Emissions -> EmissionRecord]
      /\ \A e \in Emissions : /\ emission'[e].pc = emission[e].pc
                              /\ emission'[e].name = emission[e].name
                              /\ emission'[e].stable \subseteq emission[e].stable
    <2>1. \A e \in Emissions : emission'[e] =
             IF emission[e].name = c THEN [emission[e] EXCEPT !.stable = @ \ {h}] ELSE emission[e]
        BY DEF Unsubscribe
    <2>2. ASSUME NEW e \in Emissions
          PROVE  /\ emission'[e] \in EmissionRecord
                 /\ emission'[e].pc = emission[e].pc
                 /\ emission'[e].name = emission[e].name
                 /\ emission'[e].stable \subseteq emission[e].stable
        <3>1. emission[e] \in EmissionRecord
            BY DEF BusInv
        <3> QED
            BY <2>1, <3>1 DEF EmissionRecord
    <2>3. emission' = [e \in Emissions |-> emission'[e]]
        BY DEF Unsubscribe
    <2> QED
        BY <2>2, <2>3
<1>2. CASE h \notin Subscribed(c) /\ UNCHANGED handlers
    BY <1>1, <1>2 DEF BusInv, Subscribed
<1>3. CASE \E n \in DOMAIN handlers[c] :
            handlers[c][n] = h /\ handlers' = [handlers EXCEPT ![c] = RemoveAt(@, n)]
    <2>1. PICK q : q = handlers[c]
        OBVIOUS
    <2>2. PICK n \in DOMAIN q : q[n] = h /\ handlers' = [handlers EXCEPT ![c] = RemoveAt(q, n)]
        BY <1>3, <2>1
    <2>3. q \in Seq(Functions) /\ Distinct(q)
        BY <2>1 DEF BusInv
    <2>4. PICK r : r = RemoveAt(q, n)
        OBVIOUS
    <2>5. /\ r \in Seq(Functions) /\ Distinct(r)
          /\ \A k \in DOMAIN r : r[k] # h /\ \E m \in DOMAIN q : r[k] = q[m]
        BY <2>2, <2>3, <2>4, RemoveDistinct
    <2>6. /\ handlers' \in [Channels -> Seq(Functions)] /\ \A d \in Channels : Distinct(handlers'[d])
          /\ handlers'[c] = r /\ \A d \in Channels \ {c} : handlers'[d] = handlers[d]
        BY <2>2, <2>4, <2>5 DEF BusInv
    <2>7. /\ \A d \in Channels : Subscribed(d)' \subseteq Subscribed(d)
          /\ h \notin Subscribed(c)'
        BY <2>1, <2>5, <2>6 DEF Subscribed
    <2> QED
        BY <1>1, <2>6, <2>7
<1> QED
    BY <1>2, <1>3 DEF Unsubscribe

LEMMA OffKeeps ==
    ASSUME BusInv, NEW c \in Channels, NEW h, Unsubscribe(c, h), UNCHANGED <<running, settled>>
    PROVE  BusInv'
<1>0. PICK none : none = {}
    OBVIOUS
<1>1. /\ \A i \in settled : i.h \in Once => i.h \notin none
      /\ \A d \in Channels : Subscribed(d)' \subseteq Subscribed(d) \cup none
    BY <1>0, UnsubscribeEffect
<1>2. /\ handlers' \in [Channels -> Seq(Functions)] /\ \A d \in Channels : Distinct(handlers'[d])
      /\ emission' \in [Emissions -> EmissionRecord]
      /\ \A e \in Emissions : /\ emission'[e].pc = emission[e].pc
                              /\ emission'[e].name = emission[e].name
                              /\ emission'[e].stable \subseteq emission[e].stable
    BY UnsubscribeEffect
<1> QED
    BY <1>1, <1>2, SubscriptionsKeep

LEMMA SettleKeeps ==
    ASSUME BusInv, NEW i \in running, Settle(i)
    PROVE  BusInv'
<1>1. /\ running' = running \ {i} /\ settled' = settled \cup {i}
      /\ i \in Invocations /\ i.c \in Channels
    BY DEF Settle, BusInv, Invocations
<1>2. /\ handlers' \in [Channels -> Seq(Functions)]
      /\ \A d \in Channels : Distinct(handlers'[d]) /\ Subscribed(d)' \subseteq Subscribed(d)
      /\ i.h \in Once => i.h \notin Subscribed(i.c)'
      /\ emission' \in [Emissions -> EmissionRecord]
      /\ \A e \in Emissions : /\ emission'[e].pc = emission[e].pc
                              /\ emission'[e].name = emission[e].name
                              /\ emission'[e].stable \subseteq emission[e].stable
    <2>1. CASE i.h \in Once
        BY <1>1, <2>1, UnsubscribeEffect DEF Settle
    <2>2. CASE i.h \notin Once
        BY <2>2 DEF Settle, BusInv, Subscribed
    <2> QED
        BY <2>1, <2>2
<1>3. /\ running' \subseteq Invocations /\ settled' \subseteq Invocations
      /\ running' \cap settled' = {} /\ running' \cup settled' = running \cup settled
    BY <1>1 DEF BusInv
<1>4. OnceGone'
    <2> SUFFICES ASSUME NEW j \in settled', j.h \in Once PROVE j.h \notin Subscribed(j.c)'
        BY DEF OnceGone
    <2>1. CASE j = i
        BY <1>2, <2>1
    <2>2. CASE j \in settled
        BY <1>2, <2>2 DEF BusInv, OnceGone, Invocations
    <2> QED
        BY <1>1, <2>1, <2>2
<1>5. ASSUME NEW e \in Emissions PROVE EmissionInv(e)'
    <2>1. Invoked(e)' = Invoked(e) /\ Pending(e)' \subseteq Pending(e)
        BY <1>1, <1>3 DEF Invoked, Pending
    <2>2. EmissionInv(e)
        BY DEF BusInv
    <2> QED
        BY <1>2, <1>3, <2>1, <2>2 DEF EmissionInv
<1> QED
    BY <1>2, <1>3, <1>4, <1>5 DEF BusInv

\* called are at work, thrown has settled at once, next records how the emission stands.
StageCalls(e, c, em, called, thrown, next) ==
    /\ \A i \in called \cup thrown : i.e = e /\ i.c = c
    /\ \A i \in thrown : i.h \notin Once
    /\ called \cap thrown = {}
    /\ running' = running \cup called /\ settled' = settled \cup thrown
    /\ emission' = [emission EXCEPT ![e] = next]
    /\ \/ next = [em EXCEPT !.pc = "rejected"]
       \/ next = em /\ \A h \in Subscribed(c) : [e |-> e, c |-> c, h |-> h] \in called

\* The calls of a stage: of the channel's handlers, the thrower, if any, has settled
\* at once and ends the emission.
LEMMA CallsEffect ==
    ASSUME BusInv, NEW e \in Emissions, NEW c \in Channels, NEW em \in EmissionRecord,
           CallHandlers(e, c, em)
    PROVE  \E called \in SUBSET Invocations, thrown \in SUBSET Invocations, next \in EmissionRecord :
              StageCalls(e, c, em, called, thrown, next)
<1>1. PICK p \in CallsMade(c) :
        LET made == {[e |-> e, c |-> c, h |-> handlers[c][n]] : n \in 1 .. p.n}
            threw == IF p.threw THEN {[e |-> e, c |-> c, h |-> handlers[c][p.n]]} ELSE {}
        IN  /\ running' = running \cup (made \ threw)
            /\ settled' = settled \cup threw
            /\ emission' = [emission EXCEPT ![e] =
                                IF p.threw THEN [em EXCEPT !.pc = "rejected"] ELSE em]
    BY DEF CallHandlers
<1> DEFINE made == {[e |-> e, c |-> c, h |-> handlers[c][n]] : n \in 1 .. p.n}
           threw == IF p.threw THEN {[e |-> e, c |-> c, h |-> handlers[c][p.n]]} ELSE {}
           called == made \ threw
           next == IF p.threw THEN [em EXCEPT !.pc = "rejected"] ELSE em
<1>2. PICK q : q = handlers[c]
    OBVIOUS
<1>3. q \in Seq(Functions) /\ DOMAIN q = 1 .. Len(q) /\ Len(q) \in Nat
    <2>1. q \in Seq(Functions)
        BY <1>2 DEF BusInv
    <2> QED
        BY <2>1
<1>4. /\ p.threw => p.n \in DOMAIN q /\ q[p.n] \in Throwers
      /\ ~ p.threw => p.n = Len(q)
    BY <1>1, <1>2 DEF CallsMade
<1>5. 1 .. p.n \subseteq DOMAIN q
    BY <1>3, <1>4
<1>6. \A n \in DOMAIN q : q[n] \in Functions
    BY <1>3
<1>7. made \in SUBSET Invocations /\ threw \in SUBSET Invocations
    BY <1>2, <1>4, <1>5, <1>6 DEF Invocations, Functions
<1>8. /\ \A i \in made \cup threw : i.e = e /\ i.c = c
      /\ \A i \in threw : i.h \notin Once
    BY <1>2, <1>4, HandlerKinds
<1>9. ~ p.threw => \A h \in Subscribed(c) : [e |-> e, c |-> c, h |-> h] \in called
    BY <1>2, <1>3, <1>4 DEF Subscribed
<1>10. next \in EmissionRecord
    BY DEF EmissionRecord, Stages
<1>11. /\ running' = running \cup called /\ settled' = settled \cup threw
       /\ emission' = [emission EXCEPT ![e] = next]
    BY <1>1
<1>12. called \in SUBSET Invocations /\ called \cap threw = {}
       /\ \A i \in called \cup threw : i.e = e /\ i.c = c
    BY <1>7, <1>8
<1>13. \/ next = [em EXCEPT !.pc = "rejected"]
       \/ next = em /\ \A h \in Subscribed(c) : [e |-> e, c |-> c, h |-> h] \in called
    BY <1>9
<1>14. StageCalls(e, c, em, called, threw, next)
    BY <1>8, <1>11, <1>12, <1>13 DEF StageCalls
<1>15. called \in SUBSET Invocations /\ threw \in SUBSET Invocations /\ next \in EmissionRecord
    BY <1>7, <1>10, <1>12
<1> HIDE DEF made, threw, called, next
<1> QED
    BY <1>14, <1>15

\* A stage that calls a channel for the first time keeps the invariant, if what it
\* records of the emission holds.
LEMMA StageKeeps ==
    ASSUME BusInv, NEW e \in Emissions, NEW c \in Channels, NEW em \in EmissionRecord,
           CallHandlers(e, c, em), UNCHANGED handlers,
           em.name \in Names, em.pc \in {"exact", "wildcard", "error"},
           \A i \in Invoked(e) : i.c # c,
           em.pc = "exact" => Invoked(e) = {} /\ c = em.name /\ em.stable \subseteq Subscribed(c),
           em.pc = "wildcard" => c = "*" /\ \A i \in Invoked(e) : i.c = em.name,
           em.pc # "exact" => \A h \in em.stable :
                                [e |-> e, c |-> em.name, h |-> h] \in running \cup settled
    PROVE  BusInv'
<1>0. PICK called \in SUBSET Invocations, thrown \in SUBSET Invocations, next \in EmissionRecord :
              StageCalls(e, c, em, called, thrown, next)
    BY CallsEffect
<1>1. /\ \A i \in called \cup thrown : i.e = e /\ i.c = c
      /\ \A i \in thrown : i.h \notin Once
      /\ called \cap thrown = {}
      /\ running' = running \cup called /\ settled' = settled \cup thrown
      /\ emission' = [emission EXCEPT ![e] = next]
      /\ \/ next = [em EXCEPT !.pc = "rejected"]
         \/ next = em /\ \A h \in Subscribed(c) : [e |-> e, c |-> c, h |-> h] \in called
    BY <1>0 DEF StageCalls
<1>2. (called \cup thrown) \cap (running \cup settled) = {}
    BY <1>1 DEF Invoked
<1>3. /\ running' \subseteq Invocations /\ settled' \subseteq Invocations
      /\ running' \cap settled' = {}
    BY <1>1, <1>2 DEF BusInv
<1>4. emission' \in [Emissions -> EmissionRecord] /\ emission'[e] = next
      /\ \A f \in Emissions \ {e} : emission'[f] = emission[f]
    BY <1>1 DEF BusInv
<1>5. OnceGone'
    BY <1>1 DEF BusInv, OnceGone, Subscribed
<1>6. ASSUME NEW f \in Emissions \ {e} PROVE EmissionInv(f)'
    <2>1. Invoked(f)' = Invoked(f) /\ Pending(f)' = Pending(f)
        BY <1>1 DEF Invoked, Pending
    <2>2. EmissionInv(f) /\ emission'[f] = emission[f]
        BY <1>4 DEF BusInv
    <2> QED
        BY <1>1, <2>1, <2>2 DEF EmissionInv
<1>7. EmissionInv(e)'
    <2>1. Invoked(e)' = Invoked(e) \cup called \cup thrown
        BY <1>1 DEF Invoked
    <2>2. next.name = em.name /\ next.stable = em.stable /\ next.pc \in {em.pc, "rejected"}
        BY <1>1 DEF EmissionRecord
    <2>3. /\ emission'[e].pc # "idle" /\ emission'[e].name \in Names
          /\ emission'[e].pc \notin {"publish", "done"}
        BY <1>4, <2>2
    <2>4. \A i \in Invoked(e)' :
              /\ emission'[e].pc = "exact" => i.c = emission'[e].name
              /\ emission'[e].pc \in {"wildcard", "publish"} => i.c \in {emission'[e].name, "*"}
        BY <1>1, <1>4, <2>1, <2>2
    <2>5. emission'[e].pc \notin {"idle", "rejected"} =>
              \A h \in emission'[e].stable :
                  [e |-> e, c |-> emission'[e].name, h |-> h] \in running' \cup settled'
        <3> SUFFICES ASSUME next.pc # "rejected", NEW h \in em.stable
                     PROVE  [e |-> e, c |-> em.name, h |-> h] \in running' \cup settled'
            BY <1>4, <2>2
        <3>1. next = em /\ \A g \in Subscribed(c) : [e |-> e, c |-> c, h |-> g] \in called
            BY <1>1 DEF EmissionRecord
        <3>2. CASE em.pc = "exact"
            BY <1>1, <3>1, <3>2
        <3>3. CASE em.pc # "exact"
            BY <1>1, <3>3
        <3> QED
            BY <3>2, <3>3
    <2> QED
        BY <2>3, <2>4, <2>5 DEF EmissionInv
<1> QED
    BY <1>3, <1>4, <1>5, <1>6, <1>7 DEF BusInv

\* An emission goes on without a call.
LEMMA MovesOnKeeps ==
    ASSUME BusInv, NEW e \in Emissions, NEW pc \in {"publish", "done"},
           emission' = [emission EXCEPT ![e].pc = pc], Pending(e) = {},
           emission[e].pc \in {"wildcard", "publish", "error"},
           pc = "publish" => emission[e].pc = "wildcard",
           UNCHANGED <<handlers, running, settled>>
    PROVE  BusInv'
<1>1. PICK next : next = [emission[e] EXCEPT !.pc = pc]
    OBVIOUS
<1>2. emission[e] \in EmissionRecord
    BY DEF BusInv
<1>3. /\ next \in EmissionRecord /\ next.pc = pc
      /\ next.name = emission[e].name /\ next.stable = emission[e].stable
    BY <1>1, <1>2 DEF EmissionRecord, Stages
<1>4. /\ emission' \in [Emissions -> EmissionRecord] /\ emission'[e] = next
      /\ \A f \in Emissions \ {e} : emission'[f] = emission[f]
    BY <1>1, <1>3 DEF BusInv
<1>5. ASSUME NEW f \in Emissions PROVE EmissionInv(f)'
    <2>1. Invoked(f)' = Invoked(f) /\ Pending(f)' = Pending(f) /\ EmissionInv(f)
        BY DEF Invoked, Pending, BusInv
    <2>2. CASE f # e
        BY <1>4, <2>1, <2>2 DEF EmissionInv
    <2>3. CASE f = e
        BY <1>3, <1>4, <2>1, <2>3 DEF EmissionInv
    <2> QED
        BY <2>2, <2>3
<1>6. OnceGone'
    BY DEF BusInv, OnceGone, Subscribed
<1> QED
    BY <1>4, <1>5, <1>6 DEF BusInv

LEMMA BusSteps == BusInv /\ [Next]_vars => BusInv'
<1> SUFFICES ASSUME BusInv, [Next]_vars PROVE BusInv'
    OBVIOUS
<1>1. CASE \E c \in Channels, h \in Handlers : On(c, h)
    <2>1. PICK c \in Channels, h \in Handlers : On(c, h)
        BY <1>1
    <2>2. \A i \in settled : i.h \in Once => i.h # h
        BY HandlerKinds
    <2> QED
        BY <2>1, <2>2, SubscribeKeeps DEF On, Functions
<1>2. CASE \E c \in Channels, h \in Handlers : Off(c, h)
    BY <1>2, OffKeeps DEF Off
<1>3. CASE \E c \in Channels, h \in Once : SubscribeOnce(c, h)
    BY <1>3, SubscribeKeeps DEF SubscribeOnce, Functions
<1>4. CASE \E attached \in BOOLEAN : AttachPublisher(attached)
    <2>1. UNCHANGED <<handlers, emission, running, settled>>
        BY <1>4 DEF AttachPublisher
    <2> QED
        BY <2>1 DEF BusInv, EmissionInv, Invoked, Pending, OnceGone, Subscribed
<1>5. CASE \E e \in Emissions, name \in Names, persist \in BOOLEAN : Emit(e, name, persist)
    <2>1. PICK e \in Emissions, name \in Names, persist \in BOOLEAN : Emit(e, name, persist)
        BY <1>5
    <2>2. PICK em : em = [pc |-> "exact", name |-> name, persist |-> persist,
                          stable |-> Subscribed(name)]
        OBVIOUS
    <2>3. name \in Channels /\ Subscribed(name) \subseteq Functions
        <3>1. name \in Channels
            BY DEF Channels
        <3>2. handlers[name] \in Seq(Functions)
            BY <3>1 DEF BusInv
        <3> QED
            BY <3>1, <3>2 DEF Subscribed
    <2>4. em \in EmissionRecord /\ em.pc = "exact" /\ em.name = name /\ em.stable = Subscribed(name)
        BY <2>2, <2>3 DEF EmissionRecord, Stages
    <2>5. emission[e].pc = "idle" /\ CallHandlers(e, name, em) /\ UNCHANGED handlers
        BY <2>1, <2>2 DEF Emit
    <2>6. Invoked(e) = {}
        BY <2>5 DEF BusInv, EmissionInv
    <2> QED
        BY <2>3, <2>4, <2>5, <2>6, StageKeeps
<1>6. CASE \E i \in running : Settle(i)
    BY <1>6, SettleKeeps
<1>7. CASE \E e \in Emissions : DeliverWildcard(e)
    <2>1. PICK e \in Emissions : DeliverWildcard(e)
        BY <1>7
    <2>2. PICK em : em = [emission[e] EXCEPT !.pc = "wildcard"]
        OBVIOUS
    <2>3. /\ emission[e] \in EmissionRecord /\ EmissionInv(e) /\ emission[e].pc = "exact"
          /\ CallHandlers(e, "*", em) /\ UNCHANGED handlers
        BY <2>1, <2>2 DEF DeliverWildcard, BusInv
    <2>4. /\ em \in EmissionRecord /\ em.pc = "wildcard"
          /\ em.name = emission[e].name /\ em.stable = emission[e].stable
        BY <2>2, <2>3 DEF EmissionRecord, Stages
    <2>5. /\ em.name \in Names /\ \A i \in Invoked(e) : i.c = em.name
          /\ \A h \in em.stable : [e |-> e, c |-> em.name, h |-> h] \in running \cup settled
        BY <2>3, <2>4 DEF EmissionInv
    <2>6. "*" \in Channels /\ em.name # "*"
        BY <2>5, OwnNames DEF Channels
    <2> QED
        BY <2>3, <2>4, <2>5, <2>6, StageKeeps
<1>8. CASE \E e \in Emissions : Persist(e)
    <2>1. PICK e \in Emissions : Persist(e)
        BY <1>8
    <2>2. PICK pc \in {"publish", "done"} : emission' = [emission EXCEPT ![e].pc = pc]
        BY <2>1 DEF Persist
    <2> QED
        BY <2>1, <2>2, MovesOnKeeps DEF Persist
<1>9. CASE \E e \in Emissions : Published(e)
    <2>1. PICK e \in Emissions : Published(e)
        BY <1>9
    <2>2. Pending(e) = {}
        BY <2>1 DEF Published, BusInv, EmissionInv
    <2> QED
        BY <2>1, <2>2, MovesOnKeeps DEF Published
<1>10. CASE \E e \in Emissions : PublishFailed(e)
    <2>1. PICK e \in Emissions : PublishFailed(e)
        BY <1>10
    <2>2. PICK em : em = [emission[e] EXCEPT !.pc = "error"]
        OBVIOUS
    <2>3. /\ emission[e] \in EmissionRecord /\ EmissionInv(e) /\ emission[e].pc = "publish"
          /\ CallHandlers(e, "eventbus.error", em) /\ UNCHANGED handlers
        BY <2>1, <2>2 DEF PublishFailed, BusInv
    <2>4. /\ em \in EmissionRecord /\ em.pc = "error"
          /\ em.name = emission[e].name /\ em.stable = emission[e].stable
        BY <2>2, <2>3 DEF EmissionRecord, Stages
    <2>5. /\ em.name \in Names /\ \A i \in Invoked(e) : i.c \in {em.name, "*"}
          /\ \A h \in em.stable : [e |-> e, c |-> em.name, h |-> h] \in running \cup settled
        BY <2>3, <2>4 DEF EmissionInv
    <2>6. "eventbus.error" \in Channels /\ em.name # "eventbus.error"
        BY <2>5, OwnNames DEF Channels
    <2> QED
        BY <2>3, <2>4, <2>5, <2>6, StageKeeps
<1>11. CASE \E e \in Emissions : ErrorDelivered(e)
    BY <1>11, MovesOnKeeps DEF ErrorDelivered
<1>12. CASE UNCHANGED vars
    <2>1. UNCHANGED <<handlers, emission, running, settled>>
        BY <1>12 DEF vars
    <2> QED
        BY <2>1 DEF BusInv, EmissionInv, Invoked, Pending, OnceGone, Subscribed
<1> QED
    BY <1>1, <1>2, <1>3, <1>4, <1>5, <1>6, <1>7, <1>8, <1>9, <1>10, <1>11, <1>12 DEF Next

\* The bus, by itself: emit waits for what it has called and has called who was
\* subscribed all along; a handler of once is gone when it has been called.
THEOREM BusKept == Spec => [](TypeOK /\ EmitterWaits /\ AllHear /\ OnceGone)
    BY BusInit, BusSteps, BusInvImplies, PTL DEF Spec

-----------------------------------------------------------------------------
(* The configuration *)

LEMMA KeyFacts ==
    /\ DOMAIN Config!KeyOrder = {1, 2, 3} /\ Len(Config!KeyOrder) = 3
    /\ Config!KeyOrder[1] = "blocked" /\ Config!KeyOrder[2] = "window"
    /\ Config!KeyOrder[3] = "tool" /\ Config!Keys = {"blocked", "window", "tool"}
    /\ \A m, n \in {1, 2, 3} : Config!KeyOrder[m] = Config!KeyOrder[n] => m = n
    /\ \A n \in {1, 2, 3} : Config!KeyOrder[n] \in Config!Keys
    BY DEF Config!KeyOrder, Config!Keys

LEMMA Decoding ==
    /\ \A entry \in Config!Values \cup {Absent} : Config!Decoded(entry) \in Config!Values
    /\ \A k \in Config!Keys, v \in Config!Values :
          /\ Config!Encoded(k, v) \in Config!Values \cup {Absent}
          /\ k = "window" => Config!Encoded(k, v) # "default"
          /\ Config!Decoded(Config!Encoded(k, v)) = v
    BY ConstantsAssumption
    DEF Config!ConstantsOK, Config!Values, Config!Decoded, Config!Encoded

SetCall == [pc : {"putting", "auditing"}, kind : {"set"}, isolate : Isolates,
            key : Config!Keys, value : Config!Values, alone : BOOLEAN]
LoadCall == [pc : {"reading", "read"}, kind : {"load"}, isolate : Isolates, next : {1, 2, 3},
             got : Config!Values \cup {Absent}, alone : BOOLEAN]

\* Sets(c, k), Loads(c): the call is under way; LoadsAt(c, k): k is the key it is at.
Sets(c, k) == Config!Active(c) /\ configCall[c].kind = "set" /\ configCall[c].key = k
Loads(c) == Config!Active(c) /\ configCall[c].kind = "load"

ConfigTypes ==
    /\ configKV \in [Config!Keys -> Config!Values \cup {Absent}]
    /\ configKV["window"] # "default"
    /\ mem \in [Isolates -> [Config!Keys -> Config!Values]]
    /\ configCall \in [Calls -> {Config!Idle} \cup SetCall \cup LoadCall]
    /\ stored \in [Config!Keys -> SUBSET Config!Values]
    /\ undisturbed \in [Isolates -> SUBSET Config!Keys]

\* What KV holds, what has been written and what has been read are among the values
\* KV has had.
WasStored ==
    /\ \A k \in Config!Keys : "default" \in stored[k] /\ Config!Decoded(configKV[k]) \in stored[k]
    /\ \A i \in Isolates, k \in Config!Keys : mem[i][k] \in stored[k]
    /\ \A c \in Calls :
          /\ configCall[c].pc = "auditing" => configCall[c].value \in stored[configCall[c].key]
          /\ configCall[c].pc = "read" =>
                Config!Decoded(configCall[c].got) \in stored[Config!KeyOrder[configCall[c].next]]

\* A call that is still alone shares no key with another call under way, and what it
\* has written, or read, is what KV holds.
AloneAgrees ==
    \A c \in Calls : Config!Active(c) /\ configCall[c].alone =>
        /\ \A d \in Calls \ {c}, k \in Config!Keys :
              ~ (Config!Concerns(c, k) /\ Config!Concerns(d, k))
        /\ configCall[c].pc = "auditing" =>
              Config!Decoded(configKV[configCall[c].key]) = configCall[c].value
        /\ configCall[c].pc = "read" =>
              configCall[c].got = configKV[Config!KeyOrder[configCall[c].next]]

\* What is settled in an isolate agrees with KV; no setter is under way on it, and a
\* load of that isolate is past it.
SettledAgrees ==
    \A i \in Isolates : \A k \in undisturbed[i] :
        /\ mem[i][k] = Config!Decoded(configKV[k])
        /\ \A c \in Calls : ~ Sets(c, k)
        /\ \A c \in Calls : Loads(c) /\ configCall[c].isolate = i =>
              \A n \in configCall[c].next .. 3 : Config!KeyOrder[n] # k

ConfigInv == ConfigTypes /\ WasStored /\ AloneAgrees /\ SettledAgrees

\* The records of calls, without their union.
LEMMA CallShapes ==
    ASSUME ConfigTypes, NEW c \in Calls
    PROVE  /\ configCall[c] \in {Config!Idle} \cup SetCall \cup LoadCall
           /\ ~ Config!Active(c) => configCall[c] = Config!Idle
           /\ Config!Active(c) /\ configCall[c].kind = "set" => configCall[c] \in SetCall
           /\ Config!Active(c) /\ configCall[c].kind # "set" => configCall[c] \in LoadCall
           /\ configCall[c].pc \in {"putting", "auditing"} =>
                 Config!Active(c) /\ configCall[c].kind = "set" /\ configCall[c] \in SetCall
           /\ configCall[c].pc \in {"reading", "read"} =>
                 Config!Active(c) /\ configCall[c].kind = "load" /\ configCall[c] \in LoadCall
<1>1. configCall[c] \in {Config!Idle} \cup SetCall \cup LoadCall
    BY DEF ConfigTypes
<1>2. /\ \A r \in SetCall : r.pc \in {"putting", "auditing"} /\ r.kind = "set"
      /\ \A r \in LoadCall : r.pc \in {"reading", "read"} /\ r.kind = "load"
      /\ Config!Idle.pc = "idle"
    BY DEF SetCall, LoadCall, Config!Idle
<1> QED
    BY <1>1, <1>2 DEF Config!Active

LEMMA ConfigInvImplies == ConfigInv => /\ Config!TypeOK /\ Config!EnforcedWasStored
                                       /\ Config!UndisturbedAgree
<1> SUFFICES ASSUME ConfigInv
             PROVE  Config!TypeOK /\ Config!EnforcedWasStored /\ Config!UndisturbedAgree
    OBVIOUS
<1>1. ASSUME NEW c \in Calls, Config!Active(c)
      PROVE  /\ configCall[c].isolate \in Isolates
             /\ configCall[c].pc \in {"putting", "auditing", "reading", "read"}
             /\ configCall[c].kind = "load" => configCall[c].next \in DOMAIN Config!KeyOrder
    <2>1. configCall[c] \in SetCall \/ configCall[c] \in LoadCall
        BY <1>1, CallShapes DEF ConfigInv
    <2> QED
        BY <2>1, KeyFacts DEF SetCall, LoadCall
<1>2. Config!TypeOK
    BY <1>1 DEF Config!TypeOK, ConfigInv, ConfigTypes
<1> QED
    BY <1>2 DEF ConfigInv, WasStored, SettledAgrees, Config!EnforcedWasStored,
                Config!UndisturbedAgree

LEMMA ConfigInit == Config!Init => ConfigInv
<1> SUFFICES ASSUME Config!Init PROVE ConfigInv
    OBVIOUS
<1>1. ConfigTypes
    BY KeyFacts, ConstantsAssumption DEF Config!Init, ConfigTypes, Config!Values, Config!ConstantsOK
<1>2. \A c \in Calls : configCall[c].pc = "idle"
    BY DEF Config!Init, Config!Idle
<1>3. WasStored
    BY <1>2, ConstantsAssumption DEF Config!Init, WasStored, Config!Decoded
<1>4. AloneAgrees
    BY <1>2 DEF AloneAgrees, Config!Active
<1>5. SettledAgrees
    BY <1>2, ConstantsAssumption
    DEF SettledAgrees, Config!Init, Config!Active, Config!Decoded, Sets, Loads
<1> QED
    BY <1>1, <1>3, <1>4, <1>5 DEF ConfigInv

\* A call begins: those that share a key with it are alone no longer, and what it
\* writes, or its isolate will load, is unsettled.
LEMMA BeginsKeeps ==
    ASSUME ConfigInv, NEW c \in Calls, NEW record \in SetCall \cup LoadCall, NEW K, NEW writes \in BOOLEAN,
           Config!Begins(c, record, K, writes),
           \/ record \in SetCall /\ record.pc = "putting" /\ K = {record.key} /\ writes
           \/ record \in LoadCall /\ record.pc = "reading" /\ K = Config!Keys
    PROVE  ConfigInv'
<1>1. PICK met : met = {d \in Calls : \E k \in K : Config!Concerns(d, k)}
    OBVIOUS
<1>2. /\ ~ Config!Active(c)
      /\ configCall' = [d \in Calls |->
                IF d = c THEN [record EXCEPT !.alone = (met = {})]
                ELSE IF d \in met THEN [configCall[d] EXCEPT !.alone = FALSE] ELSE configCall[d]]
      /\ undisturbed' = [i \in Isolates |->
                IF writes \/ i = record.isolate THEN undisturbed[i] \ K ELSE undisturbed[i]]
      /\ UNCHANGED <<configKV, mem, stored>>
    BY <1>1 DEF Config!Begins
<1>3. PICK new : new = [record EXCEPT !.alone = (met = {})]
    OBVIOUS
<1>4. /\ configCall'[c] = new /\ new \in SetCall \cup LoadCall
      /\ new.pc = record.pc /\ new.kind = record.kind /\ new.isolate = record.isolate
      /\ new.alone = (met = {})
      /\ record \in SetCall => new.key = record.key /\ new.kind = "set"
      /\ record \in LoadCall => new.kind = "load"
      /\ new.pc \in {"putting", "reading"}
    BY <1>2, <1>3 DEF SetCall, LoadCall
<1>5. ASSUME NEW d \in Calls \ {c}
      PROVE  /\ configCall'[d] \in {Config!Idle} \cup SetCall \cup LoadCall
             /\ Config!Active(d)' <=> Config!Active(d)
             /\ configCall'[d].pc = configCall[d].pc
             /\ Config!Active(d) =>
                  /\ configCall'[d].kind = configCall[d].kind
                  /\ configCall'[d].isolate = configCall[d].isolate
                  /\ configCall[d].kind = "set" =>
                        /\ configCall'[d].key = configCall[d].key
                        /\ configCall'[d].value = configCall[d].value
                  /\ configCall[d].kind # "set" =>
                        /\ configCall'[d].next = configCall[d].next
                        /\ configCall'[d].got = configCall[d].got
                  /\ configCall'[d].alone => configCall[d].alone /\ d \notin met
    <2>1. /\ ConfigTypes /\ configCall[d] \in {Config!Idle} \cup SetCall \cup LoadCall
        BY CallShapes DEF ConfigInv
    <2>2. CASE d \in met
        <3>1. Config!Active(d)
            BY <1>1, <2>2 DEF Config!Concerns
        <3>2. configCall[d] \in SetCall \/ configCall[d] \in LoadCall
            BY <2>1, <3>1, CallShapes
        <3>3. configCall'[d] = [configCall[d] EXCEPT !.alone = FALSE]
            BY <1>2, <2>2
        <3>4. CASE configCall[d] \in SetCall
            BY <3>1, <3>3, <3>4 DEF SetCall, Config!Active
        <3>5. CASE configCall[d] \in LoadCall
            BY <3>1, <3>3, <3>5 DEF LoadCall, Config!Active
        <3> QED
            BY <3>2, <3>4, <3>5
    <2>3. CASE d \notin met
        <3>1. configCall'[d] = configCall[d]
            BY <1>2, <2>3
        <3> QED
            BY <2>1, <2>3, <3>1 DEF Config!Active
    <2> QED
        BY <2>2, <2>3
<1>6. \A d \in Calls \ {c}, k \in Config!Keys :
          /\ Config!Concerns(d, k)' <=> Config!Concerns(d, k)
          /\ Sets(d, k)' <=> Sets(d, k)
          /\ Loads(d)' <=> Loads(d)
    BY <1>5 DEF Config!Concerns, Sets, Loads
<1>7. \A k \in Config!Keys : /\ Config!Concerns(c, k)' => k \in K
                             /\ Sets(c, k)' => writes /\ k \in K
                             /\ Loads(c)' => K = Config!Keys
    BY <1>4 DEF Config!Concerns, Sets, Loads, SetCall, LoadCall
<1>8. ConfigTypes'
    <2>1. configCall' \in [Calls -> {Config!Idle} \cup SetCall \cup LoadCall]
        BY <1>2, <1>4, <1>5
    <2>2. undisturbed' \in [Isolates -> SUBSET Config!Keys]
        BY <1>2 DEF ConfigInv, ConfigTypes
    <2> QED
        BY <1>2, <2>1, <2>2 DEF ConfigInv, ConfigTypes
<1>9. WasStored'
    <2> SUFFICES ASSUME NEW d \in Calls
                 PROVE  /\ configCall'[d].pc = "auditing" =>
                              configCall'[d].value \in stored[configCall'[d].key]
                        /\ configCall'[d].pc = "read" =>
                              Config!Decoded(configCall'[d].got)
                                  \in stored[Config!KeyOrder[configCall'[d].next]]
        BY <1>2 DEF ConfigInv, WasStored, Config!Decoded
    <2>1. CASE d = c
        BY <1>4, <2>1
    <2>2. CASE d # c
        <3>1. /\ configCall[d].pc = "auditing" =>
                    Config!Active(d) /\ configCall[d].kind = "set"
              /\ configCall[d].pc = "read" => Config!Active(d) /\ configCall[d].kind # "set"
            BY CallShapes DEF ConfigInv
        <3> QED
            BY <1>5, <2>2, <3>1 DEF ConfigInv, WasStored
    <2> QED
        BY <2>1, <2>2
<1>10. AloneAgrees'
    <2> SUFFICES ASSUME NEW x \in Calls, Config!Active(x)', configCall'[x].alone
                 PROVE  /\ \A d \in Calls \ {x}, k \in Config!Keys :
                              ~ (Config!Concerns(x, k)' /\ Config!Concerns(d, k)')
                        /\ configCall'[x].pc = "auditing" =>
                              Config!Decoded(configKV[configCall'[x].key]) = configCall'[x].value
                        /\ configCall'[x].pc = "read" =>
                              configCall'[x].got = configKV[Config!KeyOrder[configCall'[x].next]]
        BY <1>2 DEF AloneAgrees, Config!Decoded
    <2>1. CASE x = c
        <3>1. met = {} /\ configCall'[c].pc \notin {"auditing", "read"}
            BY <1>4, <2>1
        <3>2. \A d \in Calls \ {c}, k \in Config!Keys :
                  ~ (Config!Concerns(c, k)' /\ Config!Concerns(d, k)')
            BY <1>1, <1>6, <1>7, <3>1
        <3> QED
            BY <2>1, <3>1, <3>2
    <2>2. CASE x # c
        <3>1. Config!Active(x) /\ configCall[x].alone /\ x \notin met
            BY <1>5, <2>2
        <3>2. ASSUME NEW d \in Calls \ {x}, NEW k \in Config!Keys,
                     Config!Concerns(x, k)', Config!Concerns(d, k)'
              PROVE  FALSE
            <4>1. Config!Concerns(x, k)
                BY <1>6, <2>2, <3>2
            <4>2. CASE d = c
                BY <1>1, <1>7, <3>1, <3>2, <4>1, <4>2
            <4>3. CASE d # c
                BY <1>6, <3>1, <3>2, <4>1, <4>3 DEF ConfigInv, AloneAgrees
            <4> QED
                BY <4>2, <4>3
        <3>3. /\ configCall[x].pc = "auditing" => configCall[x].kind = "set"
              /\ configCall[x].pc = "read" => configCall[x].kind # "set"
            BY CallShapes DEF ConfigInv
        <3> QED
            BY <1>5, <2>2, <3>1, <3>2, <3>3 DEF ConfigInv, AloneAgrees
    <2> QED
        BY <2>1, <2>2
<1>11. SettledAgrees'
    <2> SUFFICES ASSUME NEW i \in Isolates, NEW k \in undisturbed'[i]
                 PROVE  /\ mem[i][k] = Config!Decoded(configKV[k])
                        /\ \A d \in Calls : ~ Sets(d, k)'
                        /\ \A d \in Calls : Loads(d)' /\ configCall'[d].isolate = i =>
                              \A n \in configCall'[d].next .. 3 : Config!KeyOrder[n] # k
        BY <1>2 DEF SettledAgrees, Config!Decoded
    <2>1. /\ k \in undisturbed[i] /\ k \in Config!Keys
          /\ (writes \/ i = record.isolate) => k \notin K
        BY <1>2 DEF ConfigInv, ConfigTypes
    <2>2. ~ Sets(c, k)' /\ ~ (Loads(c)' /\ configCall'[c].isolate = i)
        BY <1>4, <1>7, <2>1
    <2>3. ASSUME NEW d \in Calls \ {c}
          PROVE  /\ ~ Sets(d, k)'
                 /\ Loads(d)' /\ configCall'[d].isolate = i =>
                       \A n \in configCall'[d].next .. 3 : Config!KeyOrder[n] # k
        <3>1. Loads(d) => /\ configCall'[d].isolate = configCall[d].isolate
                          /\ configCall'[d].next = configCall[d].next
            BY <1>5 DEF Loads
        <3> QED
            BY <1>6, <2>1, <3>1 DEF ConfigInv, SettledAgrees
    <2> QED
        BY <2>1, <2>2, <2>3 DEF ConfigInv, SettledAgrees
<1> QED
    BY <1>8, <1>9, <1>10, <1>11 DEF ConfigInv

\* A call under way goes on, or ends: it concerns no other keys than before.
LEMMA GoesOn ==
    ASSUME ConfigInv, NEW c \in Calls, NEW new \in {Config!Idle} \cup SetCall \cup LoadCall,
           configCall' = [configCall EXCEPT ![c] = new], Config!Active(c),
           new # Config!Idle =>
              /\ new.kind = configCall[c].kind /\ new.isolate = configCall[c].isolate
              /\ new.alone = configCall[c].alone
              /\ new.kind = "set" => new.key = configCall[c].key
    PROVE  /\ configCall' \in [Calls -> {Config!Idle} \cup SetCall \cup LoadCall]
           /\ configCall'[c] = new /\ \A d \in Calls \ {c} : configCall'[d] = configCall[d]
           /\ \A d \in Calls, k \in Config!Keys :
                 /\ Config!Concerns(d, k)' => Config!Concerns(d, k)
                 /\ Sets(d, k)' => Sets(d, k)
                 /\ Loads(d)' => Loads(d) /\ configCall'[d].isolate = configCall[d].isolate
           /\ \A d \in Calls : Config!Active(d)' =>
                 Config!Active(d) /\ (configCall'[d].alone => configCall[d].alone)
           /\ \A d, x \in Calls, k \in Config!Keys :
                 x # d /\ Config!Active(d)' /\ configCall'[d].alone =>
                    ~ (Config!Concerns(d, k)' /\ Config!Concerns(x, k)')
<1>1. /\ configCall' \in [Calls -> {Config!Idle} \cup SetCall \cup LoadCall]
      /\ configCall'[c] = new /\ \A d \in Calls \ {c} : configCall'[d] = configCall[d]
    BY DEF ConfigInv, ConfigTypes
<1>2. ASSUME NEW d \in Calls
      PROVE  /\ Config!Active(d)' =>
                    /\ Config!Active(d) /\ configCall'[d].kind = configCall[d].kind
                    /\ configCall'[d].isolate = configCall[d].isolate
                    /\ configCall'[d].alone = configCall[d].alone
                    /\ configCall'[d].kind = "set" => configCall'[d].key = configCall[d].key
    <2>1. CASE d = c
        BY <1>1, <2>1 DEF Config!Active, Config!Idle
    <2>2. CASE d # c
        BY <1>1, <2>2 DEF Config!Active
    <2> QED
        BY <2>1, <2>2
<1>3. \A d \in Calls, k \in Config!Keys :
          /\ Config!Concerns(d, k)' => Config!Concerns(d, k)
          /\ Sets(d, k)' => Sets(d, k)
          /\ Loads(d)' => Loads(d) /\ configCall'[d].isolate = configCall[d].isolate
    BY <1>2 DEF Config!Concerns, Sets, Loads
<1>4. \A d, x \in Calls, k \in Config!Keys :
          x # d /\ Config!Active(d)' /\ configCall'[d].alone =>
             ~ (Config!Concerns(d, k)' /\ Config!Concerns(x, k)')
    BY <1>2, <1>3 DEF ConfigInv, AloneAgrees
<1> QED
    BY <1>1, <1>2, <1>3, <1>4

\* A setter's request to KV: the entry is written and the call goes on to the audit
\* record, or it fails, applied or not, and the call is over.
LEMMA PutKeeps ==
    ASSUME ConfigInv, NEW c \in Calls, Config!PutInKV(c) \/ Config!PutFails(c)
    PROVE  ConfigInv'
<1> DEFINE k == configCall[c].key
           v == configCall[c].value
<1>1. /\ configCall[c] \in SetCall /\ Config!Active(c) /\ configCall[c].kind = "set"
      /\ configCall[c].pc = "putting"
    BY CallShapes DEF Config!PutInKV, Config!PutFails, ConfigInv
<1>2. k \in Config!Keys /\ v \in Config!Values
    BY <1>1 DEF SetCall
<1>3. PICK new \in {Config!Idle, [configCall[c] EXCEPT !.pc = "auditing"]} :
          /\ configCall' = [configCall EXCEPT ![c] = new]
          /\ \/ new = Config!Idle /\ UNCHANGED <<configKV, stored>>
             \/ /\ configKV' = [configKV EXCEPT ![k] = Config!Encoded(k, v)]
                /\ stored' = [stored EXCEPT ![k] = @ \cup {v}]
    BY DEF Config!PutInKV, Config!PutFails
<1>4. /\ new \in {Config!Idle} \cup SetCall \cup LoadCall
      /\ new # Config!Idle => /\ new.pc = "auditing" /\ new.kind = "set" /\ new.key = k
                              /\ new.value = v /\ new.isolate = configCall[c].isolate
                              /\ new.alone = configCall[c].alone
      /\ Config!Idle.pc = "idle"
    BY <1>1, <1>3 DEF SetCall, Config!Idle
<1>5. UNCHANGED <<mem, undisturbed>>
    BY DEF Config!PutInKV, Config!PutFails
<1>6. /\ configKV \in [Config!Keys -> Config!Values \cup {Absent}] /\ configKV["window"] # "default"
      /\ stored \in [Config!Keys -> SUBSET Config!Values]
    BY DEF ConfigInv, ConfigTypes
<1>7. /\ configKV' \in [Config!Keys -> Config!Values \cup {Absent}] /\ configKV'["window"] # "default"
      /\ stored' \in [Config!Keys -> SUBSET Config!Values]
      /\ \A l \in Config!Keys : stored[l] \subseteq stored'[l]
      /\ \A l \in Config!Keys \ {k} : configKV'[l] = configKV[l]
      /\ configKV'[k] = configKV[k] \/ (Config!Decoded(configKV'[k]) = v /\ v \in stored'[k])
      /\ new # Config!Idle => Config!Decoded(configKV'[k]) = v /\ v \in stored'[k]
    <2>1. CASE UNCHANGED <<configKV, stored>> /\ new = Config!Idle
        BY <1>6, <2>1
    <2>2. CASE /\ configKV' = [configKV EXCEPT ![k] = Config!Encoded(k, v)]
               /\ stored' = [stored EXCEPT ![k] = @ \cup {v}]
        <3> HIDE DEF k, v
        <3>1. PICK entry : entry = Config!Encoded(k, v)
            OBVIOUS
        <3>2. /\ entry \in Config!Values \cup {Absent} /\ Config!Decoded(entry) = v
              /\ k = "window" => entry # "default"
            BY <1>2, <3>1, Decoding
        <3>3. /\ configKV' = [configKV EXCEPT ![k] = entry] /\ configKV'[k] = entry
              /\ \A l \in Config!Keys \ {k} : configKV'[l] = configKV[l]
            BY <1>2, <1>6, <2>2, <3>1
        <3>4. configKV'["window"] # "default"
            BY <1>6, <3>2, <3>3, KeyFacts
        <3>5. configKV' \in [Config!Keys -> Config!Values \cup {Absent}]
            BY <1>6, <3>2, <3>3
        <3>6. /\ stored' \in [Config!Keys -> SUBSET Config!Values]
              /\ \A l \in Config!Keys : stored[l] \subseteq stored'[l]
              /\ v \in stored'[k]
            BY <1>2, <1>6, <2>2
        <3> QED
            BY <3>2, <3>3, <3>4, <3>5, <3>6
    <2> QED
        BY <1>3, <2>1, <2>2
<1>8. /\ configCall' \in [Calls -> {Config!Idle} \cup SetCall \cup LoadCall]
      /\ configCall'[c] = new /\ \A d \in Calls \ {c} : configCall'[d] = configCall[d]
      /\ \A d \in Calls, l \in Config!Keys :
            /\ Config!Concerns(d, l)' => Config!Concerns(d, l)
            /\ Sets(d, l)' => Sets(d, l)
            /\ Loads(d)' => Loads(d) /\ configCall'[d].isolate = configCall[d].isolate
      /\ \A d \in Calls : Config!Active(d)' =>
            Config!Active(d) /\ (configCall'[d].alone => configCall[d].alone)
      /\ \A d, x \in Calls, l \in Config!Keys :
            x # d /\ Config!Active(d)' /\ configCall'[d].alone =>
               ~ (Config!Concerns(d, l)' /\ Config!Concerns(x, l)')
    BY <1>1, <1>3, <1>4, GoesOn
<1> HIDE DEF k, v
<1>9. ConfigTypes'
    BY <1>5, <1>7, <1>8 DEF ConfigInv, ConfigTypes
<1>10. WasStored'
    <2>1. \A l \in Config!Keys : "default" \in stored'[l] /\ Config!Decoded(configKV'[l]) \in stored'[l]
        <3> SUFFICES ASSUME NEW l \in Config!Keys
                     PROVE  "default" \in stored'[l] /\ Config!Decoded(configKV'[l]) \in stored'[l]
            OBVIOUS
        <3>1. "default" \in stored[l] /\ Config!Decoded(configKV[l]) \in stored[l]
            BY DEF ConfigInv, WasStored
        <3> QED
            BY <1>2, <1>7, <3>1
    <2>2. \A i \in Isolates, l \in Config!Keys : mem'[i][l] \in stored'[l]
        BY <1>5, <1>7 DEF ConfigInv, WasStored
    <2>3. ASSUME NEW d \in Calls
          PROVE  /\ configCall'[d].pc = "auditing" =>
                        configCall'[d].value \in stored'[configCall'[d].key]
                 /\ configCall'[d].pc = "read" =>
                        Config!Decoded(configCall'[d].got)
                            \in stored'[Config!KeyOrder[configCall'[d].next]]
        <3>1. CASE d = c
            BY <1>4, <1>7, <1>8, <3>1 DEF k, v
        <3>2. CASE d # c
            <4>1. /\ configCall[d].pc = "auditing" => configCall[d].key \in Config!Keys
                  /\ configCall[d].pc = "read" =>
                        Config!KeyOrder[configCall[d].next] \in Config!Keys
                BY CallShapes, KeyFacts DEF ConfigInv, SetCall, LoadCall
            <4> QED
                BY <1>7, <1>8, <3>2, <4>1 DEF ConfigInv, WasStored
        <3> QED
            BY <3>1, <3>2
    <2>4. \A entry : Config!Decoded(entry)' = Config!Decoded(entry)
        BY DEF Config!Decoded
    <2> QED
        BY <2>1, <2>2, <2>3 DEF WasStored, Config!Decoded
<1>11. AloneAgrees'
    <2> SUFFICES ASSUME NEW x \in Calls, Config!Active(x)', configCall'[x].alone
                 PROVE  /\ configCall'[x].pc = "auditing" =>
                              Config!Decoded(configKV'[configCall'[x].key]) = configCall'[x].value
                        /\ configCall'[x].pc = "read" =>
                              configCall'[x].got = configKV'[Config!KeyOrder[configCall'[x].next]]
        BY <1>8 DEF AloneAgrees, Config!Decoded
    <2>1. CASE x = c
        BY <1>4, <1>7, <1>8, <2>1
    <2>2. CASE x # c
        <3>1. /\ Config!Active(x) /\ configCall[x].alone /\ configCall'[x] = configCall[x]
              /\ ~ Config!Concerns(x, k)
            BY <1>1, <1>2, <1>8, <2>2 DEF ConfigInv, AloneAgrees, Config!Concerns, k
        <3>2. configCall[x].pc = "auditing" =>
                  configCall[x].key \in Config!Keys /\ configCall[x].key # k
            BY <3>1, CallShapes DEF ConfigInv, Config!Concerns, SetCall
        <3>3. configCall[x].pc # "read"
            BY <3>1, CallShapes DEF ConfigInv, Config!Concerns, LoadCall
        <3> QED
            BY <1>7, <3>1, <3>2, <3>3 DEF ConfigInv, AloneAgrees
    <2> QED
        BY <2>1, <2>2
<1>12. SettledAgrees'
    <2> SUFFICES ASSUME NEW i \in Isolates, NEW l \in undisturbed[i]
                 PROVE  /\ mem[i][l] = Config!Decoded(configKV'[l])
                        /\ \A d \in Calls : ~ Sets(d, l)'
                        /\ \A d \in Calls : Loads(d)' /\ configCall'[d].isolate = i =>
                              \A n \in configCall'[d].next .. 3 : Config!KeyOrder[n] # l
        BY <1>5 DEF SettledAgrees, Config!Decoded
    <2>1. l \in Config!Keys /\ l # k /\ configKV'[l] = configKV[l]
        BY <1>1, <1>7 DEF ConfigInv, ConfigTypes, SettledAgrees, Sets, k
    <2>2. ~ Loads(c)'
        BY <1>1, <1>2, <1>8 DEF Loads
    <2> QED
        BY <1>8, <2>1, <2>2 DEF ConfigInv, SettledAgrees
<1> QED
    BY <1>9, <1>10, <1>11, <1>12 DEF ConfigInv

\* The audit record has settled: the knob is set.
LEMMA ApplySetKeeps ==
    ASSUME ConfigInv, NEW c \in Calls, Config!ApplySet(c)
    PROVE  ConfigInv'
<1>0. PICK i, k, v : i = configCall[c].isolate /\ k = configCall[c].key /\ v = configCall[c].value
    OBVIOUS
<1>1. /\ configCall[c] \in SetCall /\ Config!Active(c) /\ configCall[c].kind = "set"
      /\ configCall[c].pc = "auditing"
    BY CallShapes DEF Config!ApplySet, ConfigInv
<1>2. i \in Isolates /\ k \in Config!Keys /\ v \in Config!Values
    BY <1>0, <1>1 DEF SetCall
<1>3. /\ mem' = [mem EXCEPT ![i][k] = v]
      /\ undisturbed' = IF configCall[c].alone THEN [undisturbed EXCEPT ![i] = @ \cup {k}]
                        ELSE undisturbed
      /\ configCall' = [configCall EXCEPT ![c] = Config!Idle]
      /\ UNCHANGED <<configKV, stored>>
    BY <1>0 DEF Config!ApplySet
<1>4. /\ mem \in [Isolates -> [Config!Keys -> Config!Values]]
      /\ undisturbed \in [Isolates -> SUBSET Config!Keys]
    BY DEF ConfigInv, ConfigTypes
<1>5. /\ configCall' \in [Calls -> {Config!Idle} \cup SetCall \cup LoadCall]
      /\ configCall'[c] = Config!Idle /\ \A d \in Calls \ {c} : configCall'[d] = configCall[d]
      /\ \A d \in Calls, l \in Config!Keys :
            /\ Config!Concerns(d, l)' => Config!Concerns(d, l)
            /\ Sets(d, l)' => Sets(d, l)
            /\ Loads(d)' => Loads(d) /\ configCall'[d].isolate = configCall[d].isolate
      /\ \A d \in Calls : Config!Active(d)' =>
            Config!Active(d) /\ (configCall'[d].alone => configCall[d].alone)
      /\ \A d, x \in Calls, l \in Config!Keys :
            x # d /\ Config!Active(d)' /\ configCall'[d].alone =>
               ~ (Config!Concerns(d, l)' /\ Config!Concerns(x, l)')
    BY <1>1, <1>3, GoesOn
<1>6. ~ Config!Active(c)' /\ configCall'[c].pc = "idle"
    BY <1>5 DEF Config!Active, Config!Idle
<1>7. /\ mem' \in [Isolates -> [Config!Keys -> Config!Values]] /\ mem'[i][k] = v
      /\ \A j \in Isolates, l \in Config!Keys : <<j, l>> # <<i, k>> => mem'[j][l] = mem[j][l]
    BY <1>2, <1>3, <1>4
<1>8. /\ undisturbed' \in [Isolates -> SUBSET Config!Keys]
      /\ \A j \in Isolates : \A l \in undisturbed'[j] :
            l \in undisturbed[j] \/ (j = i /\ l = k /\ configCall[c].alone)
    BY <1>2, <1>3, <1>4
<1>9. ConfigTypes'
    BY <1>3, <1>5, <1>7, <1>8 DEF ConfigInv, ConfigTypes
<1>10. WasStored'
    <2>1. v \in stored[k]
        BY <1>0, <1>1 DEF ConfigInv, WasStored
    <2>2. \A j \in Isolates, l \in Config!Keys : mem'[j][l] \in stored'[l]
        BY <1>3, <1>7, <2>1 DEF ConfigInv, WasStored
    <2> QED
        BY <1>3, <1>5, <1>6, <2>2 DEF ConfigInv, WasStored, Config!Decoded
<1>11. AloneAgrees'
    BY <1>3, <1>5, <1>6 DEF ConfigInv, AloneAgrees, Config!Decoded
<1>12. ASSUME NEW j \in Isolates, NEW l \in undisturbed'[j]
       PROVE  /\ mem'[j][l] = Config!Decoded(configKV[l])
              /\ \A d \in Calls : ~ Sets(d, l)'
              /\ \A d \in Calls : Loads(d)' /\ configCall'[d].isolate = j =>
                    \A n \in configCall'[d].next .. 3 : Config!KeyOrder[n] # l
    <2>0. l \in Config!Keys
        BY <1>8
    <2>1. CASE l = k /\ j = i /\ configCall[c].alone
        <3>1. Config!Decoded(configKV[k]) = v
            BY <1>0, <1>1, <2>1 DEF ConfigInv, AloneAgrees
        <3>2. Config!Concerns(c, k)
            BY <1>0, <1>1 DEF Config!Concerns
        <3>3. \A d \in Calls \ {c} : ~ Config!Concerns(d, k)
            BY <1>1, <1>2, <2>1, <3>2 DEF ConfigInv, AloneAgrees
        <3>4. \A d \in Calls : ~ Config!Concerns(d, k)'
            BY <1>2, <1>5, <1>6, <3>3 DEF Config!Concerns, Config!Active
        <3>5. \A d \in Calls : ~ Sets(d, k)' /\ ~ Loads(d)'
            BY <3>4 DEF Config!Concerns, Sets, Loads
        <3> QED
            BY <1>7, <2>1, <3>1, <3>5
    <2>2. CASE ~ (l = k /\ j = i /\ configCall[c].alone)
        <3>1. l \in undisturbed[j] /\ l # k
            BY <1>0, <1>1, <1>8, <2>2 DEF ConfigInv, SettledAgrees, Sets
        <3>2. mem'[j][l] = mem[j][l]
            BY <1>7, <2>0, <3>1
        <3>3. \A d \in Calls \ {c} : Loads(d)' /\ configCall'[d].isolate = j =>
                    \A n \in configCall'[d].next .. 3 : Config!KeyOrder[n] # l
            BY <1>5, <2>0, <3>1 DEF ConfigInv, SettledAgrees
        <3>4. ~ Loads(c)'
            BY <1>6 DEF Loads
        <3> QED
            BY <1>5, <2>0, <3>1, <3>2, <3>3, <3>4 DEF ConfigInv, SettledAgrees
    <2> QED
        BY <2>1, <2>2
<1>13. SettledAgrees'
    BY <1>3, <1>12 DEF SettledAgrees, Config!Decoded
<1> QED
    BY <1>9, <1>10, <1>11, <1>13 DEF ConfigInv

\* A load reads the next key, or fails and is over: no knob changes.
LEMMA ReadKeeps ==
    ASSUME ConfigInv, NEW c \in Calls, Config!ReadFromKV(c) \/ Config!ReadFails(c)
    PROVE  ConfigInv'
<1>1. /\ configCall[c] \in LoadCall /\ Config!Active(c) /\ configCall[c].kind = "load"
      /\ configCall[c].pc = "reading" /\ UNCHANGED <<configKV, mem, stored, undisturbed>>
    BY CallShapes DEF Config!ReadFromKV, Config!ReadFails, ConfigInv
<1> DEFINE n == configCall[c].next
           k == Config!KeyOrder[n]
<1>2. n \in {1, 2, 3} /\ k \in Config!Keys
    BY <1>1, KeyFacts DEF LoadCall
<1>3. PICK new \in {Config!Idle, [configCall[c] EXCEPT !.pc = "read", !.got = configKV[k]]} :
          configCall' = [configCall EXCEPT ![c] = new]
    BY DEF Config!ReadFromKV, Config!ReadFails
<1>4. /\ new \in {Config!Idle} \cup SetCall \cup LoadCall
      /\ new # Config!Idle => /\ new.pc = "read" /\ new.kind = "load" /\ new.next = n
                              /\ new.got = configKV[k]
                              /\ new.isolate = configCall[c].isolate
                              /\ new.alone = configCall[c].alone
      /\ Config!Idle.pc = "idle"
    <2>1. configKV[k] \in Config!Values \cup {Absent}
        BY <1>2 DEF ConfigInv, ConfigTypes
    <2> QED
        BY <1>1, <1>3, <2>1 DEF LoadCall, Config!Idle
<1>5. /\ configCall' \in [Calls -> {Config!Idle} \cup SetCall \cup LoadCall]
      /\ configCall'[c] = new /\ \A d \in Calls \ {c} : configCall'[d] = configCall[d]
      /\ \A d \in Calls, l \in Config!Keys :
            /\ Config!Concerns(d, l)' => Config!Concerns(d, l)
            /\ Sets(d, l)' => Sets(d, l)
            /\ Loads(d)' => Loads(d) /\ configCall'[d].isolate = configCall[d].isolate
      /\ \A d \in Calls : Config!Active(d)' =>
            Config!Active(d) /\ (configCall'[d].alone => configCall[d].alone)
      /\ \A d, x \in Calls, l \in Config!Keys :
            x # d /\ Config!Active(d)' /\ configCall'[d].alone =>
               ~ (Config!Concerns(d, l)' /\ Config!Concerns(x, l)')
    BY <1>1, <1>3, <1>4, GoesOn
<1>6. Loads(c)' => new # Config!Idle
    BY <1>4, <1>5 DEF Loads, Config!Active
<1> HIDE DEF n, k
<1>7. ConfigTypes'
    BY <1>1, <1>5 DEF ConfigInv, ConfigTypes
<1>8. WasStored'
    <2>1. Config!Decoded(configKV[k]) \in stored[k]
        BY <1>2 DEF ConfigInv, WasStored
    <2>2. ASSUME NEW d \in Calls
          PROVE  /\ configCall'[d].pc = "auditing" =>
                        configCall'[d].value \in stored[configCall'[d].key]
                 /\ configCall'[d].pc = "read" =>
                        Config!Decoded(configCall'[d].got)
                            \in stored[Config!KeyOrder[configCall'[d].next]]
        <3>1. CASE d = c
            BY <1>4, <1>5, <2>1, <3>1 DEF k
        <3>2. CASE d # c
            BY <1>5, <3>2 DEF ConfigInv, WasStored
        <3> QED
            BY <3>1, <3>2
    <2> QED
        BY <1>1, <2>2 DEF ConfigInv, WasStored, Config!Decoded
<1>9. AloneAgrees'
    <2>1. ASSUME NEW x \in Calls, Config!Active(x)', configCall'[x].alone
          PROVE  /\ configCall'[x].pc = "auditing" =>
                       Config!Decoded(configKV[configCall'[x].key]) = configCall'[x].value
                 /\ configCall'[x].pc = "read" =>
                       configCall'[x].got = configKV[Config!KeyOrder[configCall'[x].next]]
        <3>1. CASE x = c
            BY <1>4, <1>5, <3>1 DEF k
        <3>2. CASE x # c
            BY <1>5, <2>1, <3>2 DEF ConfigInv, AloneAgrees
        <3> QED
            BY <3>1, <3>2
    <2> QED
        BY <1>1, <1>5, <2>1 DEF AloneAgrees, Config!Decoded
<1>10. SettledAgrees'
    <2>1. Loads(c)' => configCall'[c].next = configCall[c].next
        BY <1>4, <1>5, <1>6 DEF n
    <2> SUFFICES ASSUME NEW i \in Isolates, NEW l \in undisturbed[i]
                 PROVE  /\ \A d \in Calls : ~ Sets(d, l)'
                        /\ \A d \in Calls : Loads(d)' /\ configCall'[d].isolate = i =>
                              \A m \in configCall'[d].next .. 3 : Config!KeyOrder[m] # l
        BY <1>1 DEF ConfigInv, SettledAgrees, Config!Decoded
    <2>2. l \in Config!Keys
        BY DEF ConfigInv, ConfigTypes
    <2>3. ASSUME NEW d \in Calls, Loads(d)', configCall'[d].isolate = i
          PROVE  \A m \in configCall'[d].next .. 3 : Config!KeyOrder[m] # l
        <3>1. configCall'[d].next = configCall[d].next
            BY <1>5, <2>1, <2>3
        <3>2. Loads(d) /\ configCall[d].isolate = i
            BY <1>5, <2>2, <2>3
        <3> QED
            BY <3>1, <3>2 DEF ConfigInv, SettledAgrees
    <2> QED
        BY <1>5, <2>2, <2>3 DEF ConfigInv, SettledAgrees
<1> QED
    BY <1>7, <1>8, <1>9, <1>10 DEF ConfigInv

\* A key that has been read is applied: if the load is alone, it is settled.
LEMMA ApplyReadKeeps ==
    ASSUME ConfigInv, NEW c \in Calls, Config!ApplyRead(c)
    PROVE  ConfigInv'
<1>0. PICK i, n, k, got, v :
          /\ i = configCall[c].isolate /\ n = configCall[c].next /\ k = Config!KeyOrder[n]
          /\ got = configCall[c].got /\ v = Config!Decoded(got)
    OBVIOUS
<1>1. /\ configCall[c] \in LoadCall /\ Config!Active(c) /\ configCall[c].kind = "load"
      /\ configCall[c].pc = "read" /\ Loads(c)
    BY CallShapes DEF Config!ApplyRead, ConfigInv, Loads
<1>2. /\ i \in Isolates /\ n \in {1, 2, 3} /\ k \in Config!Keys /\ v \in Config!Values
      /\ got \in Config!Values \cup {Absent} /\ v \in stored[k]
    <2>1. i \in Isolates /\ n \in {1, 2, 3} /\ got \in Config!Values \cup {Absent}
        BY <1>0, <1>1 DEF LoadCall
    <2>2. v \in stored[k]
        BY <1>0, <1>1 DEF ConfigInv, WasStored
    <2> QED
        BY <1>0, <2>1, <2>2, KeyFacts, Decoding
<1>3. PICK new : new = IF n = 3 THEN Config!Idle
                       ELSE [configCall[c] EXCEPT !.pc = "reading", !.next = n + 1]
    OBVIOUS
<1>4. /\ mem' = IF Config!Applies(k, got) THEN [mem EXCEPT ![i][k] = v] ELSE mem
      /\ undisturbed' = IF configCall[c].alone /\ (k = "window" => v # "default")
                        THEN [undisturbed EXCEPT ![i] = @ \cup {k}] ELSE undisturbed
      /\ configCall' = [configCall EXCEPT ![c] = new]
      /\ UNCHANGED <<configKV, stored>>
    <2>1. configCall' = [configCall EXCEPT ![c] = new]
        <3>1. Len(Config!KeyOrder) = 3 /\ c \in DOMAIN configCall
            BY KeyFacts DEF ConfigInv, ConfigTypes
        <3>2. CASE n = 3
            BY <1>0, <1>3, <3>1, <3>2 DEF Config!ApplyRead
        <3>3. CASE n # 3
            <4>1. configCall' = [configCall EXCEPT ![c].pc = "reading", ![c].next = @ + 1]
                BY <1>0, <3>1, <3>3 DEF Config!ApplyRead
            <4>2. PICK r : r = configCall[c]
                OBVIOUS
            <4>3. new = [r EXCEPT !.pc = "reading", !.next = r.next + 1]
                BY <1>0, <1>3, <3>3, <4>2
            <4> QED
                BY <1>1, <3>1, <4>1, <4>2, <4>3 DEF LoadCall, ConfigInv, ConfigTypes
        <3> QED
            BY <3>2, <3>3
    <2>2. /\ mem' = IF Config!Applies(k, got) THEN [mem EXCEPT ![i][k] = v] ELSE mem
          /\ undisturbed' = IF configCall[c].alone /\ (k = "window" => v # "default")
                            THEN [undisturbed EXCEPT ![i] = @ \cup {k}] ELSE undisturbed
          /\ UNCHANGED <<configKV, stored>>
        BY <1>0 DEF Config!ApplyRead
    <2> QED
        BY <1>0, <1>3, <2>1, <2>2
<1>5. /\ new \in {Config!Idle} \cup SetCall \cup LoadCall
      /\ new # Config!Idle => /\ new.pc = "reading" /\ new.kind = "load" /\ new.next = n + 1
                              /\ new.isolate = i /\ new.alone = configCall[c].alone
      /\ Config!Idle.pc = "idle"
    <2>1. CASE n = 3
        BY <1>3, <2>1 DEF Config!Idle
    <2>2. CASE n # 3
        <3>1. new = [configCall[c] EXCEPT !.pc = "reading", !.next = n + 1] /\ n + 1 \in {1, 2, 3}
            BY <1>2, <1>3, <2>2
        <3> QED
            BY <1>0, <1>1, <3>1 DEF LoadCall, Config!Idle
    <2> QED
        BY <2>1, <2>2
<1>6. /\ configCall' \in [Calls -> {Config!Idle} \cup SetCall \cup LoadCall]
      /\ configCall'[c] = new /\ \A d \in Calls \ {c} : configCall'[d] = configCall[d]
      /\ \A d \in Calls, l \in Config!Keys :
            /\ Config!Concerns(d, l)' => Config!Concerns(d, l)
            /\ Sets(d, l)' => Sets(d, l)
            /\ Loads(d)' => Loads(d) /\ configCall'[d].isolate = configCall[d].isolate
      /\ \A d \in Calls : Config!Active(d)' =>
            Config!Active(d) /\ (configCall'[d].alone => configCall[d].alone)
      /\ \A d, x \in Calls, l \in Config!Keys :
            x # d /\ Config!Active(d)' /\ configCall'[d].alone =>
               ~ (Config!Concerns(d, l)' /\ Config!Concerns(x, l)')
    BY <1>0, <1>1, <1>4, <1>5, GoesOn
<1>7. /\ configCall'[c].pc \in {"idle", "reading"}
      /\ Loads(c)' => configCall'[c].next = n + 1
    BY <1>5, <1>6 DEF Loads, Config!Active
<1>8. /\ mem \in [Isolates -> [Config!Keys -> Config!Values]]
      /\ undisturbed \in [Isolates -> SUBSET Config!Keys]
    BY DEF ConfigInv, ConfigTypes
<1>9. k = "window" /\ v # "default" => Config!Applies(k, got)
    BY <1>0 DEF Config!Applies, Config!Decoded
<1>9a. k # "window" => Config!Applies(k, got)
    BY DEF Config!Applies
<1>9b. configCall[c].alone => v = Config!Decoded(configKV[k])
    BY <1>0, <1>1 DEF ConfigInv, AloneAgrees
<1>9c. \A m \in n .. 3 : \A l \in undisturbed[i] : Config!KeyOrder[m] # l
    BY <1>0, <1>1, <1>2 DEF ConfigInv, SettledAgrees
<1>9d. \A m \in n + 1 .. 3 : Config!KeyOrder[m] # k
    <2>1. \A m \in n + 1 .. 3 : m \in {1, 2, 3} /\ m # n
        BY <1>2
    <2> QED
        BY <1>0, <1>2, <2>1, KeyFacts
<1>9e. n \in n .. 3
    BY <1>2
<1>9f. k \notin undisturbed[i]
    BY <1>0, <1>9c, <1>9e
<1>10. /\ mem' \in [Isolates -> [Config!Keys -> Config!Values]]
       /\ Config!Applies(k, got) => mem'[i][k] = v
       /\ mem'[i][k] \in {v, mem[i][k]}
       /\ \A j \in Isolates, l \in Config!Keys : <<j, l>> # <<i, k>> => mem'[j][l] = mem[j][l]
    BY <1>2, <1>4, <1>8
<1>11. /\ undisturbed' \in [Isolates -> SUBSET Config!Keys]
       /\ \A j \in Isolates : \A l \in undisturbed'[j] :
             \/ l \in undisturbed[j]
             \/ j = i /\ l = k /\ configCall[c].alone /\ (k = "window" => v # "default")
    BY <1>2, <1>4, <1>8
<1>12. ConfigTypes'
    BY <1>4, <1>6, <1>10, <1>11 DEF ConfigInv, ConfigTypes
<1>13. WasStored'
    <2>1. \A j \in Isolates, l \in Config!Keys : mem'[j][l] \in stored'[l]
        BY <1>2, <1>4, <1>10 DEF ConfigInv, WasStored
    <2> QED
        BY <1>4, <1>6, <1>7, <2>1 DEF ConfigInv, WasStored, Config!Decoded
<1>14. AloneAgrees'
    <2>1. \A x \in Calls \ {c} : configCall'[x] = configCall[x]
        BY <1>6
    <2>2. ASSUME NEW x \in Calls, Config!Active(x)', configCall'[x].alone
          PROVE  /\ configCall'[x].pc = "auditing" =>
                       Config!Decoded(configKV[configCall'[x].key]) = configCall'[x].value
                 /\ configCall'[x].pc = "read" =>
                       configCall'[x].got = configKV[Config!KeyOrder[configCall'[x].next]]
        BY <1>6, <1>7, <2>1, <2>2 DEF ConfigInv, AloneAgrees
    <2> QED
        BY <1>4, <1>6, <2>2 DEF AloneAgrees, Config!Decoded
<1>15. ASSUME NEW j \in Isolates, NEW l \in undisturbed'[j]
       PROVE  /\ mem'[j][l] = Config!Decoded(configKV[l])
              /\ \A d \in Calls : ~ Sets(d, l)'
              /\ \A d \in Calls : Loads(d)' /\ configCall'[d].isolate = j =>
                    \A m \in configCall'[d].next .. 3 : Config!KeyOrder[m] # l
    <2>0. l \in Config!Keys
        BY <1>11
    <2>1. CASE l \notin undisturbed[j]
        <3>1. j = i /\ l = k /\ configCall[c].alone /\ (k = "window" => v # "default")
            BY <1>11, <2>1
        <3>2. mem'[i][k] = Config!Decoded(configKV[k])
            BY <1>9, <1>9a, <1>9b, <1>10, <3>1
        <3>3. \A l2 \in Config!Keys : Config!Concerns(c, l2)
            BY <1>1 DEF Config!Concerns
        <3>4. \A d \in Calls \ {c} : ~ Config!Concerns(d, k)
            BY <1>1, <1>2, <3>1, <3>3 DEF ConfigInv, AloneAgrees
        <3>5. \A d \in Calls \ {c} : ~ Sets(d, k)' /\ ~ Loads(d)'
            BY <1>2, <1>6, <3>4 DEF Config!Concerns, Sets, Loads
        <3>6. ~ Sets(c, k)'
            BY <1>1, <1>2, <1>6 DEF Sets
        <3> QED
            BY <1>7, <1>9d, <3>1, <3>2, <3>5, <3>6
    <2>2. CASE l \in undisturbed[j]
        <3>1. <<j, l>> # <<i, k>>
            BY <1>9f, <2>2
        <3>2. mem'[j][l] = mem[j][l]
            BY <1>10, <2>0, <3>1
        <3>3. \A d \in Calls \ {c} : Loads(d)' /\ configCall'[d].isolate = j =>
                    \A m \in configCall'[d].next .. 3 : Config!KeyOrder[m] # l
            BY <1>6, <2>0, <2>2 DEF ConfigInv, SettledAgrees
        <3>4. Loads(c)' /\ configCall'[c].isolate = j =>
                    \A m \in configCall'[c].next .. 3 : Config!KeyOrder[m] # l
            <4> SUFFICES ASSUME Loads(c)', j = i, NEW m \in n + 1 .. 3
                         PROVE  Config!KeyOrder[m] # l
                BY <1>0, <1>6, <1>7, <2>0
            <4>1. m \in n .. 3
                BY <1>2
            <4> QED
                BY <1>9c, <2>2, <4>1
        <3> QED
            BY <1>6, <2>0, <2>2, <3>2, <3>3, <3>4 DEF ConfigInv, SettledAgrees
    <2> QED
        BY <2>1, <2>2
<1>16. SettledAgrees'
    BY <1>4, <1>15 DEF SettledAgrees, Config!Decoded
<1> QED
    BY <1>12, <1>13, <1>14, <1>16 DEF ConfigInv

\* An isolate starts again.
LEMMA RestartKeeps ==
    ASSUME ConfigInv, NEW i \in Isolates, Config!Restart(i)
    PROVE  ConfigInv'
<1>1. /\ mem' = [mem EXCEPT ![i] = [k \in Config!Keys |-> "default"]]
      /\ undisturbed' = [undisturbed EXCEPT ![i] = {}]
      /\ \A c \in Calls : configCall'[c] \in {configCall[c], Config!Idle}
      /\ configCall' = [c \in Calls |-> configCall'[c]]
      /\ UNCHANGED <<configKV, stored>>
    BY DEF Config!Restart
<1>2. ConfigTypes'
    <2>1. mem' \in [Isolates -> [Config!Keys -> Config!Values]]
        BY <1>1 DEF ConfigInv, ConfigTypes, Config!Values
    <2>2. undisturbed' \in [Isolates -> SUBSET Config!Keys]
        BY <1>1 DEF ConfigInv, ConfigTypes
    <2>3. configCall' \in [Calls -> {Config!Idle} \cup SetCall \cup LoadCall]
        BY <1>1 DEF ConfigInv, ConfigTypes
    <2> QED
        BY <1>1, <2>1, <2>2, <2>3 DEF ConfigInv, ConfigTypes
<1>3. \A c \in Calls : configCall'[c].pc # "idle" => configCall'[c] = configCall[c]
    BY <1>1 DEF Config!Idle
<1>4. WasStored'
    <2>1. \A j \in Isolates, k \in Config!Keys : mem'[j][k] \in stored'[k]
        BY <1>1 DEF ConfigInv, ConfigTypes, WasStored
    <2> QED
        BY <1>1, <1>3, <2>1 DEF ConfigInv, WasStored, Config!Decoded
<1>5. \A c \in Calls, k \in Config!Keys :
          /\ Config!Concerns(c, k)' => Config!Concerns(c, k) /\ configCall'[c] = configCall[c]
          /\ Sets(c, k)' => Sets(c, k)
          /\ Loads(c)' => Loads(c) /\ configCall'[c] = configCall[c]
          /\ Config!Active(c)' => Config!Active(c) /\ configCall'[c] = configCall[c]
    BY <1>3 DEF Config!Concerns, Config!Active, Sets, Loads
<1>6. AloneAgrees'
    BY <1>1, <1>5, KeyFacts DEF ConfigInv, AloneAgrees, Config!Decoded
<1>7. SettledAgrees'
    <2> SUFFICES ASSUME NEW j \in Isolates, NEW k \in undisturbed'[j]
                 PROVE  /\ mem'[j][k] = Config!Decoded(configKV[k])
                        /\ \A c \in Calls : ~ Sets(c, k)'
                        /\ \A c \in Calls : Loads(c)' /\ configCall'[c].isolate = j =>
                              \A n \in configCall'[c].next .. 3 : Config!KeyOrder[n] # k
        BY <1>1 DEF SettledAgrees, Config!Decoded
    <2>1. j # i /\ k \in undisturbed[j] /\ k \in Config!Keys /\ mem'[j] = mem[j]
        BY <1>1 DEF ConfigInv, ConfigTypes
    <2> QED
        BY <1>5, <2>1 DEF ConfigInv, SettledAgrees
<1> QED
    BY <1>2, <1>4, <1>6, <1>7 DEF ConfigInv

LEMMA ConfigSteps == ConfigInv /\ [Config!Next]_(Config!vars) => ConfigInv'
<1> SUFFICES ASSUME ConfigInv, [Config!Next]_(Config!vars) PROVE ConfigInv'
    OBVIOUS
<1>1. CASE \E c \in Calls, i \in Isolates, k \in Config!Keys, v \in Config!Values :
              Config!BeginSet(c, i, k, v)
    <2>1. PICK c \in Calls, i \in Isolates, k \in Config!Keys, v \in Config!Values :
              Config!BeginSet(c, i, k, v)
        BY <1>1
    <2>2. PICK record : record = [pc |-> "putting", kind |-> "set", isolate |-> i, key |-> k,
                                  value |-> v, alone |-> TRUE]
        OBVIOUS
    <2>3. record \in SetCall /\ record.pc = "putting" /\ record.key = k
        BY <2>2 DEF SetCall
    <2>4. Config!Begins(c, record, {k}, TRUE)
        BY <2>1, <2>2 DEF Config!BeginSet
    <2> QED
        BY <2>3, <2>4, BeginsKeeps
<1>2. CASE \E c \in Calls, i \in Isolates : Config!BeginLoad(c, i)
    <2>1. PICK c \in Calls, i \in Isolates : Config!BeginLoad(c, i)
        BY <1>2
    <2>2. PICK record : record = [pc |-> "reading", kind |-> "load", isolate |-> i, next |-> 1,
                                  got |-> Absent, alone |-> TRUE]
        OBVIOUS
    <2>3. record \in LoadCall /\ record.pc = "reading"
        BY <2>2 DEF LoadCall
    <2>4. Config!Begins(c, record, Config!Keys, FALSE)
        BY <2>1, <2>2 DEF Config!BeginLoad
    <2> QED
        BY <2>3, <2>4, BeginsKeeps
<1>3. CASE \E c \in Calls : Config!PutInKV(c) \/ Config!PutFails(c)
    BY <1>3, PutKeeps
<1>4. CASE \E c \in Calls : Config!ApplySet(c)
    BY <1>4, ApplySetKeeps
<1>5. CASE \E c \in Calls : Config!ReadFromKV(c) \/ Config!ReadFails(c)
    BY <1>5, ReadKeeps
<1>6. CASE \E c \in Calls : Config!ApplyRead(c)
    BY <1>6, ApplyReadKeeps
<1>7. CASE \E i \in Isolates : Config!Restart(i)
    BY <1>7, RestartKeeps
<1>8. CASE UNCHANGED Config!vars
    <2>1. UNCHANGED <<configKV, mem, configCall, stored, undisturbed>>
        BY <1>8 DEF Config!vars
    <2> QED
        BY <2>1 DEF ConfigInv, ConfigTypes, WasStored, AloneAgrees, SettledAgrees, Sets, Loads,
                    Config!Active, Config!Concerns, Config!Decoded
<1> QED
    BY <1>1, <1>2, <1>3, <1>4, <1>5, <1>6, <1>7, <1>8 DEF Config!Next

\* The configuration, by itself: no knob has a value that KV has not held, and what a
\* call that met nobody has set, or loaded, is what KV holds.
THEOREM KnobsKept == Config!Spec => [](Config!TypeOK /\ Config!EnforcedWasStored
                                       /\ Config!UndisturbedAgree)
    BY ConfigInit, ConfigSteps, ConfigInvImplies, PTL DEF Config!Spec

-----------------------------------------------------------------------------
(* The cache of a layer *)

LayerNil == LayerValues \cup {Nil}

LEMMA LayerConstants ==
    /\ CacheMaxSize \in Nat \ {0} /\ Nil \notin LayerValues
    /\ \A v \in LayerNil : Count(v) \in LayerValues
    BY ConstantsAssumption DEF Layer!ConstantsOK, LayerNil

CacheOK(m) ==
    /\ IsFiniteSet(DOMAIN m) /\ Cardinality(DOMAIN m) <= CacheMaxSize
    /\ DOMAIN m \subseteq LayerKeys
    /\ \A k \in DOMAIN m : m[k] \in [v : LayerValues, live : BOOLEAN]

LEMMA WithoutFacts ==
    ASSUME NEW m, CacheOK(m), NEW k
    PROVE  /\ CacheOK(Layer!Without(m, k))
           /\ DOMAIN Layer!Without(m, k) = DOMAIN m \ {k}
           /\ \A x \in DOMAIN m \ {k} : Layer!Without(m, k)[x] = m[x]
           /\ k \in DOMAIN m =>
                 Cardinality(DOMAIN Layer!Without(m, k)) = Cardinality(DOMAIN m) - 1
<1> DEFINE d == Layer!Without(m, k)
<1>1. DOMAIN d = DOMAIN m \ {k} /\ \A x \in DOMAIN m \ {k} : d[x] = m[x]
    BY DEF Layer!Without
<1>2. /\ IsFiniteSet(DOMAIN d) /\ Cardinality(DOMAIN m) \in Nat
      /\ Cardinality(DOMAIN d) = IF k \in DOMAIN m THEN Cardinality(DOMAIN m) - 1
                                 ELSE Cardinality(DOMAIN m)
    BY <1>1, FS_RemoveElement, FS_CardinalityType DEF CacheOK
<1> HIDE DEF d
<1>3. CacheOK(d)
    BY <1>1, <1>2, LayerConstants DEF CacheOK
<1> QED
    BY <1>1, <1>2, <1>3 DEF d

\* The cache that results holds the value, and nothing of the others that it did not
\* hold; a full one has lost an entry first.
LEMMA UpdateCacheFacts ==
    ASSUME NEW m, CacheOK(m), NEW k \in LayerKeys, NEW v \in LayerValues,
           NEW d \in Layer!UpdateCache(m, k, v)
    PROVE  /\ CacheOK(d)
           /\ k \in DOMAIN d /\ d[k] = [v |-> v, live |-> TRUE]
           /\ DOMAIN d \subseteq DOMAIN m \cup {k}
           /\ \A x \in DOMAIN d \ {k} : d[x] = m[x]
<1>1. Layer!Cardinality(DOMAIN m) = Cardinality(DOMAIN m)
    BY DEF Layer!Cardinality, Cardinality
<1>2. Cardinality(DOMAIN m) \in Nat
    BY FS_CardinalityType DEF CacheOK
<1>3. PICK e : /\ CacheOK(e) /\ DOMAIN e \subseteq DOMAIN m /\ \A x \in DOMAIN e : e[x] = m[x]
               /\ Cardinality(DOMAIN e) <= CacheMaxSize - 1
               /\ d = Layer!Including(e, k, v)
    <2>1. CASE Layer!Cardinality(DOMAIN m) >= CacheMaxSize
        <3>1. PICK x \in Layer!Oldest(m) : d = Layer!Including(Layer!Without(m, x), k, v)
            BY <2>1 DEF Layer!UpdateCache
        <3>2. x \in DOMAIN m
            BY <3>1 DEF Layer!Oldest
        <3>3. PICK e : e = Layer!Without(m, x)
            OBVIOUS
        <3>4. /\ CacheOK(e) /\ DOMAIN e = DOMAIN m \ {x} /\ \A y \in DOMAIN m \ {x} : e[y] = m[y]
              /\ Cardinality(DOMAIN e) = Cardinality(DOMAIN m) - 1
            BY <3>2, <3>3, WithoutFacts
        <3>5. Cardinality(DOMAIN e) <= CacheMaxSize - 1
            BY <1>2, <3>4, LayerConstants DEF CacheOK
        <3>6. DOMAIN e \subseteq DOMAIN m /\ \A y \in DOMAIN e : e[y] = m[y]
            BY <3>4
        <3> QED
            BY <3>1, <3>3, <3>4, <3>5, <3>6
    <2>2. CASE ~ (Layer!Cardinality(DOMAIN m) >= CacheMaxSize)
        <3>1. d = Layer!Including(m, k, v)
            BY <2>2 DEF Layer!UpdateCache
        <3>2. Cardinality(DOMAIN m) <= CacheMaxSize - 1
            BY <1>1, <1>2, <2>2, LayerConstants
        <3> QED
            BY <3>1, <3>2
    <2> QED
        BY <2>1, <2>2
<1>4. /\ DOMAIN d = DOMAIN e \cup {k} /\ d[k] = [v |-> v, live |-> TRUE]
      /\ \A x \in DOMAIN e \ {k} : d[x] = e[x]
    BY <1>3 DEF Layer!Including, Layer!Entry
<1>5. /\ IsFiniteSet(DOMAIN d) /\ Cardinality(DOMAIN e) \in Nat
      /\ Cardinality(DOMAIN d) = IF k \in DOMAIN e THEN Cardinality(DOMAIN e)
                                 ELSE Cardinality(DOMAIN e) + 1
    BY <1>3, <1>4, FS_AddElement, FS_CardinalityType DEF CacheOK
<1>6. Cardinality(DOMAIN d) <= CacheMaxSize
    BY <1>3, <1>5, LayerConstants
<1>7. \A x \in DOMAIN d : d[x] \in [v : LayerValues, live : BOOLEAN]
    <2>1. \A x \in DOMAIN e : e[x] \in [v : LayerValues, live : BOOLEAN]
        BY <1>3 DEF CacheOK
    <2>2. d[k] \in [v : LayerValues, live : BOOLEAN]
        BY <1>4
    <2> QED
        BY <1>4, <2>1, <2>2
<1>8. DOMAIN d \subseteq LayerKeys
    BY <1>3, <1>4 DEF CacheOK
<1> QED
    BY <1>3, <1>4, <1>5, <1>6, <1>7, <1>8 DEF CacheOK

-----------------------------------------------------------------------------
(* The layer *)

LayerCall ==
    [pc : {"request", "writing", "got", "written", "deleted"},
     op : {"read", "write", "delete", "exists", "transaction"},
     l : Layers, k : LayerKeys, store : {"kv", "do"}, v : LayerNil,
     durable : BOOLEAN, base : LayerNil, sound : BOOLEAN, alone : BOOLEAN]

\* The calls that there are: by operation, how far they may be, and what a call that
\* writes, or has written, has to write.
Shaped == {r \in LayerCall :
    /\ r.op = "write" => r.pc \in {"request", "written"}
    /\ r.op = "delete" => r.pc \in {"request", "deleted"}
    /\ r.op \in {"read", "exists"} => r.pc \in {"request", "got"}
    /\ r.op = "transaction" => r.pc # "deleted"
    /\ r.op = "write" \/ r.pc \in {"writing", "written"} =>
          r.v \in LayerValues /\ r.store = Layer!StoreOf(r.durable)}

LayerTypes ==
    /\ kv \in [LayerKeys -> LayerNil] /\ dobj \in [LayerKeys -> LayerNil]
    /\ cache = [l \in Layers |-> cache[l]] /\ \A l \in Layers : CacheOK(cache[l])
    /\ call \in [Calls -> {Layer!Idle} \cup Shaped]
    /\ last \in [Layers -> [LayerKeys -> [known : BOOLEAN, v : LayerNil, mixed : BOOLEAN]]]

\* What the stores hold: for a read that asks both, and for a call that asks its own.
Value(k) == IF kv[k] # Nil THEN kv[k] ELSE dobj[k]
Kept(r) == IF r.store = "kv" THEN kv[r.k] ELSE dobj[r.k]

\* What a read has learned is still so.
Truly(r) ==
    /\ r.store = "do" => kv[r.k] = Nil
    /\ r.pc = "got" => r.v = Kept(r)

\* A call that is still alone: its reads and writes stand, and what it deletes is gone.
AloneOK(r) ==
    /\ r.sound
    /\ r.op = "transaction" /\ r.pc \in {"request", "got"} => Truly(r) /\ r.base = Value(r.k)
    /\ r.pc = "written" => Kept(r) = r.v
    /\ r.op = "delete" =>
          /\ r.k \notin DOMAIN cache[r.l]
          /\ r.store = "do" \/ r.pc = "deleted" => kv[r.k] = Nil
          /\ r.store = "do" /\ r.pc = "deleted" => dobj[r.k] = Nil

\* What a layer knows of a key: nobody is changing it, reads under way learn the truth,
\* and the stores and the cache hold it.
KnownOK(l, k) ==
    /\ \A c \in Calls : Layer!Active(c) /\ call[c].k = k =>
          ~ Layer!Mutates(call[c].op) /\ (call[c].op = "read" => Truly(call[c]))
    /\ ~ last[l][k].mixed =>
          /\ Value(k) = last[l][k].v
          /\ Layer!Hit(cache[l], k) => cache[l][k].v = last[l][k].v

\* A call that is still alone shares its key with none that would disturb it.
Apart ==
    \A c, d \in Calls :
        /\ c # d /\ Layer!Active(c) /\ Layer!Active(d) /\ call[c].k = call[d].k
        /\ call[c].alone
        => ~ Layer!Mutates(call[c].op) /\ ~ Layer!Mutates(call[d].op)

AloneHolds == \A c \in Calls : Layer!Active(c) /\ call[c].alone => AloneOK(call[c])
KnownHolds == \A l \in Layers, k \in LayerKeys : last[l][k].known => KnownOK(l, k)

LayerInv == LayerTypes /\ Apart /\ AloneHolds /\ KnownHolds

LEMMA LayerCallFacts ==
    ASSUME LayerTypes, NEW c \in Calls
    PROVE  /\ Layer!Active(c) => call[c] \in Shaped /\ call[c] \in LayerCall
           /\ ~ Layer!Active(c) => call[c] = Layer!Idle
           /\ Layer!Active(c) <=> call[c] # Layer!Idle
<1>1. call[c] \in {Layer!Idle} \cup Shaped
    BY DEF LayerTypes
<1>2. \A r \in Shaped : r \in LayerCall /\ r.pc # "idle"
    BY DEF Shaped, LayerCall
<1>3. Layer!Idle.pc = "idle"
    BY DEF Layer!Idle
<1> QED
    BY <1>1, <1>2, <1>3 DEF Layer!Active

LEMMA LayerInvImplies ==
    LayerInv => /\ Layer!TypeOK /\ Layer!CacheBounded /\ Layer!LostUpdateNeedsCause
                /\ Layer!ReadsLast
<1> SUFFICES ASSUME LayerInv
             PROVE  /\ Layer!TypeOK /\ Layer!CacheBounded /\ Layer!LostUpdateNeedsCause
                    /\ Layer!ReadsLast
    OBVIOUS
<1>1. \A c \in Calls : Layer!Active(c) =>
            call[c].pc \in {"request", "writing", "got", "written", "deleted"}
    BY LayerCallFacts DEF LayerInv, LayerCall
<1>2. \A l \in Layers : \A k \in DOMAIN cache[l] : k \in LayerKeys /\ cache[l][k].v \in LayerValues
    BY DEF LayerInv, LayerTypes, CacheOK
<1>3. Layer!TypeOK
    BY <1>1, <1>2 DEF LayerInv, LayerTypes, LayerNil, Layer!TypeOK
<1>4. Layer!CacheBounded
    BY DEF LayerInv, LayerTypes, CacheOK, Layer!CacheBounded, Layer!Cardinality, Cardinality
<1>5. Layer!LostUpdateNeedsCause
    BY DEF LayerInv, AloneHolds, AloneOK, Layer!LostUpdateNeedsCause
<1>6. Layer!ReadsLast
    BY DEF LayerInv, KnownHolds, KnownOK, Value, Layer!ReadsLast, Layer!Lookup
<1> QED
    BY <1>3, <1>4, <1>5, <1>6

LEMMA LayerInit == Layer!Init => LayerInv
<1> SUFFICES ASSUME Layer!Init PROVE LayerInv
    OBVIOUS
<1>1. \A l \in Layers : DOMAIN cache[l] = {}
    BY DEF Layer!Init
<1>2. \A l \in Layers : CacheOK(cache[l])
    BY <1>1, FS_EmptySet, LayerConstants DEF CacheOK
<1>3. \A c \in Calls : ~ Layer!Active(c)
    BY DEF Layer!Init, Layer!Active, Layer!Idle
<1>4. last \in [Layers -> [LayerKeys -> [known : BOOLEAN, v : LayerNil, mixed : BOOLEAN]]]
      /\ \A l \in Layers, k \in LayerKeys : last[l][k].v = Nil
    BY DEF Layer!Init, Layer!Unknown, LayerNil
<1>5. LayerTypes
    BY <1>2, <1>4 DEF Layer!Init, LayerTypes, LayerNil
<1>6. KnownHolds
    BY <1>1, <1>3, <1>4 DEF Layer!Init, KnownHolds, KnownOK, Value, Layer!Hit
<1> QED
    BY <1>3, <1>5, <1>6 DEF LayerInv, Apart, AloneHolds

\* Entries go, or expire: no call notices, and what is left is what was there.
LEMMA ShrinkKeeps ==
    ASSUME LayerInv, UNCHANGED <<kv, dobj, call, last>>,
           cache' = [l \in Layers |-> cache'[l]],
           \A l \in Layers : CacheOK(cache'[l]),
           \A l \in Layers : DOMAIN cache'[l] \subseteq DOMAIN cache[l],
           \A l \in Layers : \A k \in DOMAIN cache'[l] :
                 cache'[l][k].live => cache'[l][k] = cache[l][k]
    PROVE  LayerInv'
<1>1. LayerTypes'
    BY DEF LayerInv, LayerTypes
<1>2. Apart'
    BY DEF LayerInv, Apart, Layer!Active
<1>3. AloneHolds'
    <2> SUFFICES ASSUME NEW c \in Calls, Layer!Active(c), call[c].alone PROVE AloneOK(call[c])'
        BY DEF AloneHolds, Layer!Active
    <2>1. AloneOK(call[c]) /\ call[c].l \in Layers
        BY LayerCallFacts DEF LayerInv, AloneHolds, LayerCall
    <2> QED
        BY <2>1 DEF AloneOK, Truly, Value, Kept
<1>4. KnownHolds'
    <2> SUFFICES ASSUME NEW l \in Layers, NEW k \in LayerKeys, last[l][k].known
                 PROVE  KnownOK(l, k)'
        BY DEF KnownHolds
    <2>1. KnownOK(l, k)
        BY DEF LayerInv, KnownHolds
    <2>2. Layer!Hit(cache[l], k)' => Layer!Hit(cache[l], k) /\ cache'[l][k].v = cache[l][k].v
        BY DEF Layer!Hit
    <2> QED
        BY <2>1, <2>2 DEF KnownOK, Value, Truly, Kept, Layer!Active
<1> QED
    BY <1>1, <1>2, <1>3, <1>4 DEF LayerInv

LEMMA ExpireKeeps ==
    ASSUME LayerInv, NEW l \in Layers, NEW k \in LayerKeys, Layer!Expire(l, k)
    PROVE  LayerInv'
<1>1. PICK m : m = cache[l]
    OBVIOUS
<1>2. CacheOK(m) /\ k \in DOMAIN m /\ m[k].live
    BY <1>1 DEF LayerInv, LayerTypes, Layer!Expire, Layer!Hit
<1>3. PICK d : d = [m EXCEPT ![k].live = FALSE]
    OBVIOUS
<1>4. /\ DOMAIN d = DOMAIN m /\ d[k].live = FALSE /\ \A x \in DOMAIN m \ {k} : d[x] = m[x]
      /\ d[k] \in [v : LayerValues, live : BOOLEAN]
    BY <1>2, <1>3 DEF CacheOK
<1>5. CacheOK(d)
    BY <1>2, <1>4 DEF CacheOK
<1>6. cache' = [cache EXCEPT ![l] = d] /\ UNCHANGED <<kv, dobj, call, last>>
    BY <1>1, <1>3 DEF Layer!Expire
<1>7. /\ cache' = [x \in Layers |-> cache'[x]] /\ cache'[l] = d
      /\ \A x \in Layers \ {l} : cache'[x] = cache[x]
    BY <1>6 DEF LayerInv, LayerTypes
<1>8. \A x \in Layers : CacheOK(cache'[x])
    BY <1>5, <1>7 DEF LayerInv, LayerTypes
<1>9. /\ \A x \in Layers : DOMAIN cache'[x] \subseteq DOMAIN cache[x]
      /\ \A x \in Layers : \A y \in DOMAIN cache'[x] :
            cache'[x][y].live => cache'[x][y] = cache[x][y]
    BY <1>1, <1>4, <1>7
<1> QED
    BY <1>6, <1>7, <1>8, <1>9, ShrinkKeeps

LEMMA ShutdownKeeps ==
    ASSUME LayerInv, NEW l \in Layers, Layer!Shutdown(l)
    PROVE  LayerInv'
<1>1. PICK d : d = [k \in {} |-> Nil]
    OBVIOUS
<1>2. DOMAIN d = {}
    BY <1>1
<1>3. CacheOK(d)
    BY <1>2, FS_EmptySet, LayerConstants DEF CacheOK
<1>4. cache' = [cache EXCEPT ![l] = d] /\ UNCHANGED <<kv, dobj, call, last>>
    BY <1>1 DEF Layer!Shutdown
<1>5. /\ cache' = [x \in Layers |-> cache'[x]] /\ cache'[l] = d
      /\ \A x \in Layers \ {l} : cache'[x] = cache[x]
    BY <1>4 DEF LayerInv, LayerTypes
<1>6. \A x \in Layers : CacheOK(cache'[x])
    BY <1>3, <1>5 DEF LayerInv, LayerTypes
<1>7. /\ \A x \in Layers : DOMAIN cache'[x] \subseteq DOMAIN cache[x]
      /\ \A x \in Layers : \A y \in DOMAIN cache'[x] :
            cache'[x][y].live => cache'[x][y] = cache[x][y]
    BY <1>2, <1>5
<1> QED
    BY <1>4, <1>5, <1>6, <1>7, ShrinkKeeps

\* A call begins: those it disturbs, and is disturbed by, are alone no longer, and if
\* it writes nobody knows the key.  At most the key's entry is dropped.
LEMMA LayerBegins ==
    ASSUME LayerInv, NEW c \in Calls, NEW record \in Shaped, Layer!Begins(c, record),
           UNCHANGED <<kv, dobj>>,
           record.pc \in {"request", "writing"}, record.sound,
           record.op = "read" => record.pc = "request",
           record.pc = "request" /\ record.op # "write" => record.store = "kv",
           record.op = "transaction" /\ record.pc = "request" => record.base = Value(record.k),
           \/ UNCHANGED cache /\ record.op # "delete"
           \/ cache' = [cache EXCEPT ![record.l] = Layer!Without(@, record.k)]
    PROVE  LayerInv'
<1>0. record \in LayerCall /\ record.l \in Layers /\ record.k \in LayerKeys
    BY DEF Shaped, LayerCall
<1>1. PICK met : met = Layer!Met(record)
    OBVIOUS
<1>2. /\ \A d \in met : d \in Calls /\ Layer!Active(d) /\ call[d].k = record.k
      /\ \A d \in Calls : Layer!Active(d) /\ call[d].k = record.k
            /\ (Layer!Mutates(call[d].op) \/ Layer!Mutates(record.op)) => d \in met
    BY <1>1 DEF Layer!Met
<1>3. /\ ~ Layer!Active(c)
      /\ call' = [d \in Calls |->
                IF d = c THEN [record EXCEPT !.alone = (met = {})]
                ELSE IF d \in met THEN [call[d] EXCEPT !.alone = FALSE] ELSE call[d]]
      /\ last' = IF Layer!Mutates(record.op)
                 THEN [l \in Layers |-> [last[l] EXCEPT ![record.k] = Layer!Unknown]] ELSE last
    BY <1>1 DEF Layer!Begins
<1>4. PICK new : new = [record EXCEPT !.alone = (met = {})]
    OBVIOUS
<1>5. /\ call'[c] = new /\ new \in Shaped /\ new.alone = (met = {})
      /\ new.pc = record.pc /\ new.op = record.op /\ new.l = record.l /\ new.k = record.k
      /\ new.store = record.store /\ new.v = record.v /\ new.base = record.base
      /\ new.sound = record.sound
    BY <1>0, <1>3, <1>4 DEF Shaped, LayerCall
<1>6. ASSUME NEW d \in Calls \ {c}
      PROVE  /\ call'[d] \in {Layer!Idle} \cup Shaped
             /\ Layer!Active(d)' <=> Layer!Active(d)
             /\ d \notin met => call'[d] = call[d]
             /\ Layer!Active(d) =>
                   /\ call'[d].pc = call[d].pc /\ call'[d].op = call[d].op
                   /\ call'[d].l = call[d].l /\ call'[d].k = call[d].k
                   /\ call'[d].store = call[d].store /\ call'[d].v = call[d].v
                   /\ call'[d].alone => call[d].alone /\ d \notin met
    <2>1. CASE d \in met
        <3>1. call[d] \in Shaped /\ call[d] \in LayerCall
            BY <1>2, <2>1, LayerCallFacts DEF LayerInv
        <3>2. call'[d] = [call[d] EXCEPT !.alone = FALSE]
            BY <1>3, <2>1
        <3> QED
            BY <2>1, <3>1, <3>2 DEF Shaped, LayerCall, Layer!Active
    <2>2. CASE d \notin met
        <3>1. call'[d] = call[d]
            BY <1>3, <2>2
        <3> QED
            BY <2>2, <3>1 DEF LayerInv, LayerTypes, Layer!Active
    <2> QED
        BY <2>1, <2>2
<1>7. /\ cache' = [l \in Layers |-> cache'[l]]
      /\ \A l \in Layers : /\ CacheOK(cache'[l])
                           /\ DOMAIN cache'[l] \subseteq DOMAIN cache[l]
                           /\ \A k \in DOMAIN cache'[l] : cache'[l][k] = cache[l][k]
      /\ record.op = "delete" => record.k \notin DOMAIN cache'[record.l]
    <2>1. CASE UNCHANGED cache /\ record.op # "delete"
        BY <2>1 DEF LayerInv, LayerTypes
    <2>2. CASE cache' = [cache EXCEPT ![record.l] = Layer!Without(@, record.k)]
        <3>1. PICK m, k : m = cache[record.l] /\ k = record.k
            OBVIOUS
        <3>2. CacheOK(m)
            BY <1>0, <3>1 DEF LayerInv, LayerTypes
        <3>3. PICK d : /\ d = Layer!Without(m, k) /\ CacheOK(d) /\ DOMAIN d = DOMAIN m \ {k}
                       /\ \A x \in DOMAIN m \ {k} : d[x] = m[x]
            BY ONLY <3>2, WithoutFacts
        <3>4. /\ cache' = [l \in Layers |-> cache'[l]] /\ cache'[record.l] = d
              /\ \A l \in Layers \ {record.l} : cache'[l] = cache[l]
            BY <1>0, <2>2, <3>1, <3>3 DEF LayerInv, LayerTypes
        <3>5. ASSUME NEW l \in Layers
              PROVE  /\ CacheOK(cache'[l]) /\ DOMAIN cache'[l] \subseteq DOMAIN cache[l]
                     /\ \A x \in DOMAIN cache'[l] : cache'[l][x] = cache[l][x]
            <4>1. CASE l = record.l
                BY <3>1, <3>3, <3>4, <4>1
            <4>2. CASE l # record.l
                BY <3>4, <4>2 DEF LayerInv, LayerTypes
            <4> QED
                BY <4>1, <4>2
        <3>6. record.k \notin DOMAIN cache'[record.l]
            BY <3>1, <3>3, <3>4
        <3> QED
            BY <3>4, <3>5, <3>6
    <2> QED
        BY <2>1, <2>2
<1>8. LayerTypes'
    <2>1. call' \in [Calls -> {Layer!Idle} \cup Shaped]
        BY <1>3, <1>5, <1>6
    <2>2. last' \in [Layers -> [LayerKeys -> [known : BOOLEAN, v : LayerNil, mixed : BOOLEAN]]]
        BY <1>3 DEF LayerInv, LayerTypes, Layer!Unknown, LayerNil
    <2> QED
        BY <1>7, <2>1, <2>2 DEF LayerInv, LayerTypes
<1>9. Layer!Active(c)'
    BY <1>5, <1>8, LayerCallFacts DEF Layer!Active
<1>10. Apart'
    <2> SUFFICES ASSUME NEW x \in Calls, NEW y \in Calls, x # y, Layer!Active(x)', Layer!Active(y)',
                        call'[x].k = call'[y].k, call'[x].alone
                 PROVE  ~ Layer!Mutates(call'[x].op) /\ ~ Layer!Mutates(call'[y].op)
        BY DEF Apart, Layer!Mutates
    <2>1. CASE x = c
        <3>1. met = {} /\ Layer!Active(y) /\ call'[y].op = call[y].op /\ call[y].k = record.k
            BY <1>5, <1>6, <2>1
        <3> QED
            BY <1>2, <1>5, <2>1, <3>1
    <2>2. CASE y = c
        <3>1. x \notin met /\ Layer!Active(x) /\ call'[x].op = call[x].op /\ call[x].k = record.k
            BY <1>5, <1>6, <2>2
        <3> QED
            BY <1>2, <1>5, <2>2, <3>1
    <2>3. CASE x # c /\ y # c
        BY <1>6, <2>3 DEF LayerInv, Apart
    <2> QED
        BY <2>1, <2>2, <2>3
<1>11. AloneHolds'
    <2> SUFFICES ASSUME NEW x \in Calls, Layer!Active(x)', call'[x].alone PROVE AloneOK(call[x])'
        BY DEF AloneHolds
    <2>1. CASE x = c
        <3>1. /\ new.pc \in {"request", "writing"} /\ new.sound
              /\ new.op \in {"transaction", "delete"} /\ new.pc = "request" => new.store = "kv"
              /\ new.op = "delete" => new.pc = "request"
            BY <1>5 DEF Shaped
        <3>2. new.op = "transaction" /\ new.pc = "request" => new.base = Value(new.k)'
            BY <1>5 DEF Value
        <3>3. new.op = "delete" => new.k \notin DOMAIN cache'[new.l]
            BY <1>5, <1>7
        <3>4. AloneOK(new)'
            BY <3>1, <3>2, <3>3 DEF AloneOK, Truly, Value
        <3> QED
            BY <1>5, <2>1, <3>4 DEF AloneOK, Truly, Value, Kept
    <2>2. CASE x # c
        <3>1. call'[x] = call[x] /\ AloneOK(call[x]) /\ call[x].l \in Layers
            BY <1>6, <2>2, LayerCallFacts DEF LayerInv, AloneHolds, LayerCall
        <3> QED
            BY <1>7, <3>1 DEF AloneOK, Truly, Value, Kept
    <2> QED
        BY <2>1, <2>2
<1>12. KnownHolds'
    <2> SUFFICES ASSUME NEW l \in Layers, NEW k \in LayerKeys, last'[l][k].known
                 PROVE  KnownOK(l, k)'
        BY DEF KnownHolds
    <2>1. last'[l][k] = last[l][k] /\ (Layer!Mutates(record.op) => k # record.k)
        BY <1>3 DEF LayerInv, LayerTypes, Layer!Unknown
    <2>2. KnownOK(l, k)
        BY <2>1 DEF LayerInv, KnownHolds
    <2>3. ASSUME NEW d \in Calls, Layer!Active(d)', call'[d].k = k
          PROVE  ~ Layer!Mutates(call'[d].op) /\ (call'[d].op = "read" => Truly(call[d])')
        <3>1. CASE d = c
            BY <1>5, <2>1, <2>3, <3>1 DEF Truly
        <3>2. CASE d # c
            <4>1. /\ Layer!Active(d) /\ call[d].k = k /\ call'[d].op = call[d].op
                  /\ call'[d].pc = call[d].pc /\ call'[d].store = call[d].store
                  /\ call'[d].v = call[d].v
                BY <1>6, <2>3, <3>2
            <4>2. ~ Layer!Mutates(call[d].op) /\ (call[d].op = "read" => Truly(call[d]))
                BY <2>2, <4>1 DEF KnownOK
            <4> QED
                BY <2>3, <4>1, <4>2 DEF Truly, Kept
        <3> QED
            BY <3>1, <3>2
    <2>4. Layer!Hit(cache[l], k)' => Layer!Hit(cache[l], k) /\ cache'[l][k] = cache[l][k]
        BY <1>7 DEF Layer!Hit
    <2> QED
        BY <2>1, <2>2, <2>3, <2>4 DEF KnownOK, Value, Layer!Mutates
<1> QED
    BY <1>8, <1>10, <1>11, <1>12 DEF LayerInv

LEMMA CallsBegin ==
    ASSUME LayerInv, NEW c \in Calls, NEW l \in Layers, NEW k \in LayerKeys,
           \/ \E v \in LayerValues, durable \in BOOLEAN : Layer!Write(c, l, k, v, durable)
           \/ \E durable \in BOOLEAN : \/ Layer!ReadMiss(c, "transaction", l, k, durable)
                                       \/ Layer!TransactionHit(c, l, k, durable)
           \/ Layer!ReadMiss(c, "read", l, k, FALSE)
           \/ Layer!Delete(c, l, k) \/ Layer!Exists(c, l, k)
    PROVE  LayerInv'
<1>0. /\ Value(k) \in LayerNil
      /\ Layer!Hit(cache[l], k) => cache[l][k].v \in LayerValues
    BY DEF Value, LayerInv, LayerTypes, CacheOK, Layer!Hit
<1>1. CASE \E v \in LayerValues, durable \in BOOLEAN : Layer!Write(c, l, k, v, durable)
    <2>1. PICK v \in LayerValues, durable \in BOOLEAN : Layer!Write(c, l, k, v, durable)
        BY <1>1
    <2>2. PICK r : r = [Layer!Call("write", l, k) EXCEPT !.store = Layer!StoreOf(durable), !.v = v,
                                                         !.durable = durable]
        OBVIOUS
    <2>3. /\ r \in Shaped /\ r.pc = "request" /\ r.op = "write" /\ r.sound
          /\ r.l = l /\ r.k = k
        BY <2>2 DEF Shaped, LayerCall, LayerNil, Layer!Call, Layer!StoreOf
    <2>4. Layer!Begins(c, r) /\ UNCHANGED <<kv, dobj>> /\ UNCHANGED cache
        BY <2>1, <2>2 DEF Layer!Write
    <2> QED
        BY <2>3, <2>4, LayerBegins
<1>2. CASE \E op \in {"read", "transaction"}, durable \in BOOLEAN :
              Layer!ReadMiss(c, op, l, k, durable)
    <2>1. PICK op \in {"read", "transaction"}, durable \in BOOLEAN :
              Layer!ReadMiss(c, op, l, k, durable)
        BY <1>2
    <2>2. PICK r : r = [Layer!Call(op, l, k) EXCEPT
                    !.durable = durable,
                    !.base = IF op = "transaction" THEN Layer!Lookup(l, k) ELSE Nil]
        OBVIOUS
    <2>3. Layer!Lookup(l, k) = Value(k)
        BY <2>1 DEF Layer!ReadMiss, Layer!Lookup, Value
    <2>4. /\ r \in Shaped /\ r.pc = "request" /\ r.op = op /\ r.store = "kv" /\ r.sound
          /\ r.l = l /\ r.k = k /\ (op = "transaction" => r.base = Value(k))
        BY <1>0, <2>2, <2>3 DEF Shaped, LayerCall, LayerNil, Layer!Call
    <2>5. /\ Layer!Begins(c, r) /\ UNCHANGED <<kv, dobj>>
          /\ cache' = [cache EXCEPT ![l] = Layer!Without(@, k)]
        BY <2>1, <2>2 DEF Layer!ReadMiss
    <2> QED
        BY <2>4, <2>5, LayerBegins
<1>3. CASE \E durable \in BOOLEAN : Layer!TransactionHit(c, l, k, durable)
    <2>1. PICK durable \in BOOLEAN : Layer!TransactionHit(c, l, k, durable)
        BY <1>3
    <2>2. PICK r : r = [Layer!Call("transaction", l, k) EXCEPT
                        !.pc = "writing", !.store = Layer!StoreOf(durable), !.durable = durable,
                        !.v = Count(cache[l][k].v)]
        OBVIOUS
    <2>3. Count(cache[l][k].v) \in LayerValues
        BY <1>0, <2>1, LayerConstants DEF Layer!TransactionHit, LayerNil
    <2>4. /\ r \in Shaped /\ r.pc = "writing" /\ r.op = "transaction" /\ r.sound
          /\ r.l = l /\ r.k = k
        BY <2>2, <2>3 DEF Shaped, LayerCall, LayerNil, Layer!Call, Layer!StoreOf
    <2>5. Layer!Begins(c, r) /\ UNCHANGED <<kv, dobj>> /\ UNCHANGED cache
        BY <2>1, <2>2 DEF Layer!TransactionHit
    <2> QED
        BY <2>4, <2>5, LayerBegins
<1>4. CASE Layer!Delete(c, l, k) \/ Layer!Exists(c, l, k)
    <2>1. PICK op \in {"delete", "exists"} :
              /\ Layer!Begins(c, Layer!Call(op, l, k)) /\ UNCHANGED <<kv, dobj>>
              /\ cache' = [cache EXCEPT ![l] = Layer!Without(@, k)]
        BY <1>4 DEF Layer!Delete, Layer!Exists
    <2>2. PICK r : r = Layer!Call(op, l, k)
        OBVIOUS
    <2>3. /\ r \in Shaped /\ r.pc = "request" /\ r.op = op /\ r.store = "kv" /\ r.sound
          /\ r.l = l /\ r.k = k
        BY <2>2 DEF Shaped, LayerCall, LayerNil, Layer!Call
    <2>4. /\ Layer!Begins(c, r) /\ UNCHANGED <<kv, dobj>>
          /\ cache' = [cache EXCEPT ![r.l] = Layer!Without(@, r.k)]
        BY <2>1, <2>2, <2>3
    <2> QED
        BY <2>3, <2>4, LayerBegins
<1> QED
    BY <1>1, <1>2, <1>3, <1>4

\* A call goes on, or ends.  Only a call that mutates its key changes a store, only at
\* that key; the cache gains at most the key, and then, from a read, what the stores
\* hold; a call on the key of a layer that nothing disturbed leaves what it says.
LEMMA LayerGoesOn ==
    ASSUME LayerInv, NEW c \in Calls, Layer!Active(c), NEW new, NEW o, o = call[c],
           call' = [d \in Calls |-> call'[d]], call'[c] = new,
           \A d \in Calls \ {c} : call'[d] = call[d],
           \/ new = Layer!Idle
           \/ /\ new \in Shaped /\ new.op = o.op /\ new.l = o.l /\ new.k = o.k
              /\ new.alone = o.alone
              /\ o.alone /\ AloneOK(o) => AloneOK(new)'
              /\ o.op = "read" /\ Truly(o) => Truly(new)',
           kv' \in [LayerKeys -> LayerNil], dobj' \in [LayerKeys -> LayerNil],
           \A k \in LayerKeys : k # o.k \/ ~ Layer!Mutates(o.op) =>
                 kv'[k] = kv[k] /\ dobj'[k] = dobj[k],
           cache' = [l \in Layers |-> cache'[l]],
           \A l \in Layers : CacheOK(cache'[l]),
           \A l \in Layers : \A k \in DOMAIN cache'[l] :
                 \/ k \in DOMAIN cache[l] /\ cache'[l][k] = cache[l][k]
                 \/ /\ l = o.l /\ k = o.k /\ o.op # "delete"
                    /\ ~ Layer!Mutates(o.op) => o.op = "read"
                    /\ o.op = "read" /\ Truly(o) => cache'[l][k].v = Value(k),
           last' \in [Layers -> [LayerKeys -> [known : BOOLEAN, v : LayerNil, mixed : BOOLEAN]]],
           \A l \in Layers, k \in LayerKeys :
                 \/ last'[l][k] = last[l][k]
                 \/ /\ l = o.l /\ k = o.k /\ o.alone /\ Layer!Mutates(o.op)
                    /\ new = Layer!Idle
                    /\ ~ last'[l][k].mixed =>
                          /\ Value(k)' = last'[l][k].v
                          /\ Layer!Hit(cache[l], k)' => cache'[l][k].v = last'[l][k].v
    PROVE  LayerInv'
<1>1. /\ o \in Shaped /\ o \in LayerCall /\ o.l \in Layers /\ o.k \in LayerKeys
    BY LayerCallFacts DEF LayerInv, LayerCall
<1>2. Layer!Active(c)' => new # Layer!Idle
    BY DEF Layer!Active, Layer!Idle
<1>3. \A d \in Calls \ {c} : Layer!Active(d)' <=> Layer!Active(d)
    BY DEF Layer!Active
<1>4. LayerTypes'
    <2>1. \A d \in Calls \ {c} : call'[d] \in {Layer!Idle} \cup Shaped
        BY DEF LayerInv, LayerTypes
    <2>2. call' \in [Calls -> {Layer!Idle} \cup Shaped]
        BY <2>1
    <2> QED
        BY <2>2 DEF LayerTypes
<1>5. Apart'
    <2> SUFFICES ASSUME NEW x \in Calls, NEW y \in Calls, x # y, Layer!Active(x)', Layer!Active(y)',
                        call'[x].k = call'[y].k, call'[x].alone
                 PROVE  ~ Layer!Mutates(call'[x].op) /\ ~ Layer!Mutates(call'[y].op)
        BY DEF Apart, Layer!Mutates
    <2>1. \A z \in {x, y} : /\ Layer!Active(z) /\ call'[z].op = call[z].op
                            /\ call'[z].k = call[z].k /\ call'[z].alone = call[z].alone
        BY <1>2, <1>3
    <2> QED
        BY <2>1 DEF LayerInv, Apart
<1>6. AloneHolds'
    <2> SUFFICES ASSUME NEW x \in Calls, Layer!Active(x)', call'[x].alone PROVE AloneOK(call[x])'
        BY DEF AloneHolds
    <2>1. CASE x = c
        <3>1. new # Layer!Idle /\ o.alone
            BY <1>2, <2>1
        <3>2. AloneOK(o)
            BY <3>1 DEF LayerInv, AloneHolds
        <3>3. AloneOK(new)'
            BY <3>1, <3>2
        <3> QED
            BY <2>1, <3>3 DEF AloneOK, Truly, Value, Kept
    <2>2. CASE x # c
        <3>1. /\ Layer!Active(x) /\ call'[x] = call[x] /\ AloneOK(call[x])
              /\ call[x].l \in Layers /\ call[x].k \in LayerKeys
            BY <1>3, <2>2, LayerCallFacts DEF LayerInv, AloneHolds, LayerCall
        <3>2. call[x].k = o.k => ~ Layer!Mutates(call[x].op) /\ ~ Layer!Mutates(o.op)
            BY <2>2, <3>1 DEF LayerInv, Apart
        <3>3. /\ kv'[call[x].k] = kv[call[x].k] /\ dobj'[call[x].k] = dobj[call[x].k]
            BY <3>1, <3>2
        <3>4. call[x].op = "delete" /\ call[x].k \notin DOMAIN cache[call[x].l]
              => call[x].k \notin DOMAIN cache'[call[x].l]
            BY <3>1, <3>2 DEF Layer!Mutates
        <3> QED
            BY <3>1, <3>3, <3>4 DEF AloneOK, Truly, Value, Kept
    <2> QED
        BY <2>1, <2>2
<1>7. KnownHolds'
    <2> SUFFICES ASSUME NEW l \in Layers, NEW k \in LayerKeys, last'[l][k].known
                 PROVE  KnownOK(l, k)'
        BY DEF KnownHolds
    <2>1. CASE last'[l][k] = last[l][k]
        <3>1. KnownOK(l, k)
            BY <2>1 DEF LayerInv, KnownHolds
        <3>2. k = o.k => ~ Layer!Mutates(o.op) /\ (o.op = "read" => Truly(o))
            BY <3>1 DEF KnownOK
        <3>3. kv'[k] = kv[k] /\ dobj'[k] = dobj[k]
            BY <3>2
        <3>4. ASSUME NEW d \in Calls, Layer!Active(d)', call'[d].k = k
              PROVE  ~ Layer!Mutates(call'[d].op) /\ (call'[d].op = "read" => Truly(call[d])')
            <4>1. CASE d = c
                <5>1. new \in Shaped /\ new.op = o.op /\ new.k = o.k
                    BY <1>2, <3>4, <4>1
                <5>2. ~ Layer!Mutates(new.op) /\ (new.op = "read" => Truly(new)')
                    BY <1>2, <3>2, <3>4, <4>1, <5>1
                <5> QED
                    BY <4>1, <5>2 DEF Truly, Kept
            <4>2. CASE d # c
                <5>1. /\ Layer!Active(d) /\ call'[d] = call[d]
                      /\ ~ Layer!Mutates(call[d].op) /\ (call[d].op = "read" => Truly(call[d]))
                    BY <1>3, <3>1, <3>4, <4>2 DEF KnownOK
                <5> QED
                    BY <3>3, <3>4, <5>1 DEF Truly, Kept
            <4> QED
                BY <4>1, <4>2
        <3>5. Layer!Hit(cache[l], k)' =>
                 \/ Layer!Hit(cache[l], k) /\ cache'[l][k].v = cache[l][k].v
                 \/ cache'[l][k].v = Value(k)
            BY <3>2 DEF Layer!Hit
        <3> QED
            BY <2>1, <3>1, <3>3, <3>4, <3>5 DEF KnownOK, Value, Layer!Mutates
    <2>2. CASE last'[l][k] # last[l][k]
        <3>1. /\ l = o.l /\ k = o.k /\ o.alone /\ Layer!Mutates(o.op)
              /\ new = Layer!Idle
              /\ ~ last'[l][k].mixed =>
                    /\ Value(k)' = last'[l][k].v
                    /\ Layer!Hit(cache[l], k)' => cache'[l][k].v = last'[l][k].v
            BY <2>2
        <3>2. \A d \in Calls : Layer!Active(d)' => call'[d].k # k
            BY <1>2, <1>3, <3>1 DEF LayerInv, Apart
        <3> QED
            BY <3>1, <3>2 DEF KnownOK
    <2> QED
        BY <2>1, <2>2
<1> QED
    BY <1>4, <1>5, <1>6, <1>7 DEF LayerInv

\* The call's value enters the cache of its layer.
LEMMA LayerCaches ==
    ASSUME LayerInv, NEW c \in Calls, Layer!Active(c), NEW o, o = call[c], o.v \in LayerValues,
           \E d \in Layer!UpdateCache(cache[call[c].l], call[c].k, call[c].v) :
                 cache' = [cache EXCEPT ![call[c].l] = d]
    PROVE  /\ cache' = [l \in Layers |-> cache'[l]]
           /\ \A l \in Layers : CacheOK(cache'[l])
           /\ cache'[o.l][o.k].v = o.v
           /\ \A l \in Layers : \A k \in DOMAIN cache'[l] :
                 (k \in DOMAIN cache[l] /\ cache'[l][k] = cache[l][k]) \/ (l = o.l /\ k = o.k)
<1>1. o.l \in Layers /\ o.k \in LayerKeys
    BY LayerCallFacts DEF LayerInv, LayerCall
<1>2. PICK m, l0, k0, v0 : m = cache[o.l] /\ l0 = o.l /\ k0 = o.k /\ v0 = o.v
    OBVIOUS
<1>3. CacheOK(m) /\ l0 \in Layers /\ k0 \in LayerKeys /\ v0 \in LayerValues
    BY <1>1, <1>2 DEF LayerInv, LayerTypes
<1>4. PICK d \in Layer!UpdateCache(m, k0, v0) : cache' = [cache EXCEPT ![l0] = d]
    BY <1>2
<1>5. /\ CacheOK(d) /\ d[k0] = [v |-> v0, live |-> TRUE]
      /\ DOMAIN d \subseteq DOMAIN m \cup {k0} /\ \A x \in DOMAIN d \ {k0} : d[x] = m[x]
    BY ONLY <1>3, <1>4, UpdateCacheFacts
<1>6. /\ cache' = [l \in Layers |-> cache'[l]] /\ cache'[l0] = d
      /\ \A l \in Layers \ {l0} : cache'[l] = cache[l]
    BY <1>3, <1>4 DEF LayerInv, LayerTypes
<1>7. \A l \in Layers : CacheOK(cache'[l])
    BY <1>5, <1>6 DEF LayerInv, LayerTypes
<1>8. cache'[o.l][o.k].v = o.v
    BY <1>2, <1>5, <1>6
<1>9. ASSUME NEW l \in Layers, NEW k \in DOMAIN cache'[l]
      PROVE  (k \in DOMAIN cache[l] /\ cache'[l][k] = cache[l][k]) \/ (l = o.l /\ k = o.k)
    BY <1>2, <1>5, <1>6
<1> QED
    BY <1>6, <1>7, <1>8, <1>9

LEMMA ServeKeeps ==
    ASSUME LayerInv, NEW c \in Calls, Layer!Serve(c)
    PROVE  LayerInv'
<1>1. PICK o : o = call[c]
    OBVIOUS
<1>2. /\ Layer!Active(c) /\ o \in Shaped /\ o \in LayerCall
      /\ o.pc \in {"request", "writing"} /\ o.k \in LayerKeys /\ o.v \in LayerNil
    <2>1. Layer!Active(c)
        BY DEF Layer!Serve, Layer!Active
    <2> QED
        BY <1>1, <2>1, LayerCallFacts DEF LayerInv, LayerCall, Layer!Serve
<1>3. /\ cache' = cache /\ last' = last
      /\ cache' = [l \in Layers |-> cache'[l]] /\ \A l \in Layers : CacheOK(cache'[l])
      /\ last' \in [Layers -> [LayerKeys -> [known : BOOLEAN, v : LayerNil, mixed : BOOLEAN]]]
    BY DEF Layer!Serve, LayerInv, LayerTypes
<1>4. ASSUME NEW v \in LayerNil, Layer!Put(c, v)
      PROVE  /\ kv' \in [LayerKeys -> LayerNil] /\ dobj' \in [LayerKeys -> LayerNil]
             /\ \A k \in LayerKeys \ {o.k} : kv'[k] = kv[k] /\ dobj'[k] = dobj[k]
             /\ o.store = "kv" => kv'[o.k] = v /\ dobj'[o.k] = dobj[o.k]
             /\ o.store # "kv" => dobj'[o.k] = v /\ kv'[o.k] = kv[o.k]
    BY <1>1, <1>2, <1>4 DEF Layer!Put, LayerInv, LayerTypes
<1>5. CASE Layer!Writing(c)
    <2>1. Layer!Put(c, o.v) /\ call' = [call EXCEPT ![c].pc = "written"]
        BY <1>1, <1>5 DEF Layer!Serve
    <2>2. PICK new : new = [o EXCEPT !.pc = "written"]
        OBVIOUS
    <2>3. o.op \in {"write", "transaction"}
        BY <1>1, <1>2, <1>5 DEF Layer!Writing, Shaped, LayerCall
    <2>4. /\ new \in Shaped /\ new.op = o.op /\ new.l = o.l /\ new.k = o.k /\ new.alone = o.alone
          /\ new.pc = "written" /\ new.v = o.v /\ new.store = o.store /\ new.sound = o.sound
        BY <1>1, <1>2, <1>5, <2>2, <2>3 DEF Layer!Writing, Shaped, LayerCall
    <2>5. /\ call' = [d \in Calls |-> call'[d]] /\ call'[c] = new
          /\ \A d \in Calls \ {c} : call'[d] = call[d]
        BY <1>1, <2>1, <2>2 DEF LayerInv, LayerTypes
    <2>6. AloneOK(o) => AloneOK(new)'
        BY <1>2, <1>4, <2>1, <2>3, <2>4 DEF AloneOK, Kept
    <2>7. Layer!Mutates(o.op) /\ o.op # "read"
        BY <2>3 DEF Layer!Mutates
    <2>8. /\ kv' \in [LayerKeys -> LayerNil] /\ dobj' \in [LayerKeys -> LayerNil]
          /\ \A k \in LayerKeys : k # o.k \/ ~ Layer!Mutates(o.op) =>
                  kv'[k] = kv[k] /\ dobj'[k] = dobj[k]
        BY <1>4, <2>1, <2>7, <1>2
    <2> QED
        BY <1>1, <1>2, <1>3, <2>4, <2>5, <2>6, <2>7, <2>8, LayerGoesOn
<1>6. CASE ~ Layer!Writing(c) /\ o.op = "delete"
    <2>1. Layer!Put(c, Nil) /\ call' = [call EXCEPT ![c].pc = "deleted"]
        BY <1>1, <1>6 DEF Layer!Serve
    <2>2. PICK new : new = [o EXCEPT !.pc = "deleted"]
        OBVIOUS
    <2>3. /\ new \in Shaped /\ new.op = o.op /\ new.l = o.l /\ new.k = o.k /\ new.alone = o.alone
          /\ new.pc = "deleted" /\ new.store = o.store /\ new.sound = o.sound
        BY <1>2, <1>6, <2>2 DEF Shaped, LayerCall
    <2>4. /\ call' = [d \in Calls |-> call'[d]] /\ call'[c] = new
          /\ \A d \in Calls \ {c} : call'[d] = call[d]
        BY <1>1, <2>1, <2>2 DEF LayerInv, LayerTypes
    <2>5. Nil \in LayerNil
        BY DEF LayerNil
    <2>6. o.store \in {"kv", "do"}
        BY <1>2 DEF LayerCall
    <2>7. AloneOK(o) => AloneOK(new)'
        BY <1>2, <1>3, <1>4, <1>6, <2>1, <2>3, <2>5, <2>6 DEF AloneOK
    <2>8. Layer!Mutates(o.op) /\ o.op # "read"
        BY <1>6 DEF Layer!Mutates
    <2>9. /\ kv' \in [LayerKeys -> LayerNil] /\ dobj' \in [LayerKeys -> LayerNil]
          /\ \A k \in LayerKeys : k # o.k \/ ~ Layer!Mutates(o.op) =>
                  kv'[k] = kv[k] /\ dobj'[k] = dobj[k]
        BY <1>4, <2>1, <2>8, <2>5
    <2> QED
        BY <1>1, <1>2, <1>3, <2>3, <2>4, <2>7, <2>8, <2>9, LayerGoesOn
<1>7. CASE ~ Layer!Writing(c) /\ o.op # "delete"
    <2>1. /\ UNCHANGED <<kv, dobj>>
          /\ call' = [call EXCEPT ![c].pc = "got", ![c].v = Layer!Stored(c)]
        BY <1>1, <1>7 DEF Layer!Serve
    <2>2. Layer!Stored(c) = Kept(o) /\ Kept(o) \in LayerNil
        BY <1>1, <1>2 DEF Layer!Stored, Kept, LayerInv, LayerTypes
    <2>3. PICK new : new = [o EXCEPT !.pc = "got", !.v = Kept(o)]
        OBVIOUS
    <2>4. o.op # "write" /\ o.pc = "request"
        BY <1>1, <1>2, <1>7 DEF Layer!Writing
    <2>5. /\ new \in Shaped /\ new.op = o.op /\ new.l = o.l /\ new.k = o.k /\ new.alone = o.alone
          /\ new.pc = "got" /\ new.store = o.store /\ new.sound = o.sound /\ new.v = Kept(o)
          /\ new.base = o.base
        BY <1>2, <1>7, <2>2, <2>3, <2>4 DEF Shaped, LayerCall
    <2>6. /\ call' = [d \in Calls |-> call'[d]] /\ call'[c] = new
          /\ \A d \in Calls \ {c} : call'[d] = call[d]
        BY <1>1, <2>1, <2>2, <2>3 DEF LayerInv, LayerTypes
    <2>7. Truly(o) => Truly(new)'
        BY <2>1, <2>5 DEF Truly, Kept
    <2>8. AloneOK(o) => AloneOK(new)'
        <3>1. o.op = "transaction" /\ AloneOK(o) => Truly(new)' /\ new.base = Value(new.k)'
            BY <2>1, <2>4, <2>5, <2>7 DEF AloneOK, Value
        <3> QED
            BY <1>7, <2>5, <3>1 DEF AloneOK
    <2>9. /\ kv' \in [LayerKeys -> LayerNil] /\ dobj' \in [LayerKeys -> LayerNil]
          /\ \A k \in LayerKeys : kv'[k] = kv[k] /\ dobj'[k] = dobj[k]
        BY <2>1 DEF LayerInv, LayerTypes
    <2> QED
        BY <1>1, <1>2, <1>3, <2>5, <2>6, <2>7, <2>8, <2>9, LayerGoesOn
<1> QED
    BY <1>5, <1>6, <1>7

\* The call is over, and says what it leaves if nothing disturbed it.
LEMMA LayerEnds ==
    ASSUME LayerInv, NEW c \in Calls, Layer!Active(c), NEW o, o = call[c],
           NEW v \in LayerNil, Layer!Ends(c, Layer!Leaves(c, v))
    PROVE  /\ call' = [d \in Calls |-> call'[d]] /\ call'[c] = Layer!Idle
           /\ \A d \in Calls \ {c} : call'[d] = call[d]
           /\ last' \in [Layers -> [LayerKeys -> [known : BOOLEAN, v : LayerNil, mixed : BOOLEAN]]]
           /\ \A l \in Layers, k \in LayerKeys :
                 \/ last'[l][k] = last[l][k]
                 \/ /\ l = o.l /\ k = o.k /\ o.alone /\ last'[l][k].v = v
                    /\ last'[l][k].mixed = (o.op # "delete" /\ o.durable /\ kv[o.k] # Nil)
<1>1. o.l \in Layers /\ o.k \in LayerKeys
    BY LayerCallFacts DEF LayerInv, LayerCall
<1>2. PICK out : out = Layer!Leaves(c, v)
    OBVIOUS
<1>3. /\ out.v = v /\ out.mixed = (o.op # "delete" /\ o.durable /\ kv[o.k] # Nil)
      /\ out \in [known : BOOLEAN, v : LayerNil, mixed : BOOLEAN]
    <2>1. o.durable \in BOOLEAN
        BY LayerCallFacts DEF LayerInv, LayerCall
    <2> QED
        BY <1>2, <2>1 DEF Layer!Leaves
<1>4. PICK l0, k0 : l0 = o.l /\ k0 = o.k
    OBVIOUS
<1>5. /\ call' = [call EXCEPT ![c] = Layer!Idle]
      /\ last' = IF o.alone THEN [last EXCEPT ![l0][k0] = out] ELSE last
    BY <1>2, <1>4 DEF Layer!Ends
<1>6. /\ last' \in [Layers -> [LayerKeys -> [known : BOOLEAN, v : LayerNil, mixed : BOOLEAN]]]
      /\ \A l \in Layers, k \in LayerKeys :
            last'[l][k] = last[l][k] \/ (l = l0 /\ k = k0 /\ o.alone /\ last'[l][k] = out)
    <2>1. CASE o.alone
        <3>1. last' = [last EXCEPT ![l0][k0] = out]
            BY <1>5, <2>1
        <3> QED
            BY <1>1, <1>3, <1>4, <2>1, <3>1 DEF LayerInv, LayerTypes
    <2>2. CASE ~ o.alone
        BY <1>5, <2>2 DEF LayerInv, LayerTypes
    <2> QED
        BY <2>1, <2>2
<1>7. \A l \in Layers, k \in LayerKeys :
            \/ last'[l][k] = last[l][k]
            \/ /\ l = o.l /\ k = o.k /\ o.alone /\ last'[l][k].v = v
               /\ last'[l][k].mixed = (o.op # "delete" /\ o.durable /\ kv[o.k] # Nil)
    BY <1>3, <1>4, <1>6
<1>8. /\ call' = [d \in Calls |-> call'[d]] /\ call'[c] = Layer!Idle
      /\ \A d \in Calls \ {c} : call'[d] = call[d]
    BY <1>5 DEF LayerInv, LayerTypes
<1> QED
    BY <1>6, <1>7, <1>8

\* A write or a transaction leaves its value, in the store and in the cache.
LEMMA WrittenKeeps ==
    ASSUME LayerInv, NEW c \in Calls, Layer!Written(c)
    PROVE  LayerInv'
<1>1. PICK o : o = call[c]
    OBVIOUS
<1>2. /\ Layer!Active(c) /\ o \in Shaped /\ o \in LayerCall /\ o.pc = "written"
      /\ o.k \in LayerKeys /\ o.v \in LayerValues /\ o.v \in LayerNil
      /\ o.store = Layer!StoreOf(o.durable) /\ o.op \in {"write", "transaction"}
    <2>1. Layer!Active(c) /\ o.pc = "written"
        BY <1>1 DEF Layer!Written, Layer!Active
    <2>2. o \in Shaped /\ o \in LayerCall
        BY <1>1, <2>1, LayerCallFacts DEF LayerInv
    <2> QED
        BY <2>1, <2>2 DEF Shaped, LayerCall
<1>3. /\ cache' = [l \in Layers |-> cache'[l]]
      /\ \A l \in Layers : CacheOK(cache'[l])
      /\ cache'[o.l][o.k].v = o.v
      /\ \A l \in Layers : \A k \in DOMAIN cache'[l] :
            (k \in DOMAIN cache[l] /\ cache'[l][k] = cache[l][k]) \/ (l = o.l /\ k = o.k)
    BY <1>1, <1>2, LayerCaches DEF Layer!Written
<1>4. PICK v : v = o.v
    OBVIOUS
<1>5. Layer!Ends(c, Layer!Leaves(c, v))
    BY <1>1, <1>4 DEF Layer!Written
<1>6. /\ call' = [d \in Calls |-> call'[d]] /\ call'[c] = Layer!Idle
      /\ \A d \in Calls \ {c} : call'[d] = call[d]
      /\ last' \in [Layers -> [LayerKeys -> [known : BOOLEAN, v : LayerNil, mixed : BOOLEAN]]]
      /\ \A l \in Layers, k \in LayerKeys :
            \/ last'[l][k] = last[l][k]
            \/ /\ l = o.l /\ k = o.k /\ o.alone /\ last'[l][k].v = v
               /\ last'[l][k].mixed = (o.op # "delete" /\ o.durable /\ kv[o.k] # Nil)
    BY <1>1, <1>2, <1>4, <1>5, LayerEnds
<1>7. /\ kv' = kv /\ dobj' = dobj
      /\ kv' \in [LayerKeys -> LayerNil] /\ dobj' \in [LayerKeys -> LayerNil]
      /\ \A k \in LayerKeys : kv'[k] = kv[k] /\ dobj'[k] = dobj[k]
    BY DEF Layer!Written, LayerInv, LayerTypes
<1>8. Layer!Mutates(o.op) /\ o.op # "delete" /\ o.op # "read"
    BY <1>2 DEF Layer!Mutates
<1>9. o.alone /\ ~ (o.durable /\ kv[o.k] # Nil) => Value(o.k) = v
    <2> SUFFICES ASSUME o.alone, ~ (o.durable /\ kv[o.k] # Nil) PROVE Value(o.k) = v
        OBVIOUS
    <2>1. Kept(o) = v
        BY <1>1, <1>2, <1>4 DEF LayerInv, AloneHolds, AloneOK
    <2> QED
        BY <1>2, <1>4, <2>1, LayerConstants DEF Kept, Value, Layer!StoreOf
<1>10. \A l \in Layers, k \in LayerKeys :
            \/ last'[l][k] = last[l][k]
            \/ /\ l = o.l /\ k = o.k /\ o.alone /\ Layer!Mutates(o.op)
               /\ ~ last'[l][k].mixed =>
                     /\ Value(k)' = last'[l][k].v
                     /\ Layer!Hit(cache[l], k)' => cache'[l][k].v = last'[l][k].v
    BY <1>3, <1>4, <1>6, <1>7, <1>8, <1>9 DEF Value
<1>11. \A l \in Layers : \A k \in DOMAIN cache'[l] :
                 \/ k \in DOMAIN cache[l] /\ cache'[l][k] = cache[l][k]
                 \/ /\ l = o.l /\ k = o.k /\ o.op # "delete"
                    /\ ~ Layer!Mutates(o.op) => o.op = "read"
                    /\ o.op = "read" /\ Truly(o) => cache'[l][k].v = Value(k)
    BY <1>3, <1>8
<1> QED
    BY <1>1, <1>2, <1>3, <1>6, <1>7, <1>10, <1>11, LayerGoesOn

\* delete goes on to the Durable Object, or leaves nothing.
LEMMA DeletedKeeps ==
    ASSUME LayerInv, NEW c \in Calls, Layer!Deleted(c)
    PROVE  LayerInv'
<1>1. PICK o : o = call[c]
    OBVIOUS
<1>2. /\ Layer!Active(c) /\ o \in Shaped /\ o \in LayerCall /\ o.pc = "deleted"
      /\ o.op = "delete" /\ o.store \in {"kv", "do"} /\ o.l \in Layers /\ o.k \in LayerKeys
    <2>1. Layer!Active(c) /\ o.pc = "deleted"
        BY <1>1 DEF Layer!Deleted, Layer!Active
    <2>2. o \in Shaped /\ o \in LayerCall
        BY <1>1, <2>1, LayerCallFacts DEF LayerInv
    <2> QED
        BY <2>1, <2>2 DEF Shaped, LayerCall
<1>3. /\ cache' = [l \in Layers |-> cache'[l]]
      /\ \A l \in Layers : CacheOK(cache'[l])
    BY DEF Layer!Deleted, LayerInv, LayerTypes
<1>4. /\ kv' \in [LayerKeys -> LayerNil] /\ dobj' \in [LayerKeys -> LayerNil]
    BY DEF Layer!Deleted, LayerInv, LayerTypes
<1>5. Layer!Mutates(o.op) /\ o.op # "read"
    BY <1>2 DEF Layer!Mutates
<1>6. /\ \A k \in LayerKeys : k # o.k \/ ~ Layer!Mutates(o.op) =>
            kv'[k] = kv[k] /\ dobj'[k] = dobj[k]
      /\ \A l \in Layers : \A k \in DOMAIN cache'[l] :
            \/ k \in DOMAIN cache[l] /\ cache'[l][k] = cache[l][k]
            \/ /\ l = o.l /\ k = o.k /\ o.op # "delete"
               /\ ~ Layer!Mutates(o.op) => o.op = "read"
               /\ o.op = "read" /\ Truly(o) => cache'[l][k].v = Value(k)
    BY DEF Layer!Deleted
<1>7. CASE o.store = "kv"
    <2>1. /\ call' = [call EXCEPT ![c].pc = "request", ![c].store = "do"]
          /\ last' = last
        BY <1>1, <1>7 DEF Layer!Deleted
    <2>2. PICK new : new = [o EXCEPT !.pc = "request", !.store = "do"]
        OBVIOUS
    <2>3. /\ new \in Shaped /\ new.op = o.op /\ new.l = o.l /\ new.k = o.k /\ new.alone = o.alone
          /\ new.pc = "request" /\ new.sound = o.sound
        BY <1>2, <2>2 DEF Shaped, LayerCall
    <2>4. /\ call' = [d \in Calls |-> call'[d]] /\ call'[c] = new
          /\ \A d \in Calls \ {c} : call'[d] = call[d]
        BY <1>1, <2>1, <2>2 DEF LayerInv, LayerTypes
    <2>5. /\ last' \in [Layers -> [LayerKeys -> [known : BOOLEAN, v : LayerNil, mixed : BOOLEAN]]]
          /\ \A l \in Layers, k \in LayerKeys : last'[l][k] = last[l][k]
        BY <2>1 DEF LayerInv, LayerTypes
    <2>6. AloneOK(o) => AloneOK(new)'
        BY <1>2, <2>3 DEF AloneOK, Layer!Deleted
    <2> QED
        BY <1>1, <1>2, <1>3, <1>4, <1>5, <1>6, <2>3, <2>4, <2>5, <2>6, LayerGoesOn, SMTT(30)
<1>8. CASE o.store # "kv"
    <2>1. Layer!Ends(c, Layer!Leaves(c, Nil)) /\ Nil \in LayerNil
        BY <1>1, <1>8 DEF Layer!Deleted, LayerNil
    <2>2. /\ call' = [d \in Calls |-> call'[d]] /\ call'[c] = Layer!Idle
          /\ \A d \in Calls \ {c} : call'[d] = call[d]
          /\ last' \in [Layers -> [LayerKeys -> [known : BOOLEAN, v : LayerNil, mixed : BOOLEAN]]]
          /\ \A l \in Layers, k \in LayerKeys :
                \/ last'[l][k] = last[l][k]
                \/ /\ l = o.l /\ k = o.k /\ o.alone /\ last'[l][k].v = Nil
                   /\ last'[l][k].mixed = (o.op # "delete" /\ o.durable /\ kv[o.k] # Nil)
        BY <1>1, <1>2, <2>1, LayerEnds
    <2>3. o.alone => Value(o.k) = Nil /\ o.k \notin DOMAIN cache[o.l]
        BY <1>1, <1>2, <1>8 DEF LayerInv, AloneHolds, AloneOK, Value
    <2>4. \A l \in Layers, k \in LayerKeys :
            \/ last'[l][k] = last[l][k]
            \/ /\ l = o.l /\ k = o.k /\ o.alone /\ Layer!Mutates(o.op)
               /\ ~ last'[l][k].mixed =>
                     /\ Value(k)' = last'[l][k].v
                     /\ Layer!Hit(cache[l], k)' => cache'[l][k].v = last'[l][k].v
        BY <1>5, <2>2, <2>3 DEF Value, Layer!Hit, Layer!Deleted
    <2> QED
        BY <1>1, <1>2, <1>3, <1>4, <1>6, <2>2, <2>4, LayerGoesOn
<1> QED
    BY <1>7, <1>8

\* A read is over, and a transaction goes on to write: soundly, if it was alone.
LEMMA ReadEndsKeeps ==
    ASSUME LayerInv, NEW c \in Calls, Layer!Active(c), NEW o, o = call[c],
           o.op \in {"read", "transaction", "exists"},
           NEW v \in LayerNil, NEW failed \in BOOLEAN, Layer!ReadEnds(c, v, failed),
           UNCHANGED <<kv, dobj>>,
           ~ failed /\ o.op = "transaction" /\ o.alone /\ AloneOK(o) => v = o.base,
           cache' = [l \in Layers |-> cache'[l]],
           \A l \in Layers : CacheOK(cache'[l]),
           \A l \in Layers : \A k \in DOMAIN cache'[l] :
                 \/ k \in DOMAIN cache[l] /\ cache'[l][k] = cache[l][k]
                 \/ /\ l = o.l /\ k = o.k /\ o.op # "delete"
                    /\ ~ Layer!Mutates(o.op) => o.op = "read"
                    /\ o.op = "read" /\ Truly(o) => cache'[l][k].v = Value(k)
    PROVE  LayerInv'
<1>1. o \in Shaped /\ o \in LayerCall
    BY LayerCallFacts DEF LayerInv
<1>2. /\ kv' \in [LayerKeys -> LayerNil] /\ dobj' \in [LayerKeys -> LayerNil]
      /\ \A k \in LayerKeys : k # o.k \/ ~ Layer!Mutates(o.op) =>
            kv'[k] = kv[k] /\ dobj'[k] = dobj[k]
    BY DEF LayerInv, LayerTypes
<1>3. /\ last' \in [Layers -> [LayerKeys -> [known : BOOLEAN, v : LayerNil, mixed : BOOLEAN]]]
      /\ \A l \in Layers, k \in LayerKeys : last'[l][k] = last[l][k]
    BY DEF Layer!ReadEnds, LayerInv, LayerTypes
<1>4. CASE o.op = "transaction"
    <2>1. PICK w, sound, store : /\ w = Count(v) /\ sound = (failed \/ v = o.base)
                                 /\ store = Layer!StoreOf(o.durable)
        OBVIOUS
    <2>2. w \in LayerValues /\ w \in LayerNil /\ sound \in BOOLEAN /\ store \in {"kv", "do"}
          /\ Nil \in LayerNil
        BY <2>1, LayerConstants DEF LayerNil, Layer!StoreOf
    <2>3. PICK new : new = [o EXCEPT !.pc = "writing", !.store = store, !.v = w, !.base = Nil,
                                     !.sound = sound]
        OBVIOUS
    <2>4. /\ new \in LayerCall /\ new.op = o.op /\ new.l = o.l /\ new.k = o.k
          /\ new.alone = o.alone /\ new.pc = "writing" /\ new.sound = sound
          /\ new.v = w /\ new.store = store /\ new.durable = o.durable
        BY <1>1, <2>2, <2>3 DEF LayerCall
    <2>5. new \in Shaped
        BY <1>4, <2>1, <2>2, <2>4 DEF Shaped
    <2>6. call' = [call EXCEPT ![c].pc = "writing", ![c].store = store, ![c].v = w,
                               ![c].base = Nil, ![c].sound = sound]
        BY <1>4, <2>1 DEF Layer!ReadEnds
    <2>7. /\ call' = [d \in Calls |-> call'[d]] /\ call'[c] = new
          /\ \A d \in Calls \ {c} : call'[d] = call[d]
        BY <2>3, <2>6 DEF LayerInv, LayerTypes
    <2>8. o.alone /\ AloneOK(o) => AloneOK(new)'
        BY <1>4, <2>1, <2>4 DEF AloneOK
    <2>9. o.op # "read"
        BY <1>4
    <2> QED
        BY <1>2, <1>3, <2>4, <2>5, <2>7, <2>8, <2>9, LayerGoesOn
<1>5. CASE o.op # "transaction"
    <2>1. call' = [call EXCEPT ![c] = Layer!Idle]
        BY <1>5 DEF Layer!ReadEnds
    <2>2. /\ call' = [d \in Calls |-> call'[d]] /\ call'[c] = Layer!Idle
          /\ \A d \in Calls \ {c} : call'[d] = call[d]
        BY <2>1 DEF LayerInv, LayerTypes
    <2> QED
        BY <1>2, <1>3, <2>2, LayerGoesOn
<1> QED
    BY <1>4, <1>5

\* What a store answered a read is cached, or the next store is asked.
LEMMA GotKeeps ==
    ASSUME LayerInv, NEW c \in Calls, Layer!Got(c)
    PROVE  LayerInv'
<1>1. PICK o : o = call[c]
    OBVIOUS
<1>2. /\ Layer!Active(c) /\ o \in Shaped /\ o \in LayerCall /\ o.pc = "got"
      /\ o.k \in LayerKeys /\ o.v \in LayerNil /\ o.op \in {"read", "transaction"}
      /\ o.store \in {"kv", "do"}
    <2>1. Layer!Active(c) /\ o.pc = "got" /\ o.op # "exists"
        BY <1>1 DEF Layer!Got, Layer!Active
    <2>2. o \in Shaped /\ o \in LayerCall
        BY <1>1, <2>1, LayerCallFacts DEF LayerInv
    <2> QED
        BY <2>1, <2>2 DEF Shaped, LayerCall
<1>3. UNCHANGED <<kv, dobj>>
    BY DEF Layer!Got
<1>4. Truly(o) /\ (o.v # Nil \/ o.store = "do") => o.v = Value(o.k)
    BY <1>2 DEF Truly, Kept, Value
<1>5. o.op = "transaction" /\ o.alone /\ AloneOK(o) => Truly(o) /\ o.base = Value(o.k)
    BY <1>2 DEF AloneOK
<1>6. CASE o.v # Nil
    <2>1. o.v \in LayerValues
        BY <1>2, <1>6 DEF LayerNil
    <2>2. /\ cache' = [l \in Layers |-> cache'[l]]
          /\ \A l \in Layers : CacheOK(cache'[l])
          /\ cache'[o.l][o.k].v = o.v
          /\ \A l \in Layers : \A k \in DOMAIN cache'[l] :
                (k \in DOMAIN cache[l] /\ cache'[l][k] = cache[l][k]) \/ (l = o.l /\ k = o.k)
        BY <1>1, <1>2, <1>6, <2>1, LayerCaches DEF Layer!Got
    <2>3. \A l \in Layers : \A k \in DOMAIN cache'[l] :
                 \/ k \in DOMAIN cache[l] /\ cache'[l][k] = cache[l][k]
                 \/ /\ l = o.l /\ k = o.k /\ o.op # "delete"
                    /\ ~ Layer!Mutates(o.op) => o.op = "read"
                    /\ o.op = "read" /\ Truly(o) => cache'[l][k].v = Value(k)
        BY <1>2, <1>4, <1>6, <2>2 DEF Layer!Mutates
    <2>4. PICK v : v = o.v
        OBVIOUS
    <2>5. Layer!ReadEnds(c, v, FALSE)
        BY <1>1, <1>6, <2>4 DEF Layer!Got
    <2>6. o.op = "transaction" /\ o.alone /\ AloneOK(o) => v = o.base
        BY <1>4, <1>5, <1>6, <2>4
    <2>7. v \in LayerNil
        BY <1>2, <2>4
    <2>8. LayerInv /\ c \in Calls /\ o = call[c] /\ o.op \in {"read", "transaction", "exists"}
        BY <1>1, <1>2
    <2>9. cache' = [l \in Layers |-> cache'[l]] /\ \A l \in Layers : CacheOK(cache'[l])
        BY <2>2
    <2> QED
        BY ONLY ZenonT(60), <1>2, <1>3, <2>3, <2>5, <2>6, <2>7, <2>8, <2>9, ReadEndsKeeps
<1>7. ASSUME o.v = Nil
      PROVE  /\ cache' = [l \in Layers |-> cache'[l]]
             /\ \A l \in Layers : CacheOK(cache'[l])
             /\ \A l \in Layers : \A k \in DOMAIN cache'[l] :
                   \/ k \in DOMAIN cache[l] /\ cache'[l][k] = cache[l][k]
                   \/ /\ l = o.l /\ k = o.k /\ o.op # "delete"
                      /\ ~ Layer!Mutates(o.op) => o.op = "read"
                      /\ o.op = "read" /\ Truly(o) => cache'[l][k].v = Value(k)
    <2>1. cache' = cache
        BY <1>1, <1>7 DEF Layer!Got
    <2> QED
        BY <2>1 DEF LayerInv, LayerTypes
<1>8. CASE o.v = Nil /\ o.store = "kv"
    <2>1. /\ call' = [call EXCEPT ![c].pc = "request", ![c].store = "do"]
          /\ last' = last
        BY <1>1, <1>8 DEF Layer!Got
    <2>2. PICK new : new = [o EXCEPT !.pc = "request", !.store = "do"]
        OBVIOUS
    <2>3. /\ new \in Shaped /\ new.op = o.op /\ new.l = o.l /\ new.k = o.k /\ new.alone = o.alone
          /\ new.pc = "request" /\ new.sound = o.sound /\ new.base = o.base
        BY <1>2, <2>2 DEF Shaped, LayerCall
    <2>4. /\ call' = [d \in Calls |-> call'[d]] /\ call'[c] = new
          /\ \A d \in Calls \ {c} : call'[d] = call[d]
        BY <1>1, <2>1, <2>2 DEF LayerInv, LayerTypes
    <2>5. /\ last' \in [Layers -> [LayerKeys -> [known : BOOLEAN, v : LayerNil, mixed : BOOLEAN]]]
          /\ \A l \in Layers, k \in LayerKeys : last'[l][k] = last[l][k]
        BY <2>1 DEF LayerInv, LayerTypes
    <2>6. Truly(o) => Truly(new)'
        BY <1>2, <1>3, <1>8, <2>3 DEF Truly, Kept
    <2>7. o.alone /\ AloneOK(o) => AloneOK(new)'
        <3>1. o.op = "transaction" /\ o.alone /\ AloneOK(o) =>
                    Truly(new)' /\ new.base = Value(new.k)'
            BY <1>3, <1>5, <2>3, <2>6 DEF Value
        <3> QED
            BY <1>2, <2>3, <3>1 DEF AloneOK
    <2>8. /\ kv' \in [LayerKeys -> LayerNil] /\ dobj' \in [LayerKeys -> LayerNil]
          /\ \A k \in LayerKeys : k # o.k \/ ~ Layer!Mutates(o.op) =>
                kv'[k] = kv[k] /\ dobj'[k] = dobj[k]
        BY <1>3 DEF LayerInv, LayerTypes
    <2> QED
        BY <1>1, <1>2, <1>7, <1>8, <2>3, <2>4, <2>5, <2>6, <2>7, <2>8, LayerGoesOn
<1>9. CASE o.v = Nil /\ o.store = "do"
    <2>1. Layer!ReadEnds(c, Nil, FALSE) /\ Nil \in LayerNil
        BY <1>1, <1>9 DEF Layer!Got, LayerNil
    <2>2. o.op = "transaction" /\ o.alone /\ AloneOK(o) => Nil = o.base
        BY <1>4, <1>5, <1>9
    <2> QED
        BY ZenonT(60), <1>1, <1>2, <1>3, <1>7, <1>9, <2>1, <2>2, ReadEndsKeeps
<1> QED
    BY <1>2, <1>6, <1>8, <1>9

\* The call is over, and nothing was learned from it.
LEMMA LayerStops ==
    ASSUME LayerInv, NEW c \in Calls, Layer!Active(c), NEW o, o = call[c],
           call' = [call EXCEPT ![c] = Layer!Idle], UNCHANGED <<kv, dobj, last>>,
           \/ UNCHANGED cache
           \/ /\ o.v \in LayerValues /\ o.op \in {"write", "transaction"}
              /\ \E d \in Layer!UpdateCache(cache[call[c].l], call[c].k, call[c].v) :
                     cache' = [cache EXCEPT ![call[c].l] = d]
    PROVE  LayerInv'
<1>1. /\ cache' = [l \in Layers |-> cache'[l]]
      /\ \A l \in Layers : CacheOK(cache'[l])
      /\ \A l \in Layers : \A k \in DOMAIN cache'[l] :
            \/ k \in DOMAIN cache[l] /\ cache'[l][k] = cache[l][k]
            \/ /\ l = o.l /\ k = o.k /\ o.op # "delete"
               /\ ~ Layer!Mutates(o.op) => o.op = "read"
               /\ o.op = "read" /\ Truly(o) => cache'[l][k].v = Value(k)
    <2>1. CASE UNCHANGED cache
        BY <2>1 DEF LayerInv, LayerTypes
    <2>2. CASE /\ o.v \in LayerValues /\ o.op \in {"write", "transaction"}
               /\ \E d \in Layer!UpdateCache(cache[call[c].l], call[c].k, call[c].v) :
                      cache' = [cache EXCEPT ![call[c].l] = d]
        <3>1. /\ cache' = [l \in Layers |-> cache'[l]]
              /\ \A l \in Layers : CacheOK(cache'[l])
              /\ \A l \in Layers : \A k \in DOMAIN cache'[l] :
                    (k \in DOMAIN cache[l] /\ cache'[l][k] = cache[l][k]) \/ (l = o.l /\ k = o.k)
            BY <2>2, LayerCaches
        <3> QED
            BY <2>2, <3>1 DEF Layer!Mutates
    <2> QED
        BY <2>1, <2>2
<1>2. /\ call' = [d \in Calls |-> call'[d]] /\ call'[c] = Layer!Idle
      /\ \A d \in Calls \ {c} : call'[d] = call[d]
    BY DEF LayerInv, LayerTypes
<1>3. /\ kv' \in [LayerKeys -> LayerNil] /\ dobj' \in [LayerKeys -> LayerNil]
      /\ \A k \in LayerKeys : k # o.k \/ ~ Layer!Mutates(o.op) =>
            kv'[k] = kv[k] /\ dobj'[k] = dobj[k]
    BY DEF LayerInv, LayerTypes
<1>4. /\ last' \in [Layers -> [LayerKeys -> [known : BOOLEAN, v : LayerNil, mixed : BOOLEAN]]]
      /\ \A l \in Layers, k \in LayerKeys : last'[l][k] = last[l][k]
    BY DEF LayerInv, LayerTypes
<1>5. LayerInv /\ c \in Calls /\ Layer!Active(c) /\ o = call[c]
    OBVIOUS
<1> QED
    BY ONLY <1>1, <1>2, <1>3, <1>4, <1>5, LayerGoesOn

LEMMA FailsKeeps ==
    ASSUME LayerInv, NEW c \in Calls, Layer!Fails(c) \/ Layer!ExistsAnswers(c)
    PROVE  LayerInv'
<1>1. PICK o : o = call[c]
    OBVIOUS
<1>2. Layer!Active(c) /\ o \in Shaped /\ o \in LayerCall
    <2>1. Layer!Active(c)
        BY DEF Layer!Fails, Layer!ExistsAnswers, Layer!Active
    <2> QED
        BY <1>1, <2>1, LayerCallFacts DEF LayerInv
<1>3. UNCHANGED <<kv, dobj>>
    BY DEF Layer!Fails, Layer!ExistsAnswers
<1>4. CASE Layer!Fails(c) /\ (Layer!Writing(c) \/ o.pc = "written")
    <2>1. o.v \in LayerValues /\ o.op \in {"write", "transaction"}
        BY <1>1, <1>2, <1>4 DEF Shaped, LayerCall, Layer!Writing
    <2>2. /\ \E d \in Layer!UpdateCache(cache[call[c].l], call[c].k, call[c].v) :
                cache' = [cache EXCEPT ![call[c].l] = d]
          /\ call' = [call EXCEPT ![c] = Layer!Idle] /\ last' = last
        BY <1>1, <1>4 DEF Layer!Fails
    <2> QED
        BY <1>1, <1>2, <1>3, <2>1, <2>2, LayerStops
<1>5. CASE \/ Layer!ExistsAnswers(c)
           \/ Layer!Fails(c) /\ ~ (Layer!Writing(c) \/ o.pc = "written") /\ o.op = "delete"
    <2>1. call' = [call EXCEPT ![c] = Layer!Idle] /\ cache' = cache /\ last' = last
        BY <1>1, <1>5 DEF Layer!Fails, Layer!ExistsAnswers
    <2> QED
        BY <1>1, <1>2, <1>3, <2>1, LayerStops
<1>6. CASE Layer!Fails(c) /\ ~ (Layer!Writing(c) \/ o.pc = "written") /\ o.op # "delete"
    <2>1. Layer!ReadEnds(c, Nil, TRUE) /\ cache' = cache /\ Nil \in LayerNil
        BY <1>1, <1>6 DEF Layer!Fails, LayerNil
    <2>2. o.op \in {"read", "transaction", "exists"}
        BY <1>1, <1>2, <1>6 DEF LayerCall, Layer!Writing
    <2>3. /\ cache' = [l \in Layers |-> cache'[l]]
          /\ \A l \in Layers : CacheOK(cache'[l])
          /\ \A l \in Layers : \A k \in DOMAIN cache'[l] :
                k \in DOMAIN cache[l] /\ cache'[l][k] = cache[l][k]
        BY <2>1 DEF LayerInv, LayerTypes
    <2> QED
        BY <1>1, <1>2, <1>3, <2>1, <2>2, <2>3, ReadEndsKeeps
<1> QED
    BY <1>4, <1>5, <1>6

LEMMA LayerSteps == LayerInv /\ [Layer!Next]_(Layer!vars) => LayerInv'
<1> SUFFICES ASSUME LayerInv, [Layer!Next]_(Layer!vars) PROVE LayerInv'
    OBVIOUS
<1>1. CASE UNCHANGED Layer!vars
    BY <1>1 DEF Layer!vars, LayerInv, LayerTypes, Apart, AloneHolds, AloneOK, KnownHolds, KnownOK,
                Truly, Value, Kept, Layer!Active, Layer!Hit
<1>2. CASE Layer!Next
    BY <1>2, ExpireKeeps, ShutdownKeeps, CallsBegin, ServeKeeps, WrittenKeeps, DeletedKeeps,
       GotKeeps, FailsKeeps DEF Layer!Next
<1> QED
    BY <1>1, <1>2

\* Whatever the calls of all layers interleave with, and whichever requests fail: the
\* caches stay within their bound, a transaction nobody disturbed modifies the value it
\* began with, and a layer reads what its last undisturbed call left.
THEOREM LayerKept ==
    Layer!Spec => [](/\ Layer!TypeOK /\ Layer!CacheBounded /\ Layer!LostUpdateNeedsCause
                     /\ Layer!ReadsLast)
    BY LayerSteps, LayerInit, LayerInvImplies, PTL DEF Layer!Spec

-----------------------------------------------------------------------------
(* The three parts, one behaviour: those that are not picked stay as they are *)

\* A step of the composition is a step of the part picked, and none of the others.
LEMMA OneOfThree ==
    /\ [MCNext]_<<under, vars, configVars, layerVars>> => [Next]_vars
    /\ [MCNext]_<<under, vars, configVars, layerVars>> => [Config!Next]_(Config!vars)
    /\ [MCNext]_<<under, vars, configVars, layerVars>> => [Layer!Next]_(Layer!vars)
<1>1. [MCNext]_<<under, vars, configVars, layerVars>> => [Next]_vars
    BY DEF MCNext
<1>2. [MCNext]_<<under, vars, configVars, layerVars>> => [Config!Next]_(Config!vars)
    BY DEF MCNext, configVars, Config!vars
<1>3. [MCNext]_<<under, vars, configVars, layerVars>> => [Layer!Next]_(Layer!vars)
    BY DEF MCNext, layerVars, Layer!vars
<1> QED
    BY <1>1, <1>2, <1>3

LEMMA PartsMove == MCSpec => Spec /\ Config!Spec /\ Layer!Spec
<1>1. MCInit => Init /\ Config!Init /\ Layer!Init
    BY DEF MCInit
<1> QED
    BY <1>1, OneOfThree, PTL DEF MCSpec, Spec, Config!Spec, Layer!Spec

\* Between two awaits of any part: handlers are done, heard and gone; knobs are what
\* some write put into KV; caches keep their bound and lost updates have a cause.
THEOREM AwaitsKept == MCSpec => []AwaitsInv
<1>1. (TypeOK /\ EmitterWaits /\ AllHear /\ OnceGone)
      /\ (Config!TypeOK /\ Config!EnforcedWasStored /\ Config!UndisturbedAgree)
      /\ (Layer!TypeOK /\ Layer!CacheBounded /\ Layer!LostUpdateNeedsCause /\ Layer!ReadsLast)
      => AwaitsInv
    BY DEF AwaitsInv
<1> QED
    BY <1>1, PartsMove, BusKept, KnobsKept, LayerKept, PTL

\* An isolate that no update disturbed enforces what the last one stored.
THEOREM UndisturbedKept == MCSpec => []UndisturbedAgree
    BY PartsMove, KnobsKept, PTL DEF UndisturbedAgree

\* A layer reads what its last undisturbed call on the key left.
THEOREM ReadsKept == MCSpec => []ReadsLast
    BY PartsMove, LayerKept, PTL DEF ReadsLast

=============================================================================
