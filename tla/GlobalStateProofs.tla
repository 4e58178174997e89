--------------------------- MODULE GlobalStateProofs ---------------------------
(***************************************************************************)
(* Proofs about WorldKernelLattice and WorldKernelState, for any ids,      *)
(* domains, keys, levels, paths, values and watchers.                      *)
(*                                                                         *)
(* An event keeps no clock of its own, only the clock object of its domain *)
(* that goes on growing.  That it is compared by that clock misses no      *)
(* conflict rests on four facts: nobody knows more of a domain than itself *)
(* (OwnKnowledge), a clock only grows (StampBelow), without a merge it     *)
(* grows in its own entry alone (FrozenUnlessMerged), and that entry tells *)
(* the events of a domain from all earlier ones (LaterTick).  A level is   *)
(* in order by what LevelOK says of it and of the events, which are only   *)
(* added to.                                                               *)
(*                                                                         *)
(* In the tree, watchers are told in steps between which any operation     *)
(* may run.  A path that met no notification of itself has at most one     *)
(* under way (OneUnderWay); that one tells the current value               *)
(* (TellsCurrent), and whoever has not been told it yet is a watcher the   *)
(* notification still comes to (ToldSoFar).                                *)
(*                                                                         *)
(* A causal chain is a depth-first search.  Each call of it leaves ChainOK *)
(* and one call less to make (TraverseKeeps), of which there are at most   *)
(* as many as parents are named; when none is left, the chain is closed    *)
(* under logged parents, as the ancestors are (AncestorsAre).              *)
(***************************************************************************)
EXTENDS MCGlobalState, TLAPS, FiniteSetTheorems, SequenceTheorems, WellFoundedInduction

Below(c, d) == \A x \in Domains : c[x] <= d[x]

\* The domain of the entry m of the log.
Source(ev, entries, m) == ev[entries[m]].domain

Types ==
    /\ \A i \in DOMAIN event : event[i].domain \in Domains
    /\ eventLog \in Seq(DOMAIN event)
    /\ clock \in [Domains -> VectorClock]
    /\ stamp \in Seq(VectorClock) /\ Len(stamp) = Len(eventLog)
    /\ mergedAt \in [Domains -> Nat]

OwnKnowledge == \A d, x \in Domains : clock[d][x] <= clock[x][x]

StampBelow == \A m \in 1 .. Len(eventLog) : Below(stamp[m], clock[Source(event, eventLog, m)])

FrozenUnlessMerged ==
    \A m \in 1 .. Len(eventLog) :
        LET d == Source(event, eventLog, m) IN
        mergedAt[d] < m => \A x \in Domains \ {d} : clock[d][x] = stamp[m][x]

LaterTick ==
    \A m, n \in 1 .. Len(eventLog) :
        LET d == Source(event, eventLog, n) IN
        m < n => stamp[m][d] < stamp[n][d]

IInv == Types /\ OwnKnowledge /\ StampBelow /\ FrozenUnlessMerged /\ LaterTick

-----------------------------------------------------------------------------
(* Vector clocks *)

\* VectorClock.happens_before is a strict partial order.
LEMMA BeforeIsStrict ==
    ASSUME NEW c \in VectorClock, NEW d \in VectorClock, NEW e \in VectorClock
    PROVE  /\ ~ HappensBefore(c, c)
           /\ HappensBefore(c, d) => ~ HappensBefore(d, c)
           /\ HappensBefore(c, d) /\ HappensBefore(d, e) => HappensBefore(c, e)
    BY DEF VectorClock, HappensBefore

\* VectorClock.update makes the least clock that is not below either of the two.
LEMMA MergeIsLeast ==
    ASSUME NEW c \in VectorClock, NEW d \in VectorClock
    PROVE  /\ Merge(c, d) \in VectorClock
           /\ Below(c, Merge(c, d)) /\ Below(d, Merge(c, d))
           /\ \A e \in VectorClock : Below(c, e) /\ Below(d, e) => Below(Merge(c, d), e)
    BY DEF VectorClock, Merge, Below

-----------------------------------------------------------------------------
(* Steps *)

LEMMA InitIInv == Init => IInv
    BY DEF Init, IInv, Types, VectorClock, OwnKnowledge, StampBelow, FrozenUnlessMerged, LaterTick

\* Entries of the log and what is known of them.
LEMMA Entries ==
    ASSUME Types
    PROVE  /\ Len(eventLog) \in Nat
           /\ \A m \in 1 .. Len(eventLog) :
                 /\ eventLog[m] \in DOMAIN event
                 /\ Source(event, eventLog, m) \in Domains
                 /\ stamp[m] \in VectorClock
<1>1. Len(eventLog) \in Nat /\ \A m \in 1 .. Len(eventLog) : eventLog[m] \in DOMAIN event
    BY DEF Types
<1>2. \A m \in 1 .. Len(eventLog) : stamp[m] \in VectorClock
    BY DEF Types
<1> QED
    BY <1>1, <1>2 DEF Types, Source

LEMMA SubmitKeeps ==
    ASSUME IInv, NEW i \in Ids, NEW r, r.domain \in Domains,
           i \in DOMAIN event => r = event[i], Submit(i, r)
    PROVE  IInv'
<1> DEFINE d == r.domain
           last == Len(eventLog) + 1
<1> USE DEF IInv
<1>1. /\ Len(eventLog) \in Nat
      /\ \A m \in 1 .. Len(eventLog) :
            /\ eventLog[m] \in DOMAIN event /\ Source(event, eventLog, m) \in Domains
            /\ stamp[m] \in VectorClock
    BY Entries
<1>2. /\ DOMAIN event' = DOMAIN event \cup {i} /\ event'[i] = r
      /\ \A j \in DOMAIN event : event'[j] = event[j]
    BY DEF Submit
<1>3. /\ clock' \in [Domains -> VectorClock]
      /\ clock'[d][d] = clock[d][d] + 1
      /\ \A e, x \in Domains : e # d \/ x # d => clock'[e][x] = clock[e][x]
    BY DEF Submit, Increment, Types, VectorClock
<1>4. \A e, x \in Domains : clock[e][x] \in Nat /\ clock'[e][x] \in Nat
    BY <1>3 DEF Types, VectorClock
<1>5. /\ eventLog' \in Seq(DOMAIN event') /\ Len(eventLog') = last /\ eventLog'[last] = i
      /\ \A m \in 1 .. Len(eventLog) : eventLog'[m] = eventLog[m]
    <2>1. eventLog \in Seq(DOMAIN event') /\ i \in DOMAIN event'
        BY <1>1, <1>2 DEF Types
    <2>2. eventLog' = Append(eventLog, i)
        BY DEF Submit
    <2> QED
        BY <2>1, <2>2
<1>6. /\ stamp' \in Seq(VectorClock) /\ Len(stamp') = last /\ stamp'[last] = clock'[d]
      /\ \A m \in 1 .. Len(eventLog) : stamp'[m] = stamp[m]
    <2>1. stamp' = Append(stamp, clock'[d]) /\ clock'[d] \in VectorClock
        BY <1>3 DEF Submit
    <2> QED
        BY <2>1 DEF Types
<1>7. /\ Source(event', eventLog', last) = d
      /\ \A m \in 1 .. Len(eventLog) :
            Source(event', eventLog', m) = Source(event, eventLog, m)
    BY <1>1, <1>2, <1>5 DEF Source
<1>8. mergedAt' = mergedAt
    BY DEF Submit
<1>9. \A m \in 1 .. last : m \in 1 .. Len(eventLog) \/ m = last
    BY <1>1
<1>10. Types'
    <2>1. \A j \in DOMAIN event' : event'[j].domain \in Domains
        BY <1>2 DEF Types
    <2> QED
        BY <1>3, <1>5, <1>6, <1>8, <2>1 DEF Types
<1>11. OwnKnowledge'
    BY <1>3, <1>4 DEF OwnKnowledge
<1>12. \A e \in Domains : Below(clock[e], clock'[e])
    BY <1>3, <1>4 DEF Below
<1> HIDE DEF last, d
<1>13. StampBelow'
    <2> SUFFICES ASSUME NEW m \in 1 .. last
                 PROVE  Below(stamp'[m], clock'[Source(event', eventLog', m)])
        BY <1>5 DEF StampBelow
    <2>1. CASE m = last
        BY <1>4, <1>6, <1>7, <2>1 DEF Below, d
    <2>2. CASE m \in 1 .. Len(eventLog)
        <3> DEFINE e == Source(event, eventLog, m)
        <3>1. e \in Domains /\ stamp[m] \in VectorClock
            BY <1>1, <2>2
        <3>2. Below(stamp[m], clock[e]) /\ Below(clock[e], clock'[e])
            BY <1>12, <2>2, <3>1 DEF StampBelow
        <3> HIDE DEF e
        <3>3. Below(stamp[m], clock'[e])
            BY <1>4, <3>1, <3>2 DEF Below, VectorClock
        <3> QED
            BY <1>6, <1>7, <2>2, <3>3 DEF e
    <2> QED
        BY <1>9, <2>1, <2>2
<1>14. FrozenUnlessMerged'
    <2> SUFFICES ASSUME NEW m \in 1 .. last, mergedAt'[Source(event', eventLog', m)] < m,
                        NEW x \in Domains, x # Source(event', eventLog', m)
                 PROVE  clock'[Source(event', eventLog', m)][x] = stamp'[m][x]
        BY <1>5 DEF FrozenUnlessMerged
    <2>1. CASE m = last
        BY <1>6, <1>7, <2>1
    <2>2. CASE m \in 1 .. Len(eventLog)
        <3> DEFINE e == Source(event, eventLog, m)
        <3>1. e \in Domains /\ e = Source(event', eventLog', m)
            BY <1>1, <1>7, <2>2
        <3>2. clock[e][x] = stamp[m][x]
            BY <1>8, <2>2, <3>1 DEF FrozenUnlessMerged
        <3>3. clock'[e][x] = clock[e][x]
            BY <1>3, <3>1
        <3> QED
            BY <1>6, <2>2, <3>1, <3>2, <3>3
    <2> QED
        BY <1>9, <2>1, <2>2
<1>15. LaterTick'
    <2> SUFFICES ASSUME NEW m \in 1 .. last, NEW n \in 1 .. last, m < n
                 PROVE  stamp'[m][Source(event', eventLog', n)]
                            < stamp'[n][Source(event', eventLog', n)]
        BY <1>5 DEF LaterTick
    <2>1. m \in 1 .. Len(eventLog)
        BY <1>1 DEF last
    <2>2. CASE n = last
        <3> DEFINE e == Source(event, eventLog, m)
        <3>1. e \in Domains /\ d \in Domains /\ stamp[m] \in VectorClock
            BY <1>1, <2>1 DEF d
        <3>2. stamp[m][d] <= clock[e][d] /\ clock[e][d] <= clock[d][d]
            BY <2>1, <3>1 DEF StampBelow, Below, OwnKnowledge
        <3> HIDE DEF e
        <3>3. stamp[m][d] < clock'[d][d]
            BY <1>3, <1>4, <3>1, <3>2 DEF d, VectorClock
        <3> QED
            BY <1>6, <1>7, <2>1, <2>2, <3>3
    <2>3. CASE n \in 1 .. Len(eventLog)
        BY <1>6, <1>7, <2>1, <2>3 DEF LaterTick
    <2> QED
        BY <1>9, <2>2, <2>3
<1> QED
    BY <1>10, <1>11, <1>13, <1>14, <1>15

LEMMA MergeKeeps ==
    ASSUME IInv, NEW d \in Domains, NEW e \in Domains, MergeClock(d, e)
    PROVE  IInv'
<1> USE DEF IInv
<1>1. /\ Len(eventLog) \in Nat
      /\ \A m \in 1 .. Len(eventLog) :
            /\ Source(event, eventLog, m) \in Domains /\ stamp[m] \in VectorClock
    BY Entries
<1>2. clock[d] \in VectorClock /\ clock[e] \in VectorClock
    BY DEF Types
<1>3. /\ clock' = [clock EXCEPT ![d] = Merge(clock[d], clock[e])]
      /\ mergedAt' = [mergedAt EXCEPT ![d] = Len(eventLog)]
      /\ event' = event /\ eventLog' = eventLog /\ stamp' = stamp /\ d # e
    BY DEF MergeClock
<1>4. /\ clock' \in [Domains -> VectorClock]
      /\ \A f \in Domains \ {d} : clock'[f] = clock[f]
      /\ \A x \in Domains : clock'[d][x] = clock[d][x] \/ clock'[d][x] = clock[e][x]
      /\ \A f \in Domains : Below(clock[f], clock'[f])
    <2>1. Merge(clock[d], clock[e]) \in VectorClock
          /\ Below(clock[d], Merge(clock[d], clock[e]))
          /\ \A f \in Domains : Below(clock[f], clock[f])
        <3>1. \A f \in Domains : Below(clock[f], clock[f])
            BY DEF Types, VectorClock, Below
        <3> QED
            BY <1>2, <3>1, MergeIsLeast
    <2>2. \A x \in Domains : Merge(clock[d], clock[e])[x] \in {clock[d][x], clock[e][x]}
        BY DEF Merge
    <2> HIDE DEF IInv
    <2>3. clock \in [Domains -> VectorClock]
        BY DEF IInv, Types
    <2> QED
        BY <1>3, <2>1, <2>2, <2>3
<1>5. \A f, x \in Domains : clock[f][x] \in Nat /\ clock'[f][x] \in Nat
    BY <1>4 DEF Types, VectorClock
<1>6. Types'
    BY <1>1, <1>3, <1>4 DEF Types
<1>7. OwnKnowledge'
    <2> SUFFICES ASSUME NEW f \in Domains, NEW x \in Domains PROVE clock'[f][x] <= clock'[x][x]
        BY DEF OwnKnowledge
    <2>1. clock[f][x] <= clock[x][x] /\ clock[e][x] <= clock[x][x] /\ clock[x][x] <= clock'[x][x]
        BY <1>4 DEF OwnKnowledge, Below
    <2>2. clock'[f][x] = clock[f][x] \/ clock'[f][x] = clock[e][x]
        BY <1>4
    <2> QED
        BY <1>5, <2>1, <2>2
<1>8. StampBelow'
    <2> SUFFICES ASSUME NEW m \in 1 .. Len(eventLog)
                 PROVE  Below(stamp[m], clock'[Source(event, eventLog, m)])
        BY <1>3 DEF StampBelow
    <2> DEFINE f == Source(event, eventLog, m)
    <2>1. f \in Domains /\ stamp[m] \in VectorClock
        BY <1>1
    <2>2. Below(stamp[m], clock[f]) /\ Below(clock[f], clock'[f])
        BY <1>4, <2>1 DEF StampBelow
    <2> HIDE DEF f
    <2>3. Below(stamp[m], clock'[f])
        BY <1>5, <2>1, <2>2 DEF Below, VectorClock
    <2> QED
        BY <2>3 DEF f
<1>9. FrozenUnlessMerged'
    <2> SUFFICES ASSUME NEW m \in 1 .. Len(eventLog), mergedAt'[Source(event, eventLog, m)] < m,
                        NEW x \in Domains, x # Source(event, eventLog, m)
                 PROVE  clock'[Source(event, eventLog, m)][x] = stamp[m][x]
        BY <1>3 DEF FrozenUnlessMerged
    <2> DEFINE f == Source(event, eventLog, m)
    <2>1. f \in Domains
        BY <1>1
    <2>2. f # d
        BY <1>1, <1>3 DEF Types
    <2>3. mergedAt'[f] = mergedAt[f] /\ clock'[f] = clock[f]
        BY <1>3, <1>4, <2>1, <2>2 DEF Types
    <2> QED
        BY <2>3 DEF FrozenUnlessMerged
<1>10. LaterTick'
    BY <1>3 DEF LaterTick
<1> QED
    BY <1>6, <1>7, <1>8, <1>9, <1>10

LEMMA NextIInv == ConstantsOK /\ IInv /\ [Next]_vars => IInv'
<1> SUFFICES ASSUME ConstantsOK, IInv, [Next]_vars PROVE IInv'
    OBVIOUS
<1>1. ASSUME UNCHANGED <<event, eventLog, clock, stamp, mergedAt>> PROVE IInv'
    BY <1>1 DEF IInv, Types, OwnKnowledge, StampBelow, FrozenUnlessMerged, LaterTick
<1>2. CASE UNCHANGED vars
    BY <1>1, <1>2 DEF vars
<1>3. CASE Create
    BY <1>1, <1>3 DEF Create, CreateLevel
<1>4. CASE Submission(ParentLists)
    <2>1. PICK i \in Ids, d \in Domains, k \in Keys, parents \in ParentLists : SubmitEvent(i, d, k, parents)
        BY <1>4 DEF Submission
    <2>2. CASE i \in DOMAIN event
        BY <2>1, <2>2, SubmitKeeps DEF SubmitEvent, IInv, Types
    <2>3. CASE i \notin DOMAIN event
        BY <2>1, <2>3, SubmitKeeps DEF SubmitEvent
    <2> QED
        BY <2>2, <2>3
<1>5. CASE Commit
    <2>1. CASE \E i \in Ids, l \in LevelNumbers : CommitEvent(i, l)
        BY <1>1, <2>1 DEF CommitEvent
    <2>2. CASE \E i, j \in Ids : PropagateToWorld(i, j)
        BY <2>2, SubmitKeeps DEF PropagateToWorld, ConstantsOK
    <2> QED
        BY <1>5, <2>1, <2>2 DEF Commit
<1>6. CASE Synchronize
    BY <1>6, MergeKeeps DEF Synchronize
<1> QED
    BY <1>2, <1>3, <1>4, <1>5, <1>6 DEF Next

LEMMA Invariance == ASSUME ConstantsOK PROVE Spec => []IInv
    BY InitIInv, NextIInv, PTL DEF Spec

-----------------------------------------------------------------------------

\* detect_conflicts: two events on a key that were concurrent when submitted are
\* reported although the clocks they are compared by have grown since, unless one of
\* the domains merged its clock after submitting its event.
THEOREM ConflictsAreReported == ASSUME ConstantsOK PROVE Spec => []NoConflictMissed
<1>1. ASSUME IInv PROVE NoConflictMissed
    <2> DEFINE e(m) == event[eventLog[m]]
    <2> SUFFICES ASSUME NEW m \in DOMAIN eventLog, NEW n \in DOMAIN eventLog,
                        m < n, e(m).key = e(n).key,
                        NEW x \in Domains, stamp[m][x] > stamp[n][x],
                        mergedAt[e(m).domain] < m, mergedAt[e(n).domain] < n
                 PROVE  <<m, n>> \in DetectConflicts
        BY DEF NoConflictMissed
    <2> DEFINE c == e(m).domain
               d == e(n).domain
    <2>1. m \in 1 .. Len(eventLog) /\ n \in 1 .. Len(eventLog)
        BY <1>1 DEF IInv, Types
    <2>2. c \in Domains /\ d \in Domains /\ stamp[m] \in VectorClock /\ stamp[n] \in VectorClock
        BY <1>1, <2>1, Entries DEF IInv, Source
    <2>3. clock[c] \in VectorClock /\ clock[d] \in VectorClock
        BY <1>1, <2>2 DEF IInv, Types
    <2>4. /\ Below(stamp[m], clock[c]) /\ Below(stamp[n], clock[d])
          /\ \A z \in Domains \ {c} : clock[c][z] = stamp[m][z]
          /\ \A z \in Domains \ {d} : clock[d][z] = stamp[n][z]
          /\ stamp[m][d] < stamp[n][d]
        BY <1>1, <2>1 DEF IInv, StampBelow, FrozenUnlessMerged, LaterTick, Source
    <2> HIDE DEF c, d
    <2>5. ConcurrentWith(clock[c], clock[d])
        <3>1. CASE c = d
            BY <2>3, <3>1, BeforeIsStrict DEF ConcurrentWith
        <3>2. CASE c # d
            <4>1. x # d
                BY <2>2, <2>4 DEF VectorClock
            <4>2. ~ HappensBefore(clock[c], clock[d])
                BY <2>2, <2>3, <2>4, <4>1 DEF HappensBefore, Below, VectorClock
            <4>3. ~ HappensBefore(clock[d], clock[c])
                BY <2>2, <2>3, <2>4, <3>2 DEF HappensBefore, Below, VectorClock
            <4> QED
                BY <4>2, <4>3 DEF ConcurrentWith
        <3> QED
            BY <3>1, <3>2
    <2> QED
        BY <2>5 DEF DetectConflicts, c, d
<1> QED
    BY <1>1, Invariance, PTL

-----------------------------------------------------------------------------
(* Greatest elements *)

LEMMA LeastElement ==
    ASSUME NEW T \in SUBSET Nat, T # {}
    PROVE  \E n \in T : \A m \in T : n <= m
<1> DEFINE R == {ss \in Nat \X Nat : ss[1] < ss[2]}
<1>1. R = OpToRel(<, Nat)
    BY DEF OpToRel
<1>2. IsWellFoundedOn(R, Nat)
    BY <1>1, NatLessThanWellFounded
<1>3. PICK n \in T : \A m \in T : ~ (<<m, n>> \in R)
    BY <1>2, WFMin
<1>4. ASSUME NEW m \in T PROVE n <= m
    <2>1. ~ (<<m, n>> \in R) /\ m \in Nat /\ n \in Nat
        BY <1>3
    <2> QED
        BY <2>1
<1> QED
    BY <1>4

LEMMA MaxIs ==
    ASSUME NEW T \in SUBSET Nat, NEW n \in T, \A m \in T : m <= n
    PROVE  Max(T) = n
<1>1. \E x \in T : \A y \in T : x >= y
    OBVIOUS
<1>2. Max(T) \in T /\ \A y \in T : Max(T) >= y
    BY <1>1, Zenon DEF Max
<1> DEFINE c == Max(T)
<1>3. c \in T /\ c >= n /\ c <= n
    BY <1>2
<1> HIDE DEF c
<1>4. c \in Nat /\ n \in Nat
    BY <1>3
<1> QED
    BY <1>3, <1>4 DEF c

\* A finite set without a greatest element would have a smallest one like it.
LEMMA GreatestElement ==
    ASSUME NEW T \in SUBSET Nat, T # {}, IsFiniteSet(T)
    PROVE  \E n \in T : \A m \in T : m <= n
<1> DEFINE Topped(S) == \E n \in S : \A m \in S : m <= n
           Bad == {Cardinality(S) : S \in {S \in SUBSET T : S # {} /\ ~ Topped(S)}}
<1>1. \A S \in SUBSET T : IsFiniteSet(S) /\ Cardinality(S) \in Nat
    BY FS_Subset, FS_CardinalityType
<1>2. Bad = {}
    <2> SUFFICES ASSUME Bad # {} PROVE FALSE
        OBVIOUS
    <2>1. Bad \in SUBSET Nat
        BY <1>1
    <2>2. PICK c \in Bad : \A d \in Bad : c <= d
        BY <2>1, LeastElement
    <2>3. PICK S \in SUBSET T : S # {} /\ ~ Topped(S) /\ c = Cardinality(S)
        BY <2>2
    <2>4. PICK x \in S : TRUE
        BY <2>3
    <2> DEFINE R == S \ {x}
    <2>5. Cardinality(R) = Cardinality(S) - 1 /\ R \in SUBSET T
        BY <1>1, <2>3, <2>4, FS_RemoveElement
    <2>6. R = {} \/ Topped(R)
        <3>1. Cardinality(R) < c
            BY <1>1, <2>3, <2>5
        <3>2. Cardinality(R) \notin Bad
            BY <1>1, <2>1, <2>2, <2>5, <3>1
        <3> HIDE DEF R, Topped
        <3> QED
            BY <2>5, <3>2
    <2>7. CASE R = {}
        <3>1. S = {x} /\ x \in Nat
            BY <2>4, <2>7
        <3> QED
            BY <2>3, <3>1
    <2>8. CASE Topped(R)
        <3>1. PICK n \in R : \A m \in R : m <= n
            BY <2>8
        <3>2. n \in Nat /\ x \in Nat /\ S = R \cup {x} /\ n \in S
            BY <2>4, <3>1
        <3> HIDE DEF R
        <3>3. \A m \in S : m <= IF n < x THEN x ELSE n
            BY <3>1, <3>2
        <3> QED
            BY <2>3, <2>4, <3>2, <3>3
    <2> QED
        BY <2>6, <2>7, <2>8
<1> QED
    BY <1>2

-----------------------------------------------------------------------------
(* Levels *)

\* What a level has taken in, of the events and of the log.
LevelOK(x, ev, entries) ==
    /\ \A i \in x.pending \cup x.committed :
          (\E n \in 1 .. Len(entries) : entries[n] = i) /\ ev[i].domain \in x.domains
    /\ x.committed = {x.commits[n] : n \in DOMAIN x.commits}
    /\ \A k : k \in DOMAIN x.state <=> \E i \in x.committed : ev[i].key = k
    /\ \A k \in DOMAIN x.state :
          \E n \in DOMAIN x.commits :
             /\ ev[x.commits[n]].key = k /\ x.state[k] = ev[x.commits[n]].value
             /\ \A m \in DOMAIN x.commits : ev[x.commits[m]].key = k => m <= n

LevelTypes ==
    /\ DOMAIN levels \subseteq LevelNumbers /\ IsFiniteSet(DOMAIN levels)
    /\ \A l \in DOMAIN levels : levels[l] \in LatticeLevel
    /\ DOMAIN event \subseteq Ids /\ \A i \in DOMAIN event : event[i] \in LatticeEvent
    /\ merges \in 0 .. MaxMerges

LevelsInv ==
    /\ LevelTypes
    /\ \A l \in DOMAIN levels : LevelOK(levels[l], event, eventLog)

LEMMA LevelsInit == ConstantsOK /\ Init => LevelsInv
<1> SUFFICES ASSUME ConstantsOK, Init PROVE LevelsInv
    OBVIOUS
<1>1. DOMAIN levels = {} /\ DOMAIN event = {} /\ merges = 0
    BY DEF Init
<1>2. 0 \in 0 .. MaxMerges
    BY DEF ConstantsOK
<1> QED
    BY <1>1, <1>2, FS_EmptySet DEF LevelsInv, LevelTypes

\* Events and entries that are added leave what a level holds.
LEMMA LevelGrows ==
    ASSUME NEW x, NEW ev, NEW entries, LevelOK(x, ev, entries), NEW ev2, NEW later,
           entries \in Seq(DOMAIN ev), Len(later) \in Nat, Len(entries) <= Len(later),
           \A n \in 1 .. Len(entries) : later[n] = entries[n],
           \A i \in DOMAIN ev : ev2[i] = ev[i]
    PROVE  LevelOK(x, ev2, later)
<1>1. /\ \A i \in x.pending \cup x.committed : i \in DOMAIN ev /\ \E n \in 1 .. Len(entries) : entries[n] = i
      /\ Len(entries) \in Nat
    <2>1. Len(entries) \in Nat /\ \A n \in 1 .. Len(entries) : entries[n] \in DOMAIN ev
        OBVIOUS
    <2> QED
        BY <2>1 DEF LevelOK
<1>2. \A i \in x.pending \cup x.committed :
         ev2[i] = ev[i] /\ \E n \in 1 .. Len(later) : later[n] = i
    BY <1>1
<1>3. x.committed = {x.commits[n] : n \in DOMAIN x.commits}
    BY DEF LevelOK
<1>4. \A n \in DOMAIN x.commits : ev2[x.commits[n]] = ev[x.commits[n]]
    BY <1>2, <1>3
<1>5. \A i \in x.committed : ev2[i] = ev[i]
    BY <1>2
<1>6. \A i \in x.pending \cup x.committed :
         (\E n \in 1 .. Len(later) : later[n] = i) /\ ev2[i].domain \in x.domains
    BY <1>2 DEF LevelOK
<1>7. \A k : k \in DOMAIN x.state <=> \E i \in x.committed : ev2[i].key = k
    BY <1>5 DEF LevelOK
<1>8. \A k \in DOMAIN x.state :
         \E n \in DOMAIN x.commits :
            /\ ev2[x.commits[n]].key = k /\ x.state[k] = ev2[x.commits[n]].value
            /\ \A m \in DOMAIN x.commits : ev2[x.commits[m]].key = k => m <= n
    BY <1>4 DEF LevelOK
<1> QED
    BY <1>3, <1>6, <1>7, <1>8 DEF LevelOK

LEMMA AddKeeps ==
    ASSUME NEW x \in LatticeLevel, NEW ev, NEW entries, LevelOK(x, ev, entries), NEW i \in Ids,
           \E n \in 1 .. Len(entries) : entries[n] = i, ev[i].domain \in x.domains
    PROVE  LET y == [x EXCEPT !.pending = @ \cup {i}] IN
           y \in LatticeLevel /\ LevelOK(y, ev, entries)
<1> DEFINE y == [x EXCEPT !.pending = @ \cup {i}]
<1>1. y \in LatticeLevel
    BY DEF LatticeLevel
<1>2. /\ y.pending = x.pending \cup {i} /\ y.committed = x.committed /\ y.state = x.state
      /\ y.commits = x.commits /\ y.domains = x.domains
    BY DEF LatticeLevel
<1> HIDE DEF y
<1> QED
    BY <1>1, <1>2 DEF LevelOK, y

LEMMA CreateKeeps ==
    ASSUME LevelsInv, NEW l \in LevelNumbers, NEW ds \in SUBSET Domains, CreateLevel(l, ds)
    PROVE  LevelsInv'
<1> DEFINE x == [domains |-> ds, state |-> [k \in {} |-> 0], pending |-> {},
                 committed |-> {}, commits |-> <<>>]
<1>1. /\ DOMAIN levels' = DOMAIN levels \cup {l} /\ levels'[l] = x
      /\ \A m \in DOMAIN levels : levels'[m] = levels[m]
      /\ event' = event /\ eventLog' = eventLog /\ merges' = merges
    BY DEF CreateLevel
<1>2. x \in LatticeLevel
    <2>1. [k \in {} |-> 0] \in UNION {[K -> Ids] : K \in SUBSET Keys}
        <3>1. [k \in {} |-> 0] \in [{} -> Ids]
            OBVIOUS
        <3> QED
            BY <3>1
    <2> QED
        BY <2>1 DEF LatticeLevel
<1>3. LevelOK(x, event, eventLog)
    <2>1. DOMAIN x.commits = {} /\ DOMAIN x.state = {} /\ x.pending = {} /\ x.committed = {}
        OBVIOUS
    <2> HIDE DEF x
    <2> QED
        BY <2>1 DEF LevelOK
<1> HIDE DEF x
<1>4. IsFiniteSet(DOMAIN levels')
    BY <1>1, FS_AddElement DEF LevelsInv, LevelTypes
<1> QED
    BY <1>1, <1>2, <1>3, <1>4 DEF LevelsInv, LevelTypes

LEMMA CommitKeeps ==
    ASSUME Types, LevelsInv, NEW i \in Ids, NEW l \in LevelNumbers, CommitEvent(i, l)
    PROVE  LevelsInv'
<1> DEFINE x == levels[l]
           y == Committed(x, i)
           k == event[i].key
           v == event[i].value
           last == Len(x.commits) + 1
<1>1. /\ l \in DOMAIN levels /\ i \in x.pending /\ levels' = [levels EXCEPT ![l] = y]
      /\ event' = event /\ eventLog' = eventLog /\ merges' = merges
    BY DEF CommitEvent
<1>2. x \in LatticeLevel /\ LevelOK(x, event, eventLog)
    BY <1>1 DEF LevelsInv, LevelTypes
<1>3. i \in DOMAIN event
    <2>1. \E n \in 1 .. Len(eventLog) : eventLog[n] = i
        BY <1>1, <1>2 DEF LevelOK
    <2> QED
        BY <2>1 DEF Types
<1>4. k \in Keys /\ v \in Ids
    BY <1>3 DEF LevelsInv, LevelTypes, LatticeEvent
<1> DEFINE st == [h \in DOMAIN x.state \cup {k} |-> IF h = k THEN v ELSE x.state[h]]
<1>5. y = [x EXCEPT !.state = st, !.committed = @ \cup {i}, !.pending = @ \ {i},
                    !.commits = Append(@, i)]
    BY DEF Committed
<1> HIDE DEF x, y
<1>6. /\ st \in UNION {[K -> Ids] : K \in SUBSET Keys}
      /\ DOMAIN st = DOMAIN x.state \cup {k} /\ st[k] = v
      /\ \A h \in DOMAIN x.state : h # k => st[h] = x.state[h]
    <2>1. PICK K \in SUBSET Keys : x.state \in [K -> Ids]
        BY <1>2 DEF LatticeLevel
    <2> HIDE DEF k, v
    <2>2. st \in [K \cup {k} -> Ids] /\ K \cup {k} \in SUBSET Keys
        BY <1>4, <2>1
    <2> QED
        BY <2>2
<1>7. /\ Append(x.commits, i) \in Seq(Ids) /\ x.commits \in Seq(Ids) /\ last \in Nat
      /\ DOMAIN Append(x.commits, i) = DOMAIN x.commits \cup {last}
      /\ Append(x.commits, i)[last] = i
      /\ \A n \in DOMAIN x.commits : Append(x.commits, i)[n] = x.commits[n] /\ n < last
      /\ DOMAIN x.commits \subseteq Nat
    BY <1>2 DEF LatticeLevel
<1> HIDE DEF st
<1>8. y \in LatticeLevel
    BY <1>2, <1>5, <1>6, <1>7 DEF LatticeLevel
<1>9. /\ y.domains = x.domains /\ y.state = st /\ y.committed = x.committed \cup {i}
      /\ y.pending = x.pending \ {i} /\ y.commits = Append(x.commits, i)
    BY <1>2, <1>5 DEF LatticeLevel
<1> HIDE DEF k, v, last
<1>10. LevelOK(y, event, eventLog)
    <2>1. \A j \in y.pending \cup y.committed :
             (\E n \in 1 .. Len(eventLog) : eventLog[n] = j) /\ event[j].domain \in y.domains
        BY <1>1, <1>2, <1>9 DEF LevelOK, x
    <2>2. y.committed = {y.commits[n] : n \in DOMAIN y.commits}
        <3>1. x.committed = {x.commits[n] : n \in DOMAIN x.commits}
            BY <1>2 DEF LevelOK
        <3> QED
            BY <1>7, <1>9, <3>1
    <2>3. \A h : h \in DOMAIN y.state <=> \E j \in y.committed : event[j].key = h
        <3>1. \A h : h \in DOMAIN x.state <=> \E j \in x.committed : event[j].key = h
            BY <1>2 DEF LevelOK
        <3> QED
            BY <1>6, <1>9, <3>1 DEF k
    <2>4. ASSUME NEW h \in DOMAIN y.state
          PROVE  \E n \in DOMAIN y.commits :
                    /\ event[y.commits[n]].key = h /\ y.state[h] = event[y.commits[n]].value
                    /\ \A m \in DOMAIN y.commits : event[y.commits[m]].key = h => m <= n
        <3>1. CASE h = k
            <4>1. /\ last \in DOMAIN y.commits /\ event[y.commits[last]].key = h
                  /\ y.state[h] = event[y.commits[last]].value
                  /\ \A m \in DOMAIN y.commits : m <= last
                BY <1>6, <1>7, <1>9, <3>1 DEF k, v
            <4> QED
                BY <4>1
        <3>2. CASE h # k
            <4>1. h \in DOMAIN x.state /\ y.state[h] = x.state[h]
                BY <1>6, <1>9, <3>2
            <4>2. PICK n \in DOMAIN x.commits :
                     /\ event[x.commits[n]].key = h /\ x.state[h] = event[x.commits[n]].value
                     /\ \A m \in DOMAIN x.commits : event[x.commits[m]].key = h => m <= n
                BY <1>2, <4>1 DEF LevelOK
            <4>3. /\ n \in DOMAIN y.commits /\ y.commits[n] = x.commits[n]
                  /\ \A m \in DOMAIN y.commits : event[y.commits[m]].key = h => m <= n
                BY <1>7, <1>9, <3>2, <4>2 DEF k
            <4> QED
                BY <4>1, <4>2, <4>3
        <3> QED
            BY <3>1, <3>2
    <2> QED
        BY <2>1, <2>2, <2>3, <2>4 DEF LevelOK
<1>11. DOMAIN levels' = DOMAIN levels /\ levels'[l] = y
       /\ \A m \in DOMAIN levels : m # l => levels'[m] = levels[m]
    BY <1>1
<1> QED
    BY <1>1, <1>8, <1>10, <1>11 DEF LevelsInv, LevelTypes

LEMMA SubmitLevels ==
    ASSUME Types, LevelsInv, NEW i \in Ids, NEW r \in LatticeEvent,
           i \in DOMAIN event => r = event[i], Submit(i, r)
    PROVE  LevelsInv'
<1> DEFINE l == DetermineLevel(r.domain)
<1>1. /\ DOMAIN event' = DOMAIN event \cup {i} /\ event'[i] = r
      /\ \A j \in DOMAIN event : event'[j] = event[j]
      /\ merges' = merges
    BY DEF Submit
<1>2. /\ eventLog' = Append(eventLog, i) /\ eventLog \in Seq(DOMAIN event)
    BY DEF Submit, Types
<1>3. /\ Len(eventLog) \in Nat /\ Len(eventLog') = Len(eventLog) + 1
      /\ eventLog'[Len(eventLog) + 1] = i
      /\ \A n \in 1 .. Len(eventLog) : eventLog'[n] = eventLog[n]
    BY <1>2
<1>4. \A m \in DOMAIN levels : levels[m] \in LatticeLevel /\ LevelOK(levels[m], event', eventLog')
    <2> SUFFICES ASSUME NEW m \in DOMAIN levels
                 PROVE  levels[m] \in LatticeLevel /\ LevelOK(levels[m], event', eventLog')
        OBVIOUS
    <2>1. levels[m] \in LatticeLevel /\ LevelOK(levels[m], event, eventLog)
        BY DEF LevelsInv, LevelTypes
    <2>2. Len(eventLog') \in Nat /\ Len(eventLog) <= Len(eventLog')
        BY <1>3
    <2> QED
        BY <1>1, <1>2, <1>3, <2>1, <2>2, LevelGrows
<1>5. levels' = levels \/ (l \in DOMAIN levels /\ r.domain \in levels[l].domains
                           /\ levels' = [levels EXCEPT ![l].pending = @ \cup {i}])
    BY DEF Submit, AddEvent
<1> HIDE DEF l
<1>6. /\ DOMAIN levels' = DOMAIN levels
      /\ \A m \in DOMAIN levels' : levels'[m] \in LatticeLevel /\ LevelOK(levels'[m], event', eventLog')
    <2>1. CASE levels' = levels
        BY <1>4, <2>1
    <2>2. CASE /\ l \in DOMAIN levels /\ r.domain \in levels[l].domains
               /\ levels' = [levels EXCEPT ![l].pending = @ \cup {i}]
        <3> DEFINE y == [levels[l] EXCEPT !.pending = @ \cup {i}]
        <3>1. y \in LatticeLevel /\ LevelOK(y, event', eventLog')
            <4>1. (\E n \in 1 .. Len(eventLog') : eventLog'[n] = i)
                  /\ event'[i].domain \in levels[l].domains
                BY <1>1, <1>3, <2>2
            <4> QED
                BY <1>4, <2>2, <4>1, AddKeeps
        <3>2. DOMAIN levels' = DOMAIN levels /\ levels'[l] = y
              /\ \A m \in DOMAIN levels : m # l => levels'[m] = levels[m]
            BY <2>2
        <3> HIDE DEF y
        <3> QED
            BY <1>4, <3>1, <3>2
    <2> QED
        BY <1>5, <2>1, <2>2
<1> QED
    BY <1>1, <1>6 DEF LevelsInv, LevelTypes

LEMMA LevelsNext ==
    ASSUME ConstantsOK, Types, LevelsInv, [Next]_vars
    PROVE  LevelsInv'
<1>1. ASSUME UNCHANGED <<levels, event, eventLog, merges>> PROVE LevelsInv'
    BY <1>1 DEF LevelsInv, LevelTypes
<1>2. CASE UNCHANGED vars
    BY <1>1, <1>2 DEF vars
<1>3. CASE Create
    BY <1>3, CreateKeeps DEF Create
<1>4. CASE Submission(ParentLists)
    <2>1. PICK i \in Ids, d \in Domains, k \in Keys, parents \in ParentLists : SubmitEvent(i, d, k, parents)
        BY <1>4 DEF Submission
    <2>2. CASE i \in DOMAIN event
        <3>1. event[i] \in LatticeEvent /\ Submit(i, event[i])
            BY <2>1, <2>2 DEF SubmitEvent, LevelsInv, LevelTypes
        <3> QED
            BY <3>1, SubmitLevels
    <2>3. CASE i \notin DOMAIN event
        <3> DEFINE r == [domain |-> d, key |-> k, value |-> i, parents |-> parents]
        <3>1. parents \in Seq(Ids)
            <4>1. parents = <<>> => parents \in Seq(Ids)
                OBVIOUS
            <4>2. \A j \in Ids : <<j>> \in Seq(Ids)
                OBVIOUS
            <4>3. \A j, h \in Ids : <<j, h>> \in Seq(Ids)
                OBVIOUS
            <4>4. ASSUME parents \in Ids \X Ids PROVE parents \in Seq(Ids)
                <5>1. PICK j \in Ids, h \in Ids : parents = <<j, h>>
                    BY <4>4
                <5> QED
                    BY <4>3, <5>1
            <4> QED
                BY <4>1, <4>2, <4>4 DEF ParentLists
        <3>2. r \in LatticeEvent
            BY <3>1 DEF LatticeEvent
        <3>3. Submit(i, r)
            BY <2>1, <2>3 DEF SubmitEvent
        <3> QED
            BY <2>3, <3>2, <3>3, SubmitLevels
    <2> QED
        BY <2>2, <2>3
<1>5. CASE Commit
    <2>1. CASE \E i \in Ids, l \in LevelNumbers : CommitEvent(i, l)
        BY <2>1, CommitKeeps
    <2>2. ASSUME NEW i \in Ids, NEW j \in Ids, PropagateToWorld(i, j) PROVE LevelsInv'
        <3> DEFINE r == [domain |-> World, key |-> event[i].key, value |-> event[i].value,
                         parents |-> <<i>>]
        <3>1. event[i] \in LatticeEvent /\ j \notin DOMAIN event /\ Submit(j, r)
            BY <2>2 DEF PropagateToWorld, LevelsInv, LevelTypes
        <3>2. r \in LatticeEvent
            BY <3>1 DEF ConstantsOK, LatticeEvent
        <3> QED
            BY <3>1, <3>2, SubmitLevels
    <2> QED
        BY <1>5, <2>1, <2>2 DEF Commit
<1>6. CASE Synchronize
    <2>1. UNCHANGED <<levels, event, eventLog>> /\ merges' = merges + 1 /\ merges < MaxMerges
        BY <1>6 DEF Synchronize, MergeClock
    <2>2. merges' \in 0 .. MaxMerges
        BY <2>1 DEF LevelsInv, LevelTypes, ConstantsOK
    <2> QED
        BY <2>1, <2>2 DEF LevelsInv, LevelTypes
<1> QED
    BY <1>2, <1>3, <1>4, <1>5, <1>6 DEF Next

LEMMA LevelsImply ==
    ASSUME ConstantsOK, Types, LevelsInv
    PROVE  LatticeInv
<1>1. TypeOK
    BY DEF Types, LevelsInv, LevelTypes, TypeOK
<1>2. StateIsCommitted
    <2> SUFFICES ASSUME NEW l \in DOMAIN levels
                 PROVE  LET x == levels[l]
                            of(k) == {n \in DOMAIN x.commits : event[x.commits[n]].key = k}
                        IN  /\ \A i \in x.pending \cup x.committed :
                                 /\ Contains(eventLog, i)
                                 /\ event[i].domain \in x.domains
                            /\ DOMAIN x.state = {event[i].key : i \in x.committed}
                            /\ \A k \in DOMAIN x.state : x.state[k] = event[x.commits[Max(of(k))]].value
        BY DEF StateIsCommitted
    <2> DEFINE x == levels[l]
               of(k) == {n \in DOMAIN x.commits : event[x.commits[n]].key = k}
    <2>1. LevelOK(x, event, eventLog) /\ x \in LatticeLevel
        BY DEF LevelsInv, LevelTypes
    <2> HIDE DEF x
    <2>2. DOMAIN x.commits \subseteq Nat
        BY <2>1 DEF LatticeLevel
    <2>3. DOMAIN x.state = {event[i].key : i \in x.committed}
        BY <2>1 DEF LevelOK
    <2>4. ASSUME NEW k \in DOMAIN x.state PROVE x.state[k] = event[x.commits[Max(of(k))]].value
        <3>1. PICK n \in of(k) : x.state[k] = event[x.commits[n]].value /\ \A m \in of(k) : m <= n
            BY <2>1 DEF LevelOK
        <3>2. Max(of(k)) = n
            BY <2>2, <3>1, MaxIs
        <3> QED
            BY <3>1, <3>2
    <2> QED
        BY <2>1, <2>3, <2>4 DEF LevelOK, Contains, x
<1>3. GlobalIsCommitted
    <2> DEFINE all == UNION {levels[l].committed : l \in DOMAIN levels}
               with(k) == {l \in DOMAIN levels : k \in DOMAIN levels[l].state}
    <2>1. \A l \in DOMAIN levels : \A k :
             k \in DOMAIN levels[l].state <=> \E i \in levels[l].committed : event[i].key = k
        BY DEF LevelsInv, LevelOK
    <2>2. DOMAIN GlobalState = UNION {DOMAIN levels[l].state : l \in DOMAIN levels}
        BY DEF GlobalState
    <2>3. DOMAIN GlobalState = {event[i].key : i \in all}
        BY <2>1, <2>2
    <2>4. ASSUME NEW k \in DOMAIN GlobalState
          PROVE  \E i \in all : event[i].key = k /\ event[i].value = GlobalState[k]
        <3>1. with(k) # {} /\ with(k) \in SUBSET Nat /\ IsFiniteSet(with(k))
            BY <2>2, FS_Subset DEF LevelsInv, LevelTypes, ConstantsOK
        <3>2. PICK l \in with(k) : \A m \in with(k) : m <= l
            BY <3>1, GreatestElement
        <3>3. GlobalState[k] = levels[l].state[k]
            BY <2>2, <3>1, <3>2, MaxIs DEF GlobalState
        <3>4. PICK n \in DOMAIN levels[l].commits :
                 event[levels[l].commits[n]].key = k
                 /\ levels[l].state[k] = event[levels[l].commits[n]].value
            BY <3>2 DEF LevelsInv, LevelOK
        <3>5. levels[l].commits[n] \in levels[l].committed
            BY <3>2 DEF LevelsInv, LevelOK
        <3> QED
            BY <3>2, <3>3, <3>4, <3>5
    <2> QED
        BY <2>3, <2>4 DEF GlobalIsCommitted
<1> QED
    BY <1>1, <1>2, <1>3 DEF LatticeInv

LEMMA LatticeInvariance == ASSUME ConstantsOK PROVE Spec => []LatticeInv
<1>1. Init => IInv /\ LevelsInv
    BY InitIInv, LevelsInit
<1>2. IInv /\ LevelsInv /\ [Next]_vars => IInv' /\ LevelsInv'
    BY NextIInv, LevelsNext DEF IInv
<1>3. IInv /\ LevelsInv => LatticeInv
    BY LevelsImply DEF IInv
<1> QED
    BY <1>1, <1>2, <1>3, PTL DEF Spec

-----------------------------------------------------------------------------
(* The tree of state *)

LEMMA TreeCardinality == \A S : Tree!Cardinality(S) = Cardinality(S)
    BY DEF Tree!Cardinality, Cardinality

VersionAt(t, p) == IF p \in DOMAIN t THEN t[p].version ELSE 0

\* A tree with nodes at some of the paths.
IsTree(t) == DOMAIN t \subseteq Nested /\ \A p \in DOMAIN t : t[p] \in Tree!StateNode

\* get_or_create_path adds empty nodes only.
LEMMA PathFacts ==
    ASSUME Tree!ConstantsOK, NEW t, IsTree(t), NEW p \in Nested
    PROVE  LET s == Tree!Path(t, p) IN
           /\ IsTree(s) /\ p \in DOMAIN s /\ DOMAIN t \subseteq DOMAIN s
           /\ \A q \in DOMAIN t : s[q] = t[q]
           /\ \A q \in DOMAIN s \ DOMAIN t : s[q] = Tree!NewNode
           /\ \A q : Tree!ValueAt(s, q) = Tree!ValueAt(t, q) /\ VersionAt(s, q) = VersionAt(t, q)
<1> DEFINE s == Tree!Path(t, p)
           new == Tree!Prefixes(p) \ {<<>>}
<1>1. s = [q \in DOMAIN t \cup new |-> IF q \in DOMAIN t THEN t[q] ELSE Tree!NewNode]
    BY DEF Tree!Path
<1>2. p \in Seq(STRING) /\ p # <<>> /\ \A k \in 1 .. Len(p) : SubSeq(p, 1, k) \in Nested
    BY DEF Tree!ConstantsOK
<1>3. Len(p) \in Nat /\ SubSeq(p, 1, Len(p)) = p /\ SubSeq(p, 1, 0) = <<>>
    BY <1>2
<1>4. p \in new
    <2>1. Len(p) \in 0 .. Len(p)
        BY <1>3
    <2> QED
        BY <1>2, <1>3, <2>1 DEF Tree!Prefixes
<1>5. new \subseteq Nested
    <2> SUFFICES ASSUME NEW k \in 0 .. Len(p), SubSeq(p, 1, k) # <<>> PROVE SubSeq(p, 1, k) \in Nested
        BY DEF Tree!Prefixes
    <2>1. k \in 1 .. Len(p)
        BY <1>3
    <2> QED
        BY <1>2, <2>1
<1> HIDE DEF s, new
<1>6. /\ DOMAIN s = DOMAIN t \cup new
      /\ \A q \in DOMAIN s : s[q] = IF q \in DOMAIN t THEN t[q] ELSE Tree!NewNode
    BY <1>1
<1>7. Tree!NewNode \in Tree!StateNode /\ Tree!NewNode.value = None /\ Tree!NewNode.version = 0
    BY DEF Tree!NewNode, Tree!StateNode
<1>8. IsTree(s)
    BY <1>5, <1>6, <1>7 DEF IsTree
<1>9. \A q : Tree!ValueAt(s, q) = Tree!ValueAt(t, q) /\ VersionAt(s, q) = VersionAt(t, q)
    BY <1>6, <1>7 DEF Tree!ValueAt, VersionAt
<1> QED
    BY <1>4, <1>6, <1>8, <1>9 DEF s

\* StateNode.set_value writes one node and counts.
LEMMA SetValueFacts ==
    ASSUME Tree!ConstantsOK, NEW t, IsTree(t), NEW p \in Nested, NEW v \in Values, NEW d \in Others
    PROVE  LET s == Tree!SetValue(t, p, v, d) IN
           /\ IsTree(s) /\ p \in DOMAIN s /\ DOMAIN t \subseteq DOMAIN s
           /\ s[p].value = v /\ s[p].owner = d
           /\ \A q \in DOMAIN t : q # p => s[q] = t[q]
           /\ \A q : Tree!ValueAt(s, q) = IF q = p THEN v ELSE Tree!ValueAt(t, q)
           /\ \A q : VersionAt(s, q) = IF q = p THEN VersionAt(t, p) + 1 ELSE VersionAt(t, q)
<1> DEFINE u == Tree!Path(t, p)
           s == Tree!SetValue(t, p, v, d)
           node == [value |-> v, version |-> u[p].version + 1, owner |-> d]
<1>1. /\ IsTree(u) /\ p \in DOMAIN u /\ DOMAIN t \subseteq DOMAIN u
      /\ \A q \in DOMAIN t : u[q] = t[q]
      /\ \A q : Tree!ValueAt(u, q) = Tree!ValueAt(t, q) /\ VersionAt(u, q) = VersionAt(t, q)
    BY PathFacts
<1>2. s = [u EXCEPT ![p] = node]
    BY DEF Tree!SetValue
<1> HIDE DEF u, s
<1>3. u[p].version \in Nat /\ u[p].version = VersionAt(t, p)
    BY <1>1 DEF IsTree, VersionAt, Tree!StateNode
<1>4. node \in Tree!StateNode /\ node.value = v /\ node.owner = d /\ node.version = VersionAt(t, p) + 1
    BY <1>3 DEF Tree!StateNode
<1> HIDE DEF node
<1>5. DOMAIN s = DOMAIN u /\ s[p] = node /\ \A q \in DOMAIN u : q # p => s[q] = u[q]
    BY <1>1, <1>2
<1>6. IsTree(s)
    BY <1>1, <1>4, <1>5 DEF IsTree
<1>7. \A q : Tree!ValueAt(s, q) = IF q = p THEN v ELSE Tree!ValueAt(t, q)
    BY <1>1, <1>4, <1>5 DEF Tree!ValueAt
<1>8. \A q : VersionAt(s, q) = IF q = p THEN VersionAt(t, p) + 1 ELSE VersionAt(t, q)
    BY <1>1, <1>4, <1>5 DEF VersionAt
<1> QED
    BY <1>1, <1>4, <1>5, <1>6, <1>7, <1>8 DEF s

-----------------------------------------------------------------------------
(* The invariant of the tree *)

Snapshot == UNION {[S -> Tree!StateNode] : S \in SUBSET Nested}

PathOf(n) == log[notifying[n].update].path

Resolved(p) == {c \in DOMAIN conflicts : conflicts[c].resolution \in Tree!Entries(p)}

TreeTypes ==
    /\ IsTree(tree)
    /\ log \in Seq(Tree!StateUpdate) /\ now \in Nat
    /\ allowed \in [Nested -> SUBSET Others]
    /\ watching \in [Nested -> Seq(Watchers)]
    /\ told \in [Watchers -> [Nested -> Values \cup {None}]]
    /\ rewritten \subseteq Nested /\ nested \subseteq Nested
    /\ snapshots \in Seq(Snapshot)

\* The places that notifications and conflicts keep are those of entries.
PlacesOK ==
    /\ notifying \in Seq(Tree!Notification) /\ conflicts \in Seq(Tree!StateConflict)
    /\ \A n \in DOMAIN notifying : notifying[n].update \in DOMAIN log /\ notifying[n].next \in Nat \ {0}
    /\ \A c \in DOMAIN conflicts :
          /\ conflicts[c].updates[1] \in DOMAIN log /\ conflicts[c].updates[2] \in DOMAIN log
          /\ conflicts[c].resolution \in DOMAIN log \cup {0}

\* LogExplains, with the last entry in the place of LastEntry.
Explained ==
    \A p \in Nested \ rewritten :
        \/ Tree!Entries(p) = {} /\ Tree!ValueAt(tree, p) = None
        \/ \E i \in Tree!Entries(p) :
              /\ \A j \in Tree!Entries(p) : j <= i
              /\ p \in DOMAIN tree /\ tree[p].value = log[i].new /\ tree[p].owner = log[i].domain

\* VersionsCount, of the nodes that do not exist too.
Counted ==
    snapshots = <<>> =>
        \A p \in Nested :
            VersionAt(tree, p) = Cardinality(Tree!Entries(p)) + Cardinality(Resolved(p))

\* A path that met no notification of itself has at most one under way.
OneUnderWay ==
    \A m, n \in DOMAIN notifying : PathOf(m) = PathOf(n) /\ m # n => PathOf(m) \in nested

\* That one tells the current value, and has told it to the watchers it is past.
ToldSoFar ==
    \A p \in Nested \ (rewritten \cup nested) : \A k \in DOMAIN watching[p] :
        \/ told[watching[p][k]][p] = Tree!ValueAt(tree, p)
        \/ \E n \in DOMAIN notifying : PathOf(n) = p /\ notifying[n].next <= k

TellsCurrent ==
    \A n \in DOMAIN notifying : PathOf(n) \notin rewritten \cup nested =>
        log[notifying[n].update].new = Tree!ValueAt(tree, PathOf(n))

TreeInv ==
    TreeTypes /\ PlacesOK /\ Explained /\ Counted /\ OneUnderWay /\ ToldSoFar /\ TellsCurrent

LEMMA TreeInit == Tree!Init => TreeInv
<1> SUFFICES ASSUME Tree!Init PROVE TreeInv
    OBVIOUS
<1>1. /\ DOMAIN tree = {} /\ log = <<>> /\ now = 0 /\ conflicts = <<>> /\ snapshots = <<>>
      /\ allowed = [p \in Nested |-> Others] /\ watching = [p \in Nested |-> <<>>]
      /\ notifying = <<>> /\ told = [w \in Watchers |-> [p \in Nested |-> None]]
      /\ rewritten = {} /\ nested = {}
    BY DEF Tree!Init
<1>2. DOMAIN log = {} /\ DOMAIN notifying = {} /\ DOMAIN conflicts = {}
    BY <1>1
<1>3. TreeTypes
    <2>1. /\ <<>> \in Seq(Tree!StateUpdate) /\ <<>> \in Seq(Snapshot) /\ <<>> \in Seq(Watchers)
        OBVIOUS
    <2>2. IsTree(tree)
        BY <1>1 DEF IsTree
    <2> QED
        BY <1>1, <2>1, <2>2 DEF TreeTypes
<1>4. PlacesOK
    <2>1. <<>> \in Seq(Tree!Notification) /\ <<>> \in Seq(Tree!StateConflict)
        OBVIOUS
    <2> QED
        BY <1>1, <1>2, <2>1 DEF PlacesOK
<1>5. \A p : Tree!Entries(p) = {} /\ Resolved(p) = {} /\ VersionAt(tree, p) = 0
             /\ Tree!ValueAt(tree, p) = None
    BY <1>1, <1>2 DEF Tree!Entries, Resolved, VersionAt, Tree!ValueAt
<1>6. Explained /\ Counted
    <2>1. Cardinality({}) = 0 /\ 0 = 0 + 0
        BY FS_EmptySet
    <2>2. Counted
        BY <1>5, <2>1 DEF Counted
    <2> QED
        BY <1>5, <2>2 DEF Explained
<1>7. OneUnderWay /\ ToldSoFar /\ TellsCurrent
    BY <1>1, <1>2 DEF OneUnderWay, ToldSoFar, TellsCurrent
<1> QED
    BY <1>3, <1>4, <1>6, <1>7 DEF TreeInv

LEMMA ReadKeeps ==
    ASSUME Tree!ConstantsOK, TreeInv, NEW p \in Nested, Tree!GetState(p)
    PROVE  TreeInv'
<1> USE DEF TreeInv
<1>1. /\ tree' = Tree!Path(tree, p)
      /\ UNCHANGED <<log, now, conflicts, snapshots, allowed, watching, notifying, told, rewritten, nested>>
    BY DEF Tree!GetState
<1>2. /\ IsTree(tree') /\ DOMAIN tree \subseteq DOMAIN tree'
      /\ \A q \in DOMAIN tree : tree'[q] = tree[q]
      /\ \A q : Tree!ValueAt(tree', q) = Tree!ValueAt(tree, q) /\ VersionAt(tree', q) = VersionAt(tree, q)
    BY <1>1, PathFacts DEF TreeTypes
<1>3. \A q : Tree!Entries(q)' = Tree!Entries(q) /\ Resolved(q)' = Resolved(q)
    BY <1>1 DEF Tree!Entries, Resolved
<1>4. TreeTypes' /\ PlacesOK'
    BY <1>1, <1>2 DEF TreeTypes, PlacesOK
<1>5. Explained'
    BY <1>1, <1>2, <1>3 DEF Explained
<1>6. Counted'
    BY <1>1, <1>2, <1>3 DEF Counted
<1>7. OneUnderWay' /\ ToldSoFar' /\ TellsCurrent'
    BY <1>1, <1>2 DEF OneUnderWay, ToldSoFar, TellsCurrent, PathOf
<1> QED
    BY <1>4, <1>5, <1>6, <1>7

LEMMA UpdateKeeps ==
    ASSUME Tree!ConstantsOK, TreeInv,
           NEW p \in Nested, NEW v \in Values, NEW d \in Others, NEW priority \in 0 .. 1,
           NEW tick \in 0 .. 1, Tree!UpdateState(p, v, d, priority, tick)
    PROVE  TreeInv'
<1> USE DEF TreeInv
<1> DEFINE u == [domain |-> d, path |-> p, old |-> Tree!ValueAt(tree, p), new |-> v,
                 time |-> now + tick, priority |-> priority]
           i == Len(log) + 1
           f == [update |-> i, next |-> 1]
<1>1. /\ log' = Append(log, u) /\ now' = now + tick
      /\ tree' = Tree!SetValue(tree, p, v, d)
      /\ notifying' = Append(notifying, [update |-> Len(log'), next |-> 1])
      /\ rewritten' = rewritten \ {p}
      /\ nested' = IF \E n \in DOMAIN notifying : PathOf(n) = p THEN nested \cup {p} ELSE nested
      /\ UNCHANGED <<conflicts, snapshots, allowed, watching, told>>
    BY DEF Tree!UpdateState, PathOf
<1>2. log \in Seq(Tree!StateUpdate) /\ now \in Nat /\ notifying \in Seq(Tree!Notification)
    BY DEF TreeTypes, PlacesOK
<1>0. PICK top \in Nat : top = Len(notifying) + 1
    BY <1>2
<1>3. u \in Tree!StateUpdate /\ u.path = p /\ u.new = v /\ u.domain = d
    <2>1. Tree!ValueAt(tree, p) \in Values \cup {None}
        BY DEF TreeTypes, IsTree, Tree!ValueAt, Tree!StateNode
    <2> QED
        BY <1>2, <2>1 DEF Tree!StateUpdate
<1> HIDE DEF u
<1>4. /\ log' \in Seq(Tree!StateUpdate) /\ Len(log) \in Nat /\ Len(log') = i /\ log'[i] = u
      /\ DOMAIN log' = DOMAIN log \cup {i} /\ i \notin DOMAIN log
      /\ \A j \in DOMAIN log : log'[j] = log[j] /\ j < i /\ j \in Nat
    BY <1>1, <1>2, <1>3
<1>5. /\ notifying' \in Seq(Tree!Notification)
      /\ DOMAIN notifying' = DOMAIN notifying \cup {top} /\ top \notin DOMAIN notifying
      /\ notifying'[top] = f /\ \A n \in DOMAIN notifying : notifying'[n] = notifying[n]
    <2>1. f \in Tree!Notification /\ notifying' = Append(notifying, f)
        BY <1>1, <1>4 DEF Tree!Notification
    <2> HIDE DEF f
    <2> QED
        BY <1>0, <1>2, <2>1
<1>6. f.update = i /\ f.next = 1
    OBVIOUS
<1> HIDE DEF f, i
<1>7. /\ IsTree(tree') /\ p \in DOMAIN tree' /\ DOMAIN tree \subseteq DOMAIN tree'
      /\ tree'[p].value = v /\ tree'[p].owner = d
      /\ \A q \in DOMAIN tree : q # p => tree'[q] = tree[q]
      /\ \A q : Tree!ValueAt(tree', q) = IF q = p THEN v ELSE Tree!ValueAt(tree, q)
      /\ \A q : VersionAt(tree', q) = IF q = p THEN VersionAt(tree, p) + 1 ELSE VersionAt(tree, q)
    BY <1>1, SetValueFacts DEF TreeTypes
<1>8. \A q : Tree!Entries(q)' = IF q = p THEN Tree!Entries(q) \cup {i} ELSE Tree!Entries(q)
    BY <1>3, <1>4 DEF Tree!Entries
<1>9. \A q : Resolved(q)' = Resolved(q)
    <2>1. \A c \in DOMAIN conflicts : conflicts[c].resolution # i
        BY <1>4 DEF PlacesOK, i
    <2> QED
        BY <1>1, <1>8, <2>1 DEF Resolved
<1>10. \A n \in DOMAIN notifying : PathOf(n)' = PathOf(n)
                                   /\ log'[notifying'[n].update].new = log[notifying[n].update].new
    BY <1>4, <1>5 DEF PathOf, PlacesOK
<1>11. PathOf(top)' = p /\ log'[notifying'[top].update].new = v
    BY <1>3, <1>4, <1>5, <1>6 DEF PathOf
<1>12. TreeTypes'
    <2>1. now' \in Nat /\ rewritten' \subseteq Nested /\ nested' \subseteq Nested
        BY <1>1, <1>2 DEF TreeTypes
    <2> QED
        BY <1>1, <1>4, <1>7, <2>1 DEF TreeTypes
<1>13. PlacesOK'
    <2>1. \A n \in DOMAIN notifying' : notifying'[n].update \in DOMAIN log' /\ notifying'[n].next \in Nat \ {0}
        BY <1>4, <1>5, <1>6 DEF PlacesOK
    <2>2. /\ conflicts' \in Seq(Tree!StateConflict)
          /\ \A c \in DOMAIN conflicts' :
                /\ conflicts'[c].updates[1] \in DOMAIN log' /\ conflicts'[c].updates[2] \in DOMAIN log'
                /\ conflicts'[c].resolution \in DOMAIN log' \cup {0}
        BY <1>1, <1>4 DEF PlacesOK
    <2> QED
        BY <1>5, <2>1, <2>2 DEF PlacesOK
<1>14. Explained'
    <2> SUFFICES ASSUME NEW q \in Nested, q \notin rewritten'
                 PROVE  \/ Tree!Entries(q)' = {} /\ Tree!ValueAt(tree', q) = None
                        \/ \E j \in Tree!Entries(q)' :
                              /\ \A h \in Tree!Entries(q)' : h <= j
                              /\ q \in DOMAIN tree' /\ tree'[q].value = log'[j].new
                              /\ tree'[q].owner = log'[j].domain
        BY DEF Explained
    <2>1. \A j \in Tree!Entries(q) : j \in DOMAIN log
        BY DEF Tree!Entries
    <2>2. CASE q = p
        <3>1. i \in Tree!Entries(q)' /\ \A h \in Tree!Entries(q)' : h <= i
            BY <1>4, <1>8, <2>1, <2>2 DEF i
        <3> QED
            BY <1>3, <1>4, <1>7, <2>2, <3>1
    <2>3. CASE q # p
        <3>1. q \notin rewritten
            BY <1>1, <2>3
        <3>2. CASE Tree!Entries(q) = {} /\ Tree!ValueAt(tree, q) = None
            BY <1>7, <1>8, <2>3, <3>2
        <3>3. ASSUME NEW j \in Tree!Entries(q), \A h \in Tree!Entries(q) : h <= j,
                     q \in DOMAIN tree, tree[q].value = log[j].new, tree[q].owner = log[j].domain
              PROVE  /\ j \in Tree!Entries(q)' /\ \A h \in Tree!Entries(q)' : h <= j
                     /\ q \in DOMAIN tree' /\ tree'[q].value = log'[j].new
                     /\ tree'[q].owner = log'[j].domain
            BY <1>4, <1>7, <1>8, <2>1, <2>3, <3>3
        <3> QED
            BY <3>1, <3>2, <3>3 DEF Explained
    <2> QED
        BY <2>2, <2>3
<1>15. Counted'
    <2> SUFFICES ASSUME snapshots = <<>>, NEW q \in Nested
                 PROVE  VersionAt(tree', q) = Cardinality(Tree!Entries(q)') + Cardinality(Resolved(q)')
        BY <1>1 DEF Counted
    <2>1. VersionAt(tree, q) = Cardinality(Tree!Entries(q)) + Cardinality(Resolved(q))
        BY DEF Counted
    <2>2. IsFiniteSet(Tree!Entries(q)) /\ i \notin Tree!Entries(q) /\ IsFiniteSet(Resolved(q))
        <3>1. IsFiniteSet(DOMAIN log) /\ IsFiniteSet(DOMAIN conflicts)
            <4>1. DOMAIN log = 1 .. Len(log) /\ DOMAIN conflicts = 1 .. Len(conflicts)
                  /\ Len(conflicts) \in Nat
                BY <1>2 DEF PlacesOK
            <4> QED
                BY <1>4, <4>1, FS_Interval
        <3> QED
            BY <1>4, <3>1, FS_Subset DEF Tree!Entries, Resolved
    <2>3. /\ Cardinality(Tree!Entries(q)) \in Nat /\ Cardinality(Resolved(q)) \in Nat
          /\ Cardinality(Tree!Entries(q) \cup {i}) = Cardinality(Tree!Entries(q)) + 1
        BY <2>2, FS_AddElement, FS_CardinalityType
    <2>4. CASE q = p
        <3>1. /\ VersionAt(tree', q) = VersionAt(tree, q) + 1
              /\ Cardinality(Tree!Entries(q)') = Cardinality(Tree!Entries(q)) + 1
              /\ Cardinality(Resolved(q)') = Cardinality(Resolved(q))
            BY <1>7, <1>8, <1>9, <2>3, <2>4
        <3> QED
            BY <2>1, <2>3, <3>1
    <2>5. CASE q # p
        BY <1>7, <1>8, <1>9, <2>1, <2>5
    <2> QED
        BY <2>4, <2>5
<1>16. OneUnderWay'
    <2> SUFFICES ASSUME NEW m \in DOMAIN notifying', NEW n \in DOMAIN notifying',
                        PathOf(m)' = PathOf(n)', m # n
                 PROVE  PathOf(m)' \in nested'
        BY DEF OneUnderWay
    <2>1. nested \subseteq nested' /\ ((\E h \in DOMAIN notifying : PathOf(h) = p) => p \in nested')
        BY <1>1
    <2>2. CASE m \in DOMAIN notifying /\ n \in DOMAIN notifying
        BY <1>10, <2>1, <2>2 DEF OneUnderWay
    <2>3. CASE m = top \/ n = top
        BY <1>5, <1>10, <1>11, <2>1, <2>3
    <2> QED
        BY <1>5, <2>2, <2>3
<1>17. ToldSoFar'
    <2> SUFFICES ASSUME NEW q \in Nested, q \notin rewritten' \cup nested', NEW k \in DOMAIN watching[q]
                 PROVE  \/ told[watching[q][k]][q] = Tree!ValueAt(tree', q)
                        \/ \E n \in DOMAIN notifying' : PathOf(n)' = q /\ notifying'[n].next <= k
        BY <1>1 DEF ToldSoFar
    <2>1. CASE q = p
        <3>1. 1 <= k
            BY DEF TreeTypes
        <3> QED
            BY <1>5, <1>6, <1>11, <2>1, <3>1
    <2>2. CASE q # p
        <3>1. q \notin rewritten \cup nested
            BY <1>1, <2>2
        <3>2. \/ told[watching[q][k]][q] = Tree!ValueAt(tree, q)
              \/ \E n \in DOMAIN notifying : PathOf(n) = q /\ notifying[n].next <= k
            BY <3>1 DEF ToldSoFar
        <3> QED
            BY <1>5, <1>7, <1>10, <2>2, <3>2
    <2> QED
        BY <2>1, <2>2
<1>18. TellsCurrent'
    <2> SUFFICES ASSUME NEW n \in DOMAIN notifying', PathOf(n)' \notin rewritten' \cup nested'
                 PROVE  log'[notifying'[n].update].new = Tree!ValueAt(tree', PathOf(n)')
        BY DEF TellsCurrent
    <2>1. CASE n = top
        BY <1>7, <1>11, <2>1
    <2>2. CASE n \in DOMAIN notifying
        <3>1. PathOf(n)' = PathOf(n) /\ log'[notifying'[n].update].new = log[notifying[n].update].new
            BY <1>10, <2>2
        <3>2. PathOf(n) # p
            BY <1>1, <2>2, <3>1
        <3>3. PathOf(n) \notin rewritten \cup nested
            BY <1>1, <3>1, <3>2
        <3> QED
            BY <1>7, <2>2, <3>1, <3>2, <3>3 DEF TellsCurrent
    <2> QED
        BY <1>5, <2>1, <2>2
<1> QED
    BY <1>12, <1>13, <1>14, <1>15, <1>16, <1>17, <1>18

LEMMA EntryTyped ==
    ASSUME TreeInv
    PROVE  /\ DOMAIN log \subseteq Nat \ {0}
           /\ \A i \in DOMAIN log : log[i] \in Tree!StateUpdate /\ log[i].path \in Nested
<1>1. log \in Seq(Tree!StateUpdate)
    BY DEF TreeInv, TreeTypes
<1>2. DOMAIN log \subseteq Nat \ {0} /\ \A i \in DOMAIN log : log[i] \in Tree!StateUpdate
    BY <1>1
<1> QED
    BY <1>2 DEF Tree!StateUpdate

LEMMA RulesKeep ==
    ASSUME TreeInv, NEW p \in Nested, NEW ds \in SUBSET Others, Tree!SetAccessControl(p, ds)
    PROVE  TreeInv'
<1> USE DEF TreeInv
<1>1. /\ allowed' = [allowed EXCEPT ![p] = ds]
      /\ UNCHANGED <<tree, log, now, conflicts, snapshots, watching, notifying, told, rewritten, nested>>
    BY DEF Tree!SetAccessControl
<1>2. TreeTypes'
    BY <1>1 DEF TreeTypes
<1>3. \A q : Tree!Entries(q)' = Tree!Entries(q) /\ Resolved(q)' = Resolved(q)
    BY <1>1 DEF Tree!Entries, Resolved
<1>4. PlacesOK' /\ Explained' /\ Counted'
    BY <1>1, <1>3 DEF PlacesOK, Explained, Counted
<1>5. OneUnderWay' /\ ToldSoFar' /\ TellsCurrent'
    BY <1>1 DEF OneUnderWay, ToldSoFar, TellsCurrent, PathOf
<1> QED
    BY <1>2, <1>4, <1>5

LEMMA WatchKeeps ==
    ASSUME TreeInv, NEW p \in Nested, NEW w \in Watchers, Tree!WatchPath(p, w)
    PROVE  TreeInv'
<1> USE DEF TreeInv
<1>1. /\ watching' = [watching EXCEPT ![p] = Append(@, w)]
      /\ told' = [told EXCEPT ![w][p] = Tree!ValueAt(tree, p)]
      /\ UNCHANGED <<tree, log, now, conflicts, snapshots, allowed, notifying, rewritten, nested>>
    BY DEF Tree!WatchPath
<1>2. Tree!ValueAt(tree, p) \in Values \cup {None}
    BY DEF TreeTypes, IsTree, Tree!ValueAt, Tree!StateNode
<1>3. /\ told \in [Watchers -> [Nested -> Values \cup {None}]]
      /\ watching \in [Nested -> Seq(Watchers)]
    BY DEF TreeTypes
<1>4. /\ told' \in [Watchers -> [Nested -> Values \cup {None}]]
      /\ told'[w][p] = Tree!ValueAt(tree, p)
      /\ \A x \in Watchers, q \in Nested : x # w \/ q # p => told'[x][q] = told[x][q]
    <2> HIDE DEF TreeInv
    <2> DEFINE v == Tree!ValueAt(tree, p)
    <2>1. told' = [told EXCEPT ![w][p] = v] /\ v \in Values \cup {None}
        BY <1>1, <1>2
    <2> HIDE DEF v
    <2>2. /\ told' \in [Watchers -> [Nested -> Values \cup {None}]]
          /\ told'[w][p] = v
          /\ \A x \in Watchers, q \in Nested : x # w \/ q # p => told'[x][q] = told[x][q]
        BY <1>3, <2>1
    <2> QED
        BY <2>2 DEF v
<1> DEFINE n == Len(watching[p]) + 1
<1>5. /\ watching' \in [Nested -> Seq(Watchers)]
      /\ \A q \in Nested : q # p => watching'[q] = watching[q]
      /\ DOMAIN watching'[p] = DOMAIN watching[p] \cup {n} /\ watching'[p][n] = w
      /\ \A k \in DOMAIN watching[p] : watching'[p][k] = watching[p][k]
    <2>1. watching[p] \in Seq(Watchers) /\ watching' = [watching EXCEPT ![p] = Append(watching[p], w)]
        BY <1>1, <1>3
    <2> DEFINE longer == Append(watching[p], w)
    <2>2. /\ longer \in Seq(Watchers) /\ DOMAIN longer = DOMAIN watching[p] \cup {n} /\ longer[n] = w
          /\ \A k \in DOMAIN watching[p] : longer[k] = watching[p][k]
        BY <2>1
    <2> HIDE DEF longer, n, TreeInv
    <2>3. watching' = [watching EXCEPT ![p] = longer]
        BY <2>1 DEF longer
    <2> QED
        BY <1>3, <2>2, <2>3
<1> HIDE DEF n
<1>6. TreeTypes'
    BY <1>1, <1>4, <1>5 DEF TreeTypes
<1>7. \A q : Tree!Entries(q)' = Tree!Entries(q) /\ Resolved(q)' = Resolved(q)
    BY <1>1 DEF Tree!Entries, Resolved
<1>8. PlacesOK' /\ Explained' /\ Counted'
    BY <1>1, <1>7 DEF PlacesOK, Explained, Counted
<1>9. OneUnderWay' /\ TellsCurrent'
    BY <1>1 DEF OneUnderWay, TellsCurrent, PathOf
<1>10. ToldSoFar'
    <2> SUFFICES ASSUME NEW q \in Nested, q \notin rewritten \cup nested, NEW k \in DOMAIN watching'[q]
                 PROVE  \/ told'[watching'[q][k]][q] = Tree!ValueAt(tree, q)
                        \/ \E m \in DOMAIN notifying : PathOf(m) = q /\ notifying[m].next <= k
        BY <1>1 DEF ToldSoFar, PathOf
    <2>1. watching'[q][k] \in Watchers
        BY <1>5
    <2>2. CASE q = p /\ watching'[q][k] = w
        BY <1>4, <2>2
    <2>3. CASE ~ (q = p /\ watching'[q][k] = w)
        <3>1. k \in DOMAIN watching[q] /\ watching'[q][k] = watching[q][k]
            BY <1>5, <2>3
        <3>2. told'[watching'[q][k]][q] = told[watching[q][k]][q]
            BY <1>4, <2>1, <2>3, <3>1
        <3> QED
            BY <3>1, <3>2 DEF ToldSoFar
    <2> QED
        BY <2>2, <2>3
<1> QED
    BY <1>6, <1>8, <1>9, <1>10

LEMMA NotifyKeeps == TreeInv /\ Tree!Notify => TreeInv'
<1> SUFFICES ASSUME TreeInv, Tree!Notify PROVE TreeInv'
    OBVIOUS
<1> USE DEF TreeInv
<1>1. notifying # <<>> /\ notifying \in Seq(Tree!Notification)
    BY DEF Tree!Notify, PlacesOK
<1>2. PICK last \in Nat \ {0} : last = Len(notifying)
    BY <1>1
<1> DEFINE f == notifying[last]
           u == log[f.update]
           front == SubSeq(notifying, 1, last - 1)
<1>3. /\ IF f.next <= Len(watching[u.path])
         THEN /\ told' = [told EXCEPT ![watching[u.path][f.next]][u.path] = u.new]
              /\ notifying' = Append(front, [f EXCEPT !.next = @ + 1])
         ELSE notifying' = front /\ told' = told
      /\ UNCHANGED <<tree, log, now, conflicts, snapshots, allowed, watching, rewritten, nested>>
    BY <1>2 DEF Tree!Notify, Tree!Last, Tree!Front, Tree!Remaining
<1>4. /\ DOMAIN notifying = 1 .. last /\ last \in DOMAIN notifying
      /\ f \in Tree!Notification
      /\ front \in Seq(Tree!Notification) /\ DOMAIN front = 1 .. last - 1 /\ Len(front) = last - 1
      /\ \A n \in 1 .. last - 1 : front[n] = notifying[n]
    BY <1>1, <1>2
<1>5. /\ f.update \in DOMAIN log /\ f.next \in Nat \ {0} /\ u \in Tree!StateUpdate
    <2>1. f.update \in DOMAIN log /\ f.next \in Nat \ {0}
        BY <1>4 DEF PlacesOK
    <2> QED
        BY <2>1, EntryTyped
<1>6. u.path \in Nested /\ u.new \in Values /\ PathOf(last) = u.path
    BY <1>5 DEF Tree!StateUpdate, PathOf
<1> HIDE DEF f, u, front
<1>7. \A q : Tree!Entries(q)' = Tree!Entries(q) /\ Resolved(q)' = Resolved(q)
    BY <1>3 DEF Tree!Entries, Resolved
<1>8. Explained' /\ Counted'
    BY <1>3, <1>7 DEF Explained, Counted
<1>9. CASE f.next <= Len(watching[u.path])
    <2> DEFINE w == watching[u.path][f.next]
               g == [f EXCEPT !.next = @ + 1]
    <2>1. told' = [told EXCEPT ![w][u.path] = u.new] /\ notifying' = Append(front, g)
        BY <1>3, <1>9
    <2>2. w \in Watchers
        BY <1>5, <1>6, <1>9 DEF TreeTypes
    <2>3. g \in Tree!Notification /\ g.update = f.update /\ g.next = f.next + 1
        BY <1>4 DEF Tree!Notification
    <2> HIDE DEF w, g
    <2>4. /\ notifying' \in Seq(Tree!Notification) /\ DOMAIN notifying' = DOMAIN notifying
          /\ notifying'[last] = g
          /\ \A n \in DOMAIN notifying : n # last => notifying'[n] = notifying[n]
        BY <1>2, <1>4, <2>1, <2>3
    <2>5. /\ told' \in [Watchers -> [Nested -> Values \cup {None}]]
          /\ told'[w][u.path] = u.new
          /\ \A x \in Watchers, q \in Nested : x # w \/ q # u.path => told'[x][q] = told[x][q]
        <3>1. told \in [Watchers -> [Nested -> Values \cup {None}]]
            BY DEF TreeTypes
        <3> HIDE DEF TreeInv
        <3> DEFINE p == u.path
                   v == u.new
        <3>2. told' = [told EXCEPT ![w][p] = v] /\ p \in Nested /\ v \in Values \cup {None}
            BY <1>6, <2>1
        <3> HIDE DEF p, v
        <3>3. /\ told' \in [Watchers -> [Nested -> Values \cup {None}]]
              /\ told'[w][p] = v
              /\ \A x \in Watchers, q \in Nested : x # w \/ q # p => told'[x][q] = told[x][q]
            BY <2>2, <3>1, <3>2
        <3> QED
            BY <3>3 DEF p, v
    <2>6. \A n \in DOMAIN notifying : notifying'[n].update = notifying[n].update
        BY <2>3, <2>4 DEF f
    <2>7. \A n \in DOMAIN notifying : PathOf(n)' = PathOf(n)
        BY <1>3, <2>6 DEF PathOf
    <2>8. TreeTypes'
        BY <1>3, <2>5 DEF TreeTypes
    <2>9. PlacesOK'
        <3>1. \A n \in DOMAIN notifying : notifying'[n].next \in Nat \ {0}
            BY <1>5, <2>3, <2>4 DEF PlacesOK
        <3> QED
            BY <1>3, <2>4, <2>6, <3>1 DEF PlacesOK
    <2>10. OneUnderWay' /\ TellsCurrent'
        BY <1>3, <2>4, <2>6, <2>7 DEF OneUnderWay, TellsCurrent
    <2>11. ToldSoFar'
        <3> SUFFICES ASSUME NEW q \in Nested, q \notin rewritten \cup nested, NEW k \in DOMAIN watching[q]
                     PROVE  \/ told'[watching[q][k]][q] = Tree!ValueAt(tree, q)
                            \/ \E n \in DOMAIN notifying : PathOf(n) = q /\ notifying'[n].next <= k
            BY <1>3, <2>4, <2>7 DEF ToldSoFar
        <3>1. watching[q][k] \in Watchers /\ k \in Nat
            BY DEF TreeTypes
        <3>2. CASE q = u.path /\ watching[q][k] = w
            <4>1. u.new = Tree!ValueAt(tree, u.path)
                BY <1>4, <1>6, <3>2 DEF TellsCurrent, u, f
            <4> QED
                BY <2>5, <3>2, <4>1
        <3>3. CASE ~ (q = u.path /\ watching[q][k] = w)
            <4>1. told'[watching[q][k]][q] = told[watching[q][k]][q]
                BY <2>5, <3>1, <3>3
            <4>2. ASSUME NEW n \in DOMAIN notifying, PathOf(n) = q, notifying[n].next <= k
                  PROVE  notifying'[n].next <= k
                <5>1. CASE n # last
                    BY <2>4, <4>2, <5>1
                <5>2. CASE n = last
                    <6>1. q = u.path /\ f.next <= k /\ f.next # k
                        BY <1>6, <3>3, <4>2, <5>2 DEF f, w
                    <6> QED
                        BY <1>5, <2>3, <2>4, <3>1, <5>2, <6>1
                <5> QED
                    BY <5>1, <5>2
            <4> QED
                BY <4>1, <4>2 DEF ToldSoFar
        <3> QED
            BY <3>2, <3>3
    <2> QED
        BY <1>8, <2>8, <2>9, <2>10, <2>11
<1>10. CASE ~ f.next <= Len(watching[u.path])
    <2>1. told' = told /\ notifying' = front
        BY <1>3, <1>10
    <2>2. /\ notifying' \in Seq(Tree!Notification) /\ DOMAIN notifying' = DOMAIN notifying \ {last}
          /\ \A n \in DOMAIN notifying' : notifying'[n] = notifying[n]
        BY <1>2, <1>4, <2>1
    <2>3. \A n \in DOMAIN notifying' : PathOf(n)' = PathOf(n)
        BY <1>3, <2>2 DEF PathOf
    <2>4. TreeTypes'
        BY <1>3, <2>1 DEF TreeTypes
    <2>5. PlacesOK'
        BY <1>3, <2>2 DEF PlacesOK
    <2>6. OneUnderWay' /\ TellsCurrent'
        BY <1>3, <2>2, <2>3 DEF OneUnderWay, TellsCurrent
    <2>7. ToldSoFar'
        <3> SUFFICES ASSUME NEW q \in Nested, q \notin rewritten \cup nested, NEW k \in DOMAIN watching[q],
                            NEW n \in DOMAIN notifying, PathOf(n) = q, notifying[n].next <= k
                     PROVE  n # last
            BY <1>3, <2>1, <2>2, <2>3 DEF ToldSoFar
        <3>1. k <= Len(watching[q]) /\ k \in Nat /\ Len(watching[q]) \in Nat
            BY DEF TreeTypes
        <3>2. n = last => q = u.path /\ f.next <= k
            BY <1>6 DEF f
        <3> QED
            BY <1>5, <1>10, <3>1, <3>2
    <2> QED
        BY <1>8, <2>4, <2>5, <2>6, <2>7
<1> QED
    BY <1>9, <1>10

LEMMA DetectKeeps ==
    ASSUME TreeInv, NEW i \in DOMAIN log, NEW j \in DOMAIN log, Tree!DetectConflict(i, j)
    PROVE  TreeInv'
<1> USE DEF TreeInv
<1> DEFINE x == [updates |-> <<i, j>>, resolution |-> 0]
           n == Len(conflicts) + 1
<1>1. /\ conflicts' = Append(conflicts, x)
      /\ UNCHANGED <<tree, log, now, snapshots, allowed, watching, notifying, told, rewritten, nested>>
    BY DEF Tree!DetectConflict, Tree!Unresolved
<1>2. conflicts \in Seq(Tree!StateConflict) /\ DOMAIN log \subseteq Nat \ {0}
    BY DEF PlacesOK, TreeTypes
<1>3. x \in Tree!StateConflict /\ x.updates[1] = i /\ x.updates[2] = j /\ x.resolution = 0
    BY <1>2 DEF Tree!StateConflict
<1> HIDE DEF x
<1>4. /\ conflicts' \in Seq(Tree!StateConflict) /\ DOMAIN conflicts' = DOMAIN conflicts \cup {n}
      /\ conflicts'[n] = x /\ \A c \in DOMAIN conflicts : conflicts'[c] = conflicts[c]
    BY <1>1, <1>2, <1>3
<1> HIDE DEF n
<1>5. PlacesOK'
    <2>1. \A c \in DOMAIN conflicts' :
             /\ conflicts'[c].updates[1] \in DOMAIN log /\ conflicts'[c].updates[2] \in DOMAIN log
             /\ conflicts'[c].resolution \in DOMAIN log \cup {0}
        BY <1>3, <1>4 DEF PlacesOK
    <2> QED
        BY <1>1, <1>4, <2>1 DEF PlacesOK
<1>6. TreeTypes'
    BY <1>1 DEF TreeTypes
<1>7. \A q : Tree!Entries(q)' = Tree!Entries(q) /\ Resolved(q)' = Resolved(q)
    <2>1. \A q : Tree!Entries(q)' = Tree!Entries(q) /\ 0 \notin Tree!Entries(q)
        BY <1>1, <1>2 DEF Tree!Entries
    <2> QED
        BY <1>3, <1>4, <2>1 DEF Resolved
<1>8. Explained' /\ Counted'
    BY <1>1, <1>7 DEF Explained, Counted
<1>9. OneUnderWay' /\ ToldSoFar' /\ TellsCurrent'
    BY <1>1 DEF OneUnderWay, ToldSoFar, TellsCurrent, PathOf
<1> QED
    BY <1>5, <1>6, <1>8, <1>9

LEMMA ResolveKeeps ==
    ASSUME Tree!ConstantsOK, TreeInv, NEW c \in DOMAIN conflicts, NEW strategy \in Tree!Strategies,
           Tree!ResolveConflict(c, strategy)
    PROVE  TreeInv'
<1> USE DEF TreeInv
<1>1. PICK k \in Tree!Chosen(strategy, conflicts[c].updates[1], conflicts[c].updates[2]) :
          /\ conflicts' = [conflicts EXCEPT ![c].resolution = k]
          /\ tree' = Tree!SetValue(tree, log[k].path, log[k].new, log[k].domain)
          /\ rewritten' = rewritten \cup {log[k].path}
    BY DEF Tree!ResolveConflict
<1>2. /\ conflicts[c].resolution = 0
      /\ UNCHANGED <<log, now, snapshots, allowed, watching, notifying, told, nested>>
    BY DEF Tree!ResolveConflict, Tree!Open, Tree!Unresolved
<1>3. k \in DOMAIN log
    <2>1. k = conflicts[c].updates[1] \/ k = conflicts[c].updates[2]
        BY <1>1 DEF Tree!Chosen, Tree!Strategies
    <2> QED
        BY <2>1 DEF PlacesOK
<1> DEFINE p == log[k].path
           v == log[k].new
           d == log[k].domain
<1>4. /\ p \in Nested /\ v \in Values /\ d \in Others /\ DOMAIN log \subseteq Nat \ {0}
    BY <1>3, EntryTyped DEF Tree!StateUpdate
<1>5. tree' = Tree!SetValue(tree, p, v, d) /\ rewritten' = rewritten \cup {p}
      /\ \A q : k \in Tree!Entries(q) <=> q = p
    BY <1>1, <1>3 DEF Tree!Entries
<1> HIDE DEF p, v, d
<1>6. /\ IsTree(tree') /\ p \in DOMAIN tree' /\ DOMAIN tree \subseteq DOMAIN tree'
      /\ \A q \in DOMAIN tree : q # p => tree'[q] = tree[q]
      /\ \A q : q # p => Tree!ValueAt(tree', q) = Tree!ValueAt(tree, q)
      /\ \A q : VersionAt(tree', q) = IF q = p THEN VersionAt(tree, p) + 1 ELSE VersionAt(tree, q)
    BY <1>4, <1>5, SetValueFacts DEF TreeTypes
<1>7. /\ conflicts' \in Seq(Tree!StateConflict) /\ DOMAIN conflicts' = DOMAIN conflicts
      /\ conflicts'[c].resolution = k /\ conflicts'[c].updates = conflicts[c].updates
      /\ \A e \in DOMAIN conflicts : e # c => conflicts'[e] = conflicts[e]
    <2>1. conflicts \in Seq(Tree!StateConflict)
        BY DEF PlacesOK
    <2> DEFINE x == [conflicts[c] EXCEPT !.resolution = k]
    <2>2. x \in Tree!StateConflict /\ x.resolution = k /\ x.updates = conflicts[c].updates
        <3>1. conflicts[c] \in Tree!StateConflict /\ k \in Nat
            BY <1>3, <1>4, <2>1
        <3> QED
            BY <3>1 DEF Tree!StateConflict
    <2>3. conflicts' = [conflicts EXCEPT ![c] = x]
        BY <1>1
    <2> HIDE DEF x, TreeInv
    <2> QED
        BY <2>1, <2>2, <2>3
<1>8. \A q : Tree!Entries(q)' = Tree!Entries(q)
    BY <1>2 DEF Tree!Entries
<1>9. \A q : Resolved(q)' = IF q = p THEN Resolved(q) \cup {c} ELSE Resolved(q)
    BY <1>5, <1>7, <1>8, <1>2, <1>4 DEF Resolved, Tree!Entries
<1>10. TreeTypes'
    BY <1>2, <1>4, <1>5, <1>6 DEF TreeTypes
<1>11. PlacesOK'
    <2>1. \A e \in DOMAIN conflicts' :
             /\ conflicts'[e].updates[1] \in DOMAIN log /\ conflicts'[e].updates[2] \in DOMAIN log
             /\ conflicts'[e].resolution \in DOMAIN log \cup {0}
        BY <1>3, <1>7 DEF PlacesOK
    <2> QED
        BY <1>2, <1>7, <2>1 DEF PlacesOK
<1>12. Explained'
    <2> SUFFICES ASSUME NEW q \in Nested, q \notin rewritten, q # p
                 PROVE  \/ Tree!Entries(q) = {} /\ Tree!ValueAt(tree', q) = None
                        \/ \E j \in Tree!Entries(q) :
                              /\ \A h \in Tree!Entries(q) : h <= j
                              /\ q \in DOMAIN tree' /\ tree'[q].value = log[j].new
                              /\ tree'[q].owner = log[j].domain
        BY <1>2, <1>5, <1>8 DEF Explained
    <2> QED
        BY <1>6 DEF Explained
<1>13. Counted'
    <2> SUFFICES ASSUME snapshots = <<>>, NEW q \in Nested
                 PROVE  VersionAt(tree', q) = Cardinality(Tree!Entries(q)) + Cardinality(Resolved(q)')
        BY <1>2, <1>8 DEF Counted
    <2>1. VersionAt(tree, q) = Cardinality(Tree!Entries(q)) + Cardinality(Resolved(q))
        BY DEF Counted
    <2>2. IsFiniteSet(Tree!Entries(q)) /\ c \notin Resolved(q) /\ IsFiniteSet(Resolved(q))
        <3>1. IsFiniteSet(DOMAIN log) /\ IsFiniteSet(DOMAIN conflicts)
            <4>1. /\ DOMAIN log = 1 .. Len(log) /\ DOMAIN conflicts = 1 .. Len(conflicts)
                  /\ Len(conflicts) \in Nat /\ Len(log) \in Nat
                BY DEF PlacesOK, TreeTypes
            <4> QED
                BY <4>1, FS_Interval
        <3>2. c \notin Resolved(q)
            BY <1>2, <1>4 DEF Resolved, Tree!Entries
        <3> QED
            BY <3>1, <3>2, FS_Subset DEF Tree!Entries, Resolved
    <2>3. /\ Cardinality(Tree!Entries(q)) \in Nat /\ Cardinality(Resolved(q)) \in Nat
          /\ Cardinality(Resolved(q) \cup {c}) = Cardinality(Resolved(q)) + 1
        BY <2>2, FS_AddElement, FS_CardinalityType
    <2>4. CASE q = p
        <3>1. VersionAt(tree', q) = VersionAt(tree, q) + 1
              /\ Cardinality(Resolved(q)') = Cardinality(Resolved(q)) + 1
            BY <1>6, <1>9, <2>3, <2>4
        <3> QED
            BY <2>1, <2>3, <3>1
    <2>5. CASE q # p
        BY <1>6, <1>9, <2>1, <2>5
    <2> QED
        BY <2>4, <2>5
<1>14. OneUnderWay'
    BY <1>2 DEF OneUnderWay, PathOf
<1>15. ToldSoFar' /\ TellsCurrent'
    BY <1>2, <1>5, <1>6 DEF ToldSoFar, TellsCurrent, PathOf
<1> QED
    BY <1>10, <1>11, <1>12, <1>13, <1>14, <1>15

LEMMA SnapshotKeeps == TreeInv /\ Tree!CreateSnapshot => TreeInv'
<1> SUFFICES ASSUME TreeInv, Tree!CreateSnapshot PROVE TreeInv'
    OBVIOUS
<1> USE DEF TreeInv
<1> DEFINE s == Tree!Serialized(tree)
<1>1. /\ snapshots' = Append(snapshots, s)
      /\ UNCHANGED <<tree, log, now, conflicts, allowed, watching, notifying, told, rewritten, nested>>
    BY DEF Tree!CreateSnapshot
<1>2. s \in Snapshot
    <2>1. s \in [DOMAIN tree -> Tree!StateNode] /\ DOMAIN tree \in SUBSET Nested
        BY DEF TreeTypes, IsTree, Tree!Serialized, Tree!StateNode
    <2> QED
        BY <2>1 DEF Snapshot
<1> HIDE DEF s
<1>3. snapshots' \in Seq(Snapshot) /\ snapshots' # <<>>
    <2>1. snapshots \in Seq(Snapshot)
        BY DEF TreeTypes
    <2> HIDE DEF TreeInv
    <2> QED
        BY <1>1, <1>2, <2>1
<1>4. TreeTypes' /\ Counted'
    BY <1>1, <1>3 DEF TreeTypes, Counted
<1>5. \A q : Tree!Entries(q)' = Tree!Entries(q)
    BY <1>1 DEF Tree!Entries
<1>6. PlacesOK' /\ Explained'
    BY <1>1, <1>5 DEF PlacesOK, Explained
<1>7. OneUnderWay' /\ ToldSoFar' /\ TellsCurrent'
    BY <1>1 DEF OneUnderWay, ToldSoFar, TellsCurrent, PathOf
<1> QED
    BY <1>4, <1>6, <1>7

LEMMA RestoreKeeps ==
    ASSUME TreeInv, NEW s \in DOMAIN snapshots, Tree!RestoreSnapshot(s)
    PROVE  TreeInv'
<1> USE DEF TreeInv
<1> DEFINE data == snapshots[s]
<1>1. /\ tree' = Tree!Deserialized(data) /\ rewritten' = Nested
      /\ UNCHANGED <<log, now, conflicts, snapshots, allowed, watching, notifying, told, nested>>
    BY DEF Tree!RestoreSnapshot
<1>2. PICK S \in SUBSET Nested : data \in [S -> Tree!StateNode]
    <2>1. data \in Snapshot
        BY DEF TreeTypes
    <2> QED
        BY <2>1 DEF Snapshot
<1> HIDE DEF data
<1>3. IsTree(tree')
    <2>1. DOMAIN tree' = S /\ \A p \in S :
             tree'[p] = [[[Tree!NewNode EXCEPT !.value = data[p].value] EXCEPT !.version = data[p].version]
                            EXCEPT !.owner = data[p].owner]
        BY <1>1, <1>2 DEF Tree!Deserialized
    <2>2. \A p \in S : tree'[p] \in Tree!StateNode
        <3> SUFFICES ASSUME NEW p \in S PROVE tree'[p] \in Tree!StateNode
            OBVIOUS
        <3>1. data[p] \in Tree!StateNode
            BY <1>2
        <3>2. tree'[p] = [value |-> data[p].value, version |-> data[p].version, owner |-> data[p].owner]
            BY <2>1 DEF Tree!NewNode
        <3> QED
            BY <3>1, <3>2 DEF Tree!StateNode
    <2> QED
        BY <2>1, <2>2 DEF IsTree
<1>4. TreeTypes'
    BY <1>1, <1>3 DEF TreeTypes
<1>5. snapshots # <<>>
    OBVIOUS
<1>6. \A n \in DOMAIN notifying : PathOf(n) \in Nested
    BY EntryTyped DEF PlacesOK, PathOf
<1>7. PlacesOK' /\ Explained' /\ Counted'
    BY <1>1, <1>5 DEF PlacesOK, Explained, Counted
<1>8. OneUnderWay' /\ ToldSoFar' /\ TellsCurrent'
    BY <1>1, <1>6 DEF OneUnderWay, ToldSoFar, TellsCurrent, PathOf
<1> QED
    BY <1>4, <1>7, <1>8

LEMMA TreeKept == Tree!ConstantsOK /\ TreeInv /\ [Tree!Next]_treeVars => TreeInv'
<1> SUFFICES ASSUME Tree!ConstantsOK, TreeInv, [Tree!Next]_treeVars PROVE TreeInv'
    OBVIOUS
<1>1. CASE UNCHANGED treeVars
    <2>1. UNCHANGED <<tree, log, now, conflicts, snapshots, allowed, watching, notifying, told, rewritten, nested>>
        BY <1>1 DEF treeVars
    <2>2. \A q : Tree!Entries(q)' = Tree!Entries(q) /\ Resolved(q)' = Resolved(q)
        BY <2>1 DEF Tree!Entries, Resolved
    <2>3. TreeTypes' /\ PlacesOK' /\ Explained' /\ Counted'
        BY <2>1, <2>2 DEF TreeInv, TreeTypes, PlacesOK, Explained, Counted
    <2>4. OneUnderWay' /\ ToldSoFar' /\ TellsCurrent'
        BY <2>1 DEF TreeInv, OneUnderWay, ToldSoFar, TellsCurrent, PathOf
    <2> QED
        BY <2>3, <2>4 DEF TreeInv
<1>2. CASE Tree!Update
    BY <1>2, UpdateKeeps, NotifyKeeps DEF Tree!Update
<1>3. CASE Tree!Read
    BY <1>3, ReadKeeps DEF Tree!Read
<1>4. CASE Tree!Watch
    BY <1>4, WatchKeeps DEF Tree!Watch
<1>5. CASE Tree!Administer
    BY <1>5, RulesKeep DEF Tree!Administer
<1>6. CASE Tree!Resolve
    BY <1>6, DetectKeeps, ResolveKeeps DEF Tree!Resolve
<1>7. CASE Tree!Restore
    BY <1>7, SnapshotKeeps, RestoreKeeps DEF Tree!Restore
<1> QED
    BY <1>1, <1>2, <1>3, <1>4, <1>5, <1>6, <1>7 DEF Tree!Next

LEMMA TreeInvariance == ASSUME Tree!ConstantsOK PROVE Tree!Spec => []TreeInv
<1>1. TreeInv /\ [Tree!Next]_Tree!vars => TreeInv'
    BY TreeKept DEF Tree!vars, treeVars
<1> QED
    BY <1>1, TreeInit, PTL DEF Tree!Spec

LEMMA TreeImplies ==
    ASSUME TreeInv
    PROVE  Tree!StateInv /\ Tree!VersionsCount /\ Tree!WatchersCurrent
<1> USE DEF TreeInv
<1>1. Tree!TypeOK
    <2>1. \A s \in DOMAIN snapshots : DOMAIN snapshots[s] \subseteq Nested
        BY DEF TreeTypes, Snapshot
    <2> QED
        BY <2>1 DEF TreeTypes, IsTree, PlacesOK, Tree!TypeOK
<1>2. Tree!LogExplains
    <2> SUFFICES ASSUME NEW p \in Nested \ rewritten
                 PROVE  IF Tree!Entries(p) = {} THEN Tree!ValueAt(tree, p) = None
                        ELSE /\ tree[p].value = log[Tree!LastEntry(p)].new
                             /\ tree[p].owner = log[Tree!LastEntry(p)].domain
        BY DEF Tree!LogExplains
    <2>1. CASE Tree!Entries(p) = {}
        BY <2>1 DEF Explained
    <2>2. CASE Tree!Entries(p) # {}
        <3>1. PICK i \in Tree!Entries(p) :
                 /\ \A j \in Tree!Entries(p) : j <= i
                 /\ tree[p].value = log[i].new /\ tree[p].owner = log[i].domain
            BY <2>2 DEF Explained
        <3>2. Tree!LastEntry(p) \in Tree!Entries(p)
              /\ \A j \in Tree!Entries(p) : j <= Tree!LastEntry(p)
            BY <3>1, Zenon DEF Tree!LastEntry
        <3>3. \A j \in Tree!Entries(p) : j \in Nat
            BY DEF Tree!Entries, TreeTypes
        <3> DEFINE e == Tree!LastEntry(p)
        <3>4. e \in Nat /\ i \in Nat /\ e <= i /\ i <= e
            BY <3>1, <3>2, <3>3
        <3> HIDE DEF e
        <3>5. e = i
            BY <3>4
        <3> QED
            BY <2>2, <3>1, <3>5 DEF e
    <2> QED
        BY <2>1, <2>2
<1>3. Tree!VersionsCount
    <2> SUFFICES ASSUME \A s \in DOMAIN snapshots : FALSE, NEW p \in DOMAIN tree
                 PROVE  tree[p].version =
                          Tree!Cardinality(Tree!Entries(p)) +
                          Tree!Cardinality({c \in DOMAIN conflicts :
                              conflicts[c].resolution \in Tree!Entries(p)})
        BY DEF Tree!VersionsCount
    <2>1. snapshots = <<>>
        <3>1. snapshots \in Seq(Snapshot)
            BY DEF TreeTypes
        <3> HIDE DEF TreeInv
        <3>2. Len(snapshots) \in Nat /\ DOMAIN snapshots = 1 .. Len(snapshots)
            BY <3>1
        <3>3. 1 \notin 1 .. Len(snapshots)
            BY <3>2
        <3> QED
            BY <3>1, <3>2, <3>3, EmptySeq
    <2>2. p \in Nested /\ VersionAt(tree, p) = tree[p].version
        BY DEF TreeTypes, IsTree, VersionAt
    <2> QED
        BY <2>1, <2>2, TreeCardinality DEF Counted, Resolved
<1>4. Tree!WatchersCurrent
    <2>1. notifying = <<>> => DOMAIN notifying = {}
        OBVIOUS
    <2> QED
        BY <2>1 DEF ToldSoFar, Tree!WatchersCurrent
<1> QED
    BY <1>1, <1>2, <1>3, <1>4 DEF Tree!StateInv

-----------------------------------------------------------------------------
(* Both stores *)

LEMMA PartsKept == MCSpec => Spec /\ Tree!Spec
<1>1. MCInit => Init /\ Tree!Init
    BY DEF MCInit
<1>2. NoParents \subseteq ParentLists
    BY DEF NoParents, ParentLists
<1>3. LatticeNext => Next
    BY <1>2 DEF LatticeNext, Next, Submission
<1>4. TreeNext => Tree!Next
    BY DEF TreeNext, Tree!Next
<1>5. [MCNext]_<<under, vars, treeVars>> => [Next]_vars
    BY <1>3 DEF MCNext
<1>6. [MCNext]_<<under, vars, treeVars>> => [Tree!Next]_Tree!vars
    BY <1>4 DEF MCNext, treeVars, Tree!vars
<1> QED
    BY <1>1, <1>5, <1>6, PTL DEF MCSpec, Spec, Tree!Spec

\* submit_event, commit_event, update_state, resolve_conflict: a level holds for each key
\* the last event of it committed, the global state only what some level has committed,
\* and the audit log with the resolutions explains every value, owner and version.
THEOREM GlobalKept == MCSpec => []GlobalInv
<1>1. TreeInv => Tree!StateInv /\ Tree!VersionsCount
    BY TreeImplies
<1>2. Spec => []LatticeInv
    BY LatticeInvariance, ConstantsAssumption
<1>3. Tree!Spec => []TreeInv
    BY TreeInvariance, ConstantsAssumption
<1> QED
    BY <1>1, <1>2, <1>3, PartsKept, PTL DEF GlobalInv

\* _notify_watchers: although watchers update the state themselves, the last value each
\* was told of a path is the current one when no notification is under way.
THEOREM WatchersTold == MCSpec => []WatchersCurrent
<1>1. TreeInv => WatchersCurrent
    BY TreeImplies DEF WatchersCurrent
<1>2. Tree!Spec => []TreeInv
    BY TreeInvariance, ConstantsAssumption
<1> QED
    BY <1>1, <1>2, PartsKept, PTL

-----------------------------------------------------------------------------
(* Loops *)

\* What is kept by each turn of a loop holds after every number of turns.
LEMMA LoopKeeps ==
    ASSUME NEW S, NEW n \in Nat, NEW f, f[0] \in S,
           \A k \in 1 .. n : f[k - 1] \in S => f[k] \in S
    PROVE  \A k \in 0 .. n : f[k] \in S
<1> DEFINE Bad == {k \in 0 .. n : f[k] \notin S}
<1> SUFFICES ASSUME Bad # {} PROVE FALSE
    OBVIOUS
<1>1. Bad \in SUBSET Nat
    OBVIOUS
<1>2. PICK k \in Bad : \A j \in Bad : k <= j
    BY <1>1, LeastElement
<1>3. k \in 0 .. n /\ f[k] \notin S
    BY <1>2
<1>4. k # 0
    BY <1>3
<1>5. k - 1 \notin Bad
    BY <1>2, <1>3, <1>4
<1>6. f[k - 1] \in S
    BY <1>3, <1>4, <1>5
<1> QED
    BY <1>3, <1>4, <1>6

\* f[k] is what n or fewer turns k of a loop that repeats a step make of x.
IsIteration(f, S, x, step, n) ==
    f \in [0 .. n -> S] /\ f[0] = x /\ \A k \in 1 .. n : f[k] = step[f[k - 1]]

\* A loop that repeats a step has a result after every number of turns.
LEMMA IterationExists ==
    ASSUME NEW S, NEW x \in S, NEW step \in [S -> S], NEW n \in Nat
    PROVE  \E f : IsIteration(f, S, x, step, n)
<1> DEFINE Good(m) == \E f \in [0 .. m -> S] :
                         f[0] = x /\ \A k \in 1 .. m : f[k] = step[f[k - 1]]
           Bad == {m \in Nat : ~ Good(m)}
<1>1. Good(0)
    <2> DEFINE f == [k \in 0 .. 0 |-> x]
    <2>1. f \in [0 .. 0 -> S] /\ f[0] = x
        OBVIOUS
    <2>2. \A k \in 1 .. 0 : f[k] = step[f[k - 1]]
        OBVIOUS
    <2> QED
        BY <2>1, <2>2
<1>2. ASSUME NEW m \in Nat \ {0}, Good(m - 1) PROVE Good(m)
    <2>1. PICK f \in [0 .. m - 1 -> S] :
                  f[0] = x /\ \A k \in 1 .. m - 1 : f[k] = step[f[k - 1]]
        BY <1>2
    <2> DEFINE g == [k \in 0 .. m |-> IF k = m THEN step[f[m - 1]] ELSE f[k]]
    <2>2. g \in [0 .. m -> S]
        OBVIOUS
    <2>3. g[0] = x /\ \A k \in 1 .. m : g[k] = step[g[k - 1]]
        BY <2>1
    <2> HIDE DEF g
    <2> QED
        BY <2>2, <2>3
<1> HIDE DEF Good
<1>3. Bad = {}
    <2> SUFFICES ASSUME Bad # {} PROVE FALSE
        OBVIOUS
    <2>1. PICK m \in Bad : \A j \in Bad : m <= j
        BY LeastElement
    <2>2. m \in Nat \ {0}
        BY <1>1
    <2>3. Good(m - 1)
        BY <2>1, <2>2
    <2> QED
        BY <1>2, <2>2, <2>3
<1>4. Good(n)
    BY <1>3
<1> QED
    BY <1>4 DEF Good, IsIteration

\* What holds at 0 and from each turn to the next holds at all of them.
LEMMA EveryTurn ==
    ASSUME NEW n \in Nat, NEW G, 0 \in G, \A k \in 1 .. n : k - 1 \in G => k \in G
    PROVE  \A k \in 0 .. n : k \in G
<1> DEFINE Bad == {k \in 0 .. n : k \notin G}
<1> SUFFICES ASSUME Bad # {} PROVE FALSE
    OBVIOUS
<1>1. Bad \in SUBSET Nat
    OBVIOUS
<1>2. PICK k \in Bad : \A j \in Bad : k <= j
    BY <1>1, LeastElement
<1>3. k \in 1 .. n /\ k \notin G /\ k - 1 \notin Bad
    BY <1>2
<1> QED
    BY <1>3

\* A growing family of subsets of a set of n elements that stands still once it did so
\* for one step stands still at the n-th.
LEMMA Saturates ==
    ASSUME NEW S, IsFiniteSet(S), NEW f, f[0] # {},
           \A k \in 0 .. Cardinality(S) : f[k] \subseteq S,
           \A k \in 1 .. Cardinality(S) : f[k - 1] \subseteq f[k],
           \A k \in 1 .. Cardinality(S) - 1 : f[k] = f[k - 1] => f[k + 1] = f[k]
    PROVE  Cardinality(S) \in Nat \ {0} /\ f[Cardinality(S)] = f[Cardinality(S) - 1]
<1>1. PICK n \in Nat : n = Cardinality(S)
    BY FS_CardinalityType
<1>2. n # 0
    BY <1>1, FS_EmptySet
<1>3. ASSUME NEW k \in 0 .. n PROVE IsFiniteSet(f[k]) /\ Cardinality(f[k]) \in Nat /\ Cardinality(f[k]) <= n
    BY <1>1, FS_Subset, FS_CardinalityType
<1> SUFFICES ASSUME f[n] # f[n - 1] PROVE FALSE
    BY <1>1, <1>2
<1>4. ASSUME NEW k \in 1 .. n PROVE f[k] # f[k - 1]
    <2> DEFINE Still == {j \in k .. n : f[j] # f[j - 1]}
    <2> SUFFICES ASSUME f[k] = f[k - 1] PROVE FALSE
        OBVIOUS
    <2>1. n \in Still /\ Still \in SUBSET Nat
        BY <1>1
    <2>2. PICK j \in Still : \A i \in Still : j <= i
        BY <2>1, LeastElement
    <2>3. j # k /\ j - 1 \notin Still /\ j \in k .. n
        BY <2>1, <2>2
    <2>4. f[j - 1] = f[j - 2]
        <3>1. j - 1 \in k .. n /\ (j - 1) - 1 = j - 2
            BY <2>3
        <3> QED
            BY <2>3, <3>1
    <2>5. f[j] = f[j - 1]
        <3>1. j - 1 \in 1 .. n - 1 /\ (j - 1) - 1 = j - 2 /\ (j - 1) + 1 = j
            BY <2>3
        <3> QED
            BY <1>1, <2>4, <3>1
    <2> QED
        BY <2>2, <2>5
<1>5. ASSUME NEW k \in 1 .. n PROVE Cardinality(f[k - 1]) < Cardinality(f[k])
    <2>1. k - 1 \in 0 .. n /\ k \in 0 .. n /\ f[k - 1] \subseteq f[k]
        BY <1>1
    <2>2. f[k] # f[k - 1]
        BY <1>4
    <2>3. PICK A, B : A = f[k - 1] /\ B = f[k]
        OBVIOUS
    <2>4. /\ A \subseteq B /\ A # B /\ IsFiniteSet(B)
          /\ Cardinality(A) \in Nat /\ Cardinality(B) \in Nat
        BY <1>3, <2>1, <2>2, <2>3
    <2>5. Cardinality(A) <= Cardinality(B) /\ Cardinality(A) # Cardinality(B)
        BY <2>4, FS_Subset
    <2> QED
        BY <2>3, <2>4, <2>5
<1> DEFINE Few == {k \in 0 .. n : Cardinality(f[k]) <= k}
<1>6. Cardinality(f[0]) >= 1
    BY <1>3, FS_EmptySet
<1>7. n \in Few /\ Few \in SUBSET Nat
    BY <1>3
<1>8. PICK k \in Few : \A j \in Few : k <= j
    <2> HIDE DEF Few
    <2> QED
        BY <1>7, LeastElement
<1>9. k \in 1 .. n /\ k - 1 \notin Few /\ k - 1 \in 0 .. n
    <2>1. k \in 0 .. n /\ Cardinality(f[k]) <= k
        OBVIOUS
    <2>2. k # 0
        <3>1. Cardinality(f[0]) \in Nat
            BY <1>3
        <3> QED
            BY <1>6, <2>1, <3>1
    <2>3. k - 1 \in Nat /\ ~ (k <= k - 1)
        BY <2>1, <2>2
    <2> HIDE DEF Few
    <2> QED
        BY <1>8, <2>1, <2>2, <2>3
<1> QED
    BY <1>3, <1>5, <1>8, <1>9

-----------------------------------------------------------------------------
(* Causal chains *)

Parents(j) == ToSet(event[j].parents)

EventsOK ==
    /\ IsFiniteSet(DOMAIN event) /\ DOMAIN event \subseteq Ids
    /\ \A j \in DOMAIN event : event[j].parents \in Seq(Ids)

\* Mentions by events that are not in the chain yet: calls that may still be added.
Unmade(c) == {m \in Mentions : m[1] \notin ToSet(c)}

Calls(t) == Len(t.todo) + Cardinality(Unmade(t.chain))

Traversals == [todo : Seq(Ids), chain : Seq(DOMAIN event)]

ChainOK(t, i) ==
    /\ IsInjective(t.chain)
    /\ t.chain = <<>> => t.todo = <<i>>
    /\ t.chain # <<>> => t.chain[1] = i
    /\ \A m \in 2 .. Len(t.chain) : \E n \in 1 .. m - 1 : t.chain[m] \in Parents(t.chain[n])
    /\ t.chain # <<>> => \A j \in ToSet(t.todo) : \E n \in 1 .. Len(t.chain) : j \in Parents(t.chain[n])
    /\ \A j \in ToSet(t.chain) : Parents(j) \cap DOMAIN event \subseteq ToSet(t.chain) \cup ToSet(t.todo)

\* What the sequence operators do to the set of members.
LEMMA Members ==
    ASSUME NEW S, NEW s \in Seq(S)
    PROVE  /\ ToSet(s) = {s[k] : k \in 1 .. Len(s)} /\ ToSet(s) \subseteq S
           /\ \A x : Contains(s, x) <=> x \in ToSet(s)
           /\ \A x \in S : ToSet(Append(s, x)) = ToSet(s) \cup {x}
           /\ \A t \in Seq(S) : ToSet(s \o t) = ToSet(s) \cup ToSet(t)
           /\ s # <<>> => /\ Head(s) \in S /\ Tail(s) \in Seq(S) /\ Len(Tail(s)) = Len(s) - 1
                          /\ ToSet(s) = {Head(s)} \cup ToSet(Tail(s))
<1>1. ToSet(s) = {s[k] : k \in 1 .. Len(s)} /\ ToSet(s) \subseteq S
    BY DEF ToSet
<1>2. \A x : Contains(s, x) <=> x \in ToSet(s)
    BY <1>1 DEF Contains
<1>3. ASSUME NEW x \in S PROVE ToSet(Append(s, x)) = ToSet(s) \cup {x}
    <2>1. DOMAIN Append(s, x) = 1 .. Len(s) + 1 /\ Append(s, x)[Len(s) + 1] = x
          /\ \A k \in 1 .. Len(s) : Append(s, x)[k] = s[k]
        OBVIOUS
    <2> QED
        BY <1>1, <2>1 DEF ToSet
<1>4. ASSUME NEW t \in Seq(S) PROVE ToSet(s \o t) = ToSet(s) \cup ToSet(t)
    <2>1. /\ DOMAIN (s \o t) = 1 .. Len(s) + Len(t)
          /\ \A k \in 1 .. Len(s) : (s \o t)[k] = s[k]
          /\ \A k \in 1 .. Len(t) : Len(s) + k \in 1 .. Len(s) + Len(t) /\ (s \o t)[Len(s) + k] = t[k]
          /\ \A k \in 1 .. Len(s) + Len(t) : k \in 1 .. Len(s) \/ k - Len(s) \in 1 .. Len(t)
        OBVIOUS
    <2>2. ToSet(t) = {t[k] : k \in 1 .. Len(t)}
        BY DEF ToSet
    <2>3. ASSUME NEW k \in 1 .. Len(s) + Len(t) PROVE (s \o t)[k] \in ToSet(s) \cup ToSet(t)
        <3>1. CASE k \in 1 .. Len(s)
            BY <1>1, <2>1, <3>1
        <3>2. CASE k - Len(s) \in 1 .. Len(t)
            <4>1. PICK l \in 1 .. Len(t) : l = k - Len(s)
                BY <3>2
            <4>2. Len(s) + l = k
                BY <4>1
            <4> QED
                BY <2>1, <2>2, <4>2
        <3> QED
            BY <2>1, <3>1, <3>2
    <2>4. ToSet(s \o t) = {(s \o t)[k] : k \in 1 .. Len(s) + Len(t)}
        BY <2>1 DEF ToSet
    <2>5. ASSUME NEW k \in 1 .. Len(s) PROVE s[k] \in ToSet(s \o t)
        <3>1. k \in 1 .. Len(s) + Len(t)
            OBVIOUS
        <3> QED
            BY <2>1, <2>4, <3>1
    <2>6. ASSUME NEW k \in 1 .. Len(t) PROVE t[k] \in ToSet(s \o t)
        BY <2>1, <2>4
    <2> QED
        BY <1>1, <2>2, <2>3, <2>4, <2>5, <2>6
<1>5. ASSUME s # <<>>
      PROVE  /\ Head(s) \in S /\ Tail(s) \in Seq(S) /\ Len(Tail(s)) = Len(s) - 1
             /\ ToSet(s) = {Head(s)} \cup ToSet(Tail(s))
    <2>1. /\ Head(s) = s[1] /\ Tail(s) \in Seq(S) /\ Len(Tail(s)) = Len(s) - 1 /\ Len(s) \in Nat \ {0}
          /\ \A k \in 1 .. Len(s) - 1 : Tail(s)[k] = s[k + 1]
        BY <1>5, HeadTailProperties
    <2>2. ToSet(Tail(s)) = {Tail(s)[k] : k \in 1 .. Len(s) - 1}
        <3>1. PICK t, n : t = Tail(s) /\ n = Len(s) - 1
            OBVIOUS
        <3>2. t \in Seq(S) /\ Len(t) = n
            BY <2>1, <3>1
        <3>3. DOMAIN t = 1 .. n
            BY <3>2
        <3>4. ToSet(t) = {t[k] : k \in 1 .. n}
            BY ONLY <3>3 DEF ToSet
        <3> QED
            BY <3>1, <3>4
    <2>3. ASSUME NEW k \in 1 .. Len(s) PROVE k = 1 \/ s[k] \in ToSet(Tail(s))
        <3>1. CASE k # 1
            <4>1. k - 1 \in 1 .. Len(s) - 1 /\ (k - 1) + 1 = k
                BY <2>1, <3>1
            <4> QED
                BY <2>1, <2>2, <4>1
        <3> QED
            BY <3>1
    <2>4. ASSUME NEW k \in 1 .. Len(s) - 1 PROVE Tail(s)[k] \in ToSet(s)
        <3>1. k + 1 \in 1 .. Len(s)
            BY <2>1
        <3> QED
            BY <1>1, <2>1, <3>1
    <2>5. s[1] \in ToSet(s) /\ Head(s) \in S
        BY <1>1, <2>1
    <2> QED
        BY <1>1, <2>1, <2>2, <2>3, <2>4, <2>5
<1> QED
    BY <1>1, <1>2, <1>3, <1>4, <1>5

LEMMA MentionsOf ==
    ASSUME EventsOK
    PROVE  /\ IsFiniteSet(Mentions)
           /\ \A m : m \in Mentions <=> \E j \in DOMAIN event : m \in {j} \X (1 .. Len(event[j].parents))
<1>1. \A j \in DOMAIN event : DOMAIN event[j].parents = 1 .. Len(event[j].parents) /\ Len(event[j].parents) \in Nat
    BY DEF EventsOK
<1> DEFINE T == {{j} \X DOMAIN event[j].parents : j \in DOMAIN event}
           f == [j \in DOMAIN event |-> {j} \X DOMAIN event[j].parents]
<1>2. f \in Surjection(DOMAIN event, T)
    BY DEF Surjection
<1>3. IsFiniteSet(T)
    <2> HIDE DEF f, T
    <2> QED
        BY <1>2, FS_Surjection DEF EventsOK
<1>4. ASSUME NEW j \in DOMAIN event PROVE IsFiniteSet({j} \X DOMAIN event[j].parents)
    <2>1. PICK n \in Nat : n = Len(event[j].parents)
        BY <1>1
    <2>2. IsFiniteSet({j})
        BY FS_Singleton
    <2>3. IsFiniteSet(1 .. n)
        <3>1. 1 \in Int /\ n \in Int
            OBVIOUS
        <3> QED
            BY ONLY <3>1, FS_Interval
    <2>4. IsFiniteSet({j} \X (1 .. n))
        BY <2>2, <2>3, FS_Product
    <2> QED
        BY <1>1, <2>1, <2>4
<1>5. \A X \in T : IsFiniteSet(X)
    BY <1>4
<1>6. IsFiniteSet(UNION T)
    <2> HIDE DEF T
    <2> QED
        BY <1>3, <1>5, FS_UNION
<1> QED
    BY <1>1, <1>6 DEF Mentions

\* An event that joins the chain makes the calls for its parents.
LEMMA UnmadeDrops ==
    ASSUME EventsOK, NEW c \in Seq(DOMAIN event), NEW j \in DOMAIN event, j \notin ToSet(c)
    PROVE  /\ Cardinality(Unmade(c)) \in Nat /\ Cardinality(Unmade(Append(c, j))) \in Nat
           /\ Cardinality(Unmade(Append(c, j))) = Cardinality(Unmade(c)) - Len(event[j].parents)
<1>1. PICK n \in Nat : n = Len(event[j].parents)
    BY DEF EventsOK
<1> DEFINE own == {j} \X (1 .. n)
<1>2. IsFiniteSet(own) /\ Cardinality(own) = n
    <2>1. IsFiniteSet({j}) /\ Cardinality({j}) = 1
        BY FS_Singleton
    <2>2. IsFiniteSet(1 .. n) /\ Cardinality(1 .. n) = n
        <3>1. 1 \in Int /\ n \in Int
            OBVIOUS
        <3>2. IsFiniteSet(1 .. n) /\ Cardinality(1 .. n) = IF 1 > n THEN 0 ELSE n - 1 + 1
            BY ONLY <3>1, FS_Interval
        <3> QED
            BY <3>2
    <2>3. IsFiniteSet(own) /\ Cardinality(own) = Cardinality({j}) * Cardinality(1 .. n)
        BY <2>1, <2>2, FS_Product
    <2> QED
        BY <2>1, <2>2, <2>3
<1>3. \A m \in own : m \in Mentions /\ m[1] = j
    BY <1>1, MentionsOf
<1>4. \A m \in Mentions : m[1] = j => m \in own
    BY <1>1, MentionsOf
<1>5. ToSet(Append(c, j)) = ToSet(c) \cup {j}
    BY Members
<1> HIDE DEF own
<1>6. Unmade(Append(c, j)) = Unmade(c) \ own
    BY <1>3, <1>4, <1>5 DEF Unmade
<1>7. own \subseteq Unmade(c)
    BY <1>3 DEF Unmade
<1>8. IsFiniteSet(Unmade(c))
    BY MentionsOf, FS_Subset DEF Unmade
<1>9. /\ IsFiniteSet(Unmade(c) \ own)
      /\ Cardinality(Unmade(c) \ own) = Cardinality(Unmade(c)) - Cardinality(Unmade(c) \cap own)
    BY <1>8, FS_Difference
<1>10. Unmade(c) \cap own = own
    BY <1>7
<1>11. Cardinality(Unmade(c)) \in Nat /\ Cardinality(Unmade(c) \ own) \in Nat
    BY <1>8, <1>9, FS_CardinalityType
<1> QED
    BY <1>1, <1>2, <1>6, <1>9, <1>10, <1>11

LEMMA EmptySequence == \A S : <<>> \in Seq(S) /\ Len(<<>>) = 0 /\ ToSet(<<>>) = {}
    BY DEF ToSet

LEMMA CallsCounted ==
    ASSUME EventsOK, NEW t \in Traversals
    PROVE  Len(t.todo) \in Nat /\ Cardinality(Unmade(t.chain)) \in Nat /\ Calls(t) \in Nat
<1>1. IsFiniteSet(Unmade(t.chain))
    BY MentionsOf, FS_Subset DEF Unmade
<1>2. Cardinality(Unmade(t.chain)) \in Nat
    BY <1>1, FS_CardinalityType
<1>3. Len(t.todo) \in Nat
    BY DEF Traversals
<1> QED
    BY <1>2, <1>3 DEF Calls

\* The call for an event that is not in the chain yet.
LEMMA VisitKeeps ==
    ASSUME EventsOK, NEW i \in DOMAIN event, NEW t \in Traversals, ChainOK(t, i), t.todo # <<>>,
           NEW j \in DOMAIN event, j = Head(t.todo), j \notin ToSet(t.chain),
           NEW u, u = [todo |-> event[j].parents \o Tail(t.todo), chain |-> Append(t.chain, j)]
    PROVE  u \in Traversals /\ ChainOK(u, i) /\ Calls(u) = Calls(t) - 1
<1>1. PICK todo, chain : todo = t.todo /\ chain = t.chain
    OBVIOUS
<1>2. todo \in Seq(Ids) /\ chain \in Seq(DOMAIN event) /\ todo # <<>> /\ j = Head(todo) /\ j \notin ToSet(chain)
    BY <1>1 DEF Traversals
<1>3. PICK ps, rest : ps = event[j].parents /\ rest = Tail(todo)
    OBVIOUS
<1>4. ps \in Seq(Ids) /\ ToSet(ps) = Parents(j)
    BY <1>3 DEF EventsOK, Parents
<1>5. /\ rest \in Seq(Ids) /\ Len(rest) = Len(todo) - 1
      /\ ToSet(todo) = {j} \cup ToSet(rest)
    BY <1>2, <1>3, Members
<1>6. PICK todo2, chain2 : todo2 = ps \o rest /\ chain2 = Append(chain, j)
    OBVIOUS
<1>7. u = [todo |-> todo2, chain |-> chain2] /\ u.todo = todo2 /\ u.chain = chain2
    BY <1>1, <1>3, <1>6
<1>8. PICK K \in Nat : K = Len(chain)
    BY <1>2
<1>9. /\ todo2 \in Seq(Ids) /\ Len(todo2) = Len(ps) + Len(rest)
      /\ ToSet(todo2) = Parents(j) \cup ToSet(rest)
    BY <1>4, <1>5, <1>6, Members
<1>10. /\ chain2 \in Seq(DOMAIN event) /\ Len(chain2) = K + 1 /\ chain2[K + 1] = j
       /\ \A k \in 1 .. K : chain2[k] = chain[k]
       /\ DOMAIN chain2 = 1 .. K + 1 /\ chain2 # <<>>
    BY <1>2, <1>6, <1>8
<1>11. ToSet(chain2) = ToSet(chain) \cup {j} /\ ToSet(chain) = {chain[k] : k \in 1 .. K}
    BY <1>2, <1>6, <1>8, Members
<1>12. DOMAIN chain = 1 .. K /\ (chain = <<>> <=> K = 0)
    BY <1>2, <1>8
<1>13. u \in Traversals
    BY <1>7, <1>9, <1>10 DEF Traversals
<1>14. IsInjective(chain2)
    <2>1. \A a, b \in 1 .. K : chain[a] = chain[b] => a = b
        BY <1>1, <1>12 DEF ChainOK, IsInjective
    <2>2. \A a \in 1 .. K : chain[a] # j
        BY <1>2, <1>11
    <2>3. \A a \in 1 .. K + 1 : a \in 1 .. K \/ a = K + 1
        OBVIOUS
    <2>4. \A a, b \in 1 .. K + 1 : chain2[a] = chain2[b] => a = b
        BY <1>10, <2>1, <2>2, <2>3
    <2> QED
        BY <1>10, <2>4 DEF IsInjective
<1>15. chain2[1] = i
    <2>1. CASE chain = <<>>
        <3>1. todo = <<i>> /\ K = 0
            BY <1>1, <1>12, <2>1 DEF ChainOK
        <3> QED
            BY <1>2, <1>10, <3>1
    <2>2. CASE chain # <<>>
        <3>1. chain[1] = i /\ 1 \in 1 .. K
            BY <1>1, <1>12, <2>2 DEF ChainOK
        <3> QED
            BY <1>10, <3>1
    <2> QED
        BY <2>1, <2>2
<1>16. chain # <<>> => \E n \in 1 .. K : j \in Parents(chain[n])
    BY <1>1, <1>5, <1>8 DEF ChainOK
<1>17. ASSUME NEW m \in 2 .. K + 1 PROVE \E n \in 1 .. m - 1 : chain2[m] \in Parents(chain2[n])
    <2>1. CASE m = K + 1
        <3>1. K # 0
            BY <2>1
        <3>2. PICK n \in 1 .. K : j \in Parents(chain[n])
            BY <1>12, <1>16, <3>1
        <3> QED
            BY <1>10, <2>1, <3>2
    <2>2. CASE m \in 2 .. K
        <3>1. PICK n \in 1 .. m - 1 : chain[m] \in Parents(chain[n])
            BY <1>1, <1>8, <2>2 DEF ChainOK
        <3>2. n \in 1 .. K /\ m \in 1 .. K
            BY <2>2
        <3> QED
            BY <1>10, <3>1, <3>2
    <2> QED
        BY <2>1, <2>2
<1>18. ASSUME NEW x \in ToSet(todo2) PROVE \E n \in 1 .. K + 1 : x \in Parents(chain2[n])
    <2>1. CASE x \in Parents(j)
        BY <1>10, <2>1
    <2>2. CASE x \in ToSet(rest)
        <3>1. chain # <<>>
            <4> SUFFICES ASSUME chain = <<>> PROVE FALSE
                OBVIOUS
            <4>1. todo = <<i>>
                BY <1>1 DEF ChainOK
            <4>2. rest = <<>>
                BY <1>3, <4>1
            <4> QED
                BY <2>2, <4>2, EmptySequence
        <3>2. PICK n \in 1 .. K : x \in Parents(chain[n])
            BY <1>1, <1>5, <1>8, <2>2, <3>1 DEF ChainOK
        <3> QED
            BY <1>10, <3>2
    <2> QED
        BY <1>9, <2>1, <2>2
<1>19. ASSUME NEW x \in ToSet(chain2)
       PROVE  Parents(x) \cap DOMAIN event \subseteq ToSet(chain2) \cup ToSet(todo2)
    <2>1. CASE x \in ToSet(chain)
        <3>1. Parents(x) \cap DOMAIN event \subseteq ToSet(chain) \cup ToSet(todo)
            BY <1>1, <2>1 DEF ChainOK
        <3> QED
            BY <1>5, <1>9, <1>11, <3>1
    <2> QED
        BY <1>9, <1>11, <2>1
<1>20. ChainOK(u, i)
    BY <1>7, <1>10, <1>14, <1>15, <1>17, <1>18, <1>19 DEF ChainOK
<1>21. Calls(u) = Calls(t) - 1
    <2>1. /\ Cardinality(Unmade(chain)) \in Nat /\ Cardinality(Unmade(chain2)) \in Nat
          /\ Cardinality(Unmade(chain2)) = Cardinality(Unmade(chain)) - Len(ps)
        BY <1>2, <1>3, <1>6, UnmadeDrops
    <2>2. PICK a, b \in Nat : a = Cardinality(Unmade(chain)) /\ b = Cardinality(Unmade(chain2))
        BY <2>1
    <2>3. PICK n, l \in Nat : n = Len(ps) /\ l = Len(todo)
        BY <1>2, <1>4
    <2>4. Calls(u) = Len(todo2) + b /\ Calls(t) = l + a
        BY <1>1, <1>7, <2>2, <2>3 DEF Calls
    <2>5. Len(todo2) = n + (l - 1) /\ b = a - n
        BY <1>5, <1>9, <2>1, <2>2, <2>3
    <2> QED
        BY <2>4, <2>5
<1> QED
    BY <1>13, <1>20, <1>21

\* The call for an id that is unknown or in the chain already.
LEMMA SkipKeeps ==
    ASSUME EventsOK, NEW i \in DOMAIN event, NEW t \in Traversals, ChainOK(t, i), t.todo # <<>>,
           Head(t.todo) \notin DOMAIN event \/ Head(t.todo) \in ToSet(t.chain),
           NEW u, u = [t EXCEPT !.todo = Tail(@)]
    PROVE  u \in Traversals /\ ChainOK(u, i) /\ Calls(u) = Calls(t) - 1
<1>1. PICK todo, chain : todo = t.todo /\ chain = t.chain
    OBVIOUS
<1>2. todo \in Seq(Ids) /\ chain \in Seq(DOMAIN event) /\ todo # <<>>
    BY <1>1 DEF Traversals
<1>3. PICK j, rest : j = Head(todo) /\ rest = Tail(todo)
    OBVIOUS
<1>4. /\ rest \in Seq(Ids) /\ Len(rest) = Len(todo) - 1
      /\ ToSet(todo) = {j} \cup ToSet(rest)
    BY <1>2, <1>3, Members
<1>5. u.todo = rest /\ u.chain = chain /\ u \in Traversals
    BY <1>1, <1>3, <1>4 DEF Traversals
<1>6. chain # <<>>
    <2> SUFFICES ASSUME chain = <<>> PROVE FALSE
        OBVIOUS
    <2>1. todo = <<i>>
        BY <1>1 DEF ChainOK
    <2>2. j = i
        BY <1>3, <2>1
    <2> QED
        BY <1>1, <1>3, <2>2, EmptySequence
<1>7. ChainOK(u, i)
    <2>1. j \notin DOMAIN event \/ j \in ToSet(chain)
        BY <1>1, <1>3
    <2>2. /\ IsInjective(chain) /\ chain[1] = i
          /\ \A m \in 2 .. Len(chain) : \E n \in 1 .. m - 1 : chain[m] \in Parents(chain[n])
          /\ \A x \in ToSet(todo) : \E n \in 1 .. Len(chain) : x \in Parents(chain[n])
          /\ \A x \in ToSet(chain) : Parents(x) \cap DOMAIN event \subseteq ToSet(chain) \cup ToSet(todo)
        BY <1>1, <1>6 DEF ChainOK
    <2>3. \A x \in ToSet(chain) : Parents(x) \cap DOMAIN event \subseteq ToSet(chain) \cup ToSet(rest)
        BY <1>4, <2>1, <2>2
    <2> QED
        BY <1>4, <1>5, <1>6, <2>2, <2>3 DEF ChainOK
<1>8. Calls(u) = Calls(t) - 1
    <2>1. PICK a \in Nat : a = Cardinality(Unmade(chain))
        BY <1>1, CallsCounted
    <2>2. PICK l \in Nat : l = Len(todo)
        BY <1>2
    <2>3. Calls(u) = (l - 1) + a /\ Calls(t) = l + a
        BY <1>1, <1>4, <1>5, <2>1, <2>2 DEF Calls
    <2> QED
        BY <2>3
<1> QED
    BY <1>5, <1>7, <1>8

LEMMA TraverseKeeps ==
    ASSUME EventsOK, NEW i \in DOMAIN event, NEW t \in Traversals, ChainOK(t, i), t.todo # <<>>
    PROVE  Traverse(t) \in Traversals /\ ChainOK(Traverse(t), i) /\ Calls(Traverse(t)) = Calls(t) - 1
<1>1. t.chain \in Seq(DOMAIN event)
    BY DEF Traversals
<1>2. PICK j, u : j = Head(t.todo) /\ u = Traverse(t)
    OBVIOUS
<1>3. Unvisited(j, t.chain) <=> j \notin ToSet(t.chain)
    BY <1>1, Members DEF Unvisited
<1>4. CASE j \in DOMAIN event /\ j \notin ToSet(t.chain)
    <2>1. u = [todo |-> event[j].parents \o Tail(t.todo), chain |-> Append(t.chain, j)]
        BY <1>2, <1>3, <1>4 DEF Traverse
    <2> QED
        BY <1>2, <1>4, <2>1, VisitKeeps
<1>5. CASE ~ (j \in DOMAIN event /\ j \notin ToSet(t.chain))
    <2>1. u = [t EXCEPT !.todo = Tail(@)]
        BY <1>2, <1>3, <1>5 DEF Traverse
    <2>2. Head(t.todo) \notin DOMAIN event \/ Head(t.todo) \in ToSet(t.chain)
        BY <1>2, <1>5
    <2> QED
        BY <1>2, <2>1, <2>2, SkipKeeps
<1> QED
    BY <1>4, <1>5

LEMMA StartOK ==
    ASSUME EventsOK, NEW i \in DOMAIN event, NEW b, b = [todo |-> <<i>>, chain |-> <<>>]
    PROVE  b \in Traversals /\ ChainOK(b, i) /\ Calls(b) = MaxCalls
<1>1. b.todo = <<i>> /\ b.chain = <<>> /\ ToSet(b.chain) = {} /\ Len(b.chain) = 0 /\ Len(b.todo) = 1
    BY EmptySequence
<1>2. b \in Traversals
    BY <1>1, EmptySequence DEF Traversals, EventsOK
<1>3. ChainOK(b, i)
    BY <1>1 DEF ChainOK, IsInjective
<1>4. Unmade(b.chain) = Mentions
    BY <1>1 DEF Unmade
<1> QED
    BY <1>1, <1>2, <1>3, <1>4 DEF Calls, MaxCalls

\* What the call k makes of the calls before it.
ChainTurn(g, k, i) ==
    IF k = 0 THEN [todo |-> <<i>>, chain |-> <<>>]
    ELSE IF g[k - 1].todo = <<>> THEN g[k - 1] ELSE Traverse(g[k - 1])

\* No call is left after as many calls as the model gives it.
LEMMA ChainEnds ==
    ASSUME EventsOK, NEW i \in DOMAIN event
    PROVE  \E t \in Traversals : ChainOK(t, i) /\ t.todo = <<>> /\ CausalityChain(i) = Reverse(t.chain)
<1> DEFINE S == {t \in Traversals : ChainOK(t, i)}
           step == [t \in S |-> IF t.todo = <<>> THEN t ELSE Traverse(t)]
           Turn(g) == [k \in 0 .. MaxCalls |-> ChainTurn(g, k, i)]
           F == CHOOSE g : g = Turn(g)
<1>1. PICK n \in Nat : n = MaxCalls
    <2>1. Cardinality(Mentions) \in Nat
        BY MentionsOf, FS_CardinalityType
    <2> QED
        BY <2>1 DEF MaxCalls
<1>2. PICK b : b = [todo |-> <<i>>, chain |-> <<>>]
    OBVIOUS
<1>3. b \in S
    BY <1>2, StartOK
<1>4. step \in [S -> S]
    <2>1. ASSUME NEW t \in S, t.todo # <<>> PROVE Traverse(t) \in S
        BY <2>1, TraverseKeeps
    <2> HIDE DEF S
    <2> QED
        BY <2>1
<1>5. \A t \in S : step[t] = IF t.todo = <<>> THEN t ELSE Traverse(t)
    OBVIOUS
<1>6. \A t \in S : t \in Traversals /\ ChainOK(t, i)
    OBVIOUS
<1> HIDE DEF step, S
<1>7. PICK f : IsIteration(f, S, b, step, n)
    BY <1>3, <1>4, IterationExists
<1>8. f = Turn(f)
    <2>1. f = [k \in 0 .. n |-> f[k]] /\ f[0] = b
        BY <1>7 DEF IsIteration
    <2>2. ASSUME NEW k \in 1 .. n
          PROVE  f[k] = IF f[k - 1].todo = <<>> THEN f[k - 1] ELSE Traverse(f[k - 1])
        <3>1. k - 1 \in 0 .. n
            OBVIOUS
        <3>2. f[k - 1] \in S /\ f[k] = step[f[k - 1]]
            BY <1>7, <3>1 DEF IsIteration
        <3> QED
            BY <1>5, <3>2
    <2>3. ASSUME NEW k \in 0 .. n PROVE f[k] = ChainTurn(f, k, i)
        <3>1. CASE k = 0
            BY <1>2, <2>1, <3>1 DEF ChainTurn
        <3>2. CASE k # 0
            <4>1. k \in 1 .. n
                BY <3>2
            <4> QED
                BY <2>2, <3>2, <4>1 DEF ChainTurn
        <3> QED
            BY <3>1, <3>2
    <2> QED
        BY <1>1, <2>1, <2>3
<1>9. CausalityChain(i) = Reverse(F[n].chain)
    BY <1>1 DEF CausalityChain, ChainTurn
<1>10. F = Turn(F)
    <2> HIDE DEF Turn
    <2> QED
        BY <1>8
<1> HIDE DEF F
<1>11. F[0] = b
    <2>1. 0 \in 0 .. MaxCalls
        BY <1>1
    <2>2. F[0] = ChainTurn(F, 0, i)
        BY <1>10, <2>1
    <2> QED
        BY <1>2, <2>2 DEF ChainTurn
<1>12. ASSUME NEW k \in 1 .. n
       PROVE  F[k] = IF F[k - 1].todo = <<>> THEN F[k - 1] ELSE Traverse(F[k - 1])
    <2>1. k \in 0 .. MaxCalls /\ k # 0
        BY <1>1
    <2>2. F[k] = ChainTurn(F, k, i)
        BY <1>10, <2>1
    <2> QED
        BY <2>1, <2>2 DEF ChainTurn
<1> HIDE DEF Turn
<1>13. \A k \in 0 .. n : F[k] \in S
    <2>1. ASSUME NEW k \in 1 .. n, F[k - 1] \in S PROVE F[k] \in S
        <3>1. F[k] = step[F[k - 1]]
            BY <1>5, <1>12, <2>1
        <3> QED
            BY <1>4, <2>1, <3>1
    <2>2. F[0] \in S
        BY <1>3, <1>11
    <2> QED
        BY <2>1, <2>2, LoopKeeps
<1> DEFINE G == {k \in 0 .. n : F[k].todo = <<>> \/ Calls(F[k]) <= n - k}
<1>14. 0 \in G
    <2>1. Calls(b) = n
        BY <1>1, <1>2, StartOK
    <2> QED
        BY <1>11, <2>1
<1>15. ASSUME NEW k \in 1 .. n, k - 1 \in G PROVE k \in G
    <2>1. PICK y, z : y = F[k - 1] /\ z = F[k]
        OBVIOUS
    <2>2. y \in Traversals /\ z \in Traversals /\ ChainOK(y, i)
        <3>1. k - 1 \in 0 .. n /\ k \in 0 .. n
            OBVIOUS
        <3> QED
            BY <1>6, <1>13, <2>1, <3>1
    <2>3. CASE y.todo = <<>>
        BY <1>12, <2>1, <2>3
    <2>4. CASE y.todo # <<>>
        <3>1. z = Traverse(y) /\ Calls(y) <= n - (k - 1)
            BY <1>12, <1>15, <2>1, <2>4
        <3>2. Calls(z) = Calls(y) - 1
            BY <2>2, <2>4, <3>1, TraverseKeeps
        <3>3. PICK p, q \in Nat : p = Calls(y) /\ q = Calls(z)
            BY <2>2, CallsCounted
        <3>4. q <= n - k
            BY <3>1, <3>2, <3>3
        <3> QED
            BY <2>1, <3>3, <3>4
    <2> QED
        BY <2>3, <2>4
<1>16. n \in G
    <2> HIDE DEF G
    <2>1. \A k \in 0 .. n : k \in G
        BY <1>14, <1>15, EveryTurn
    <2> QED
        BY <2>1
<1>17. F[n] \in Traversals /\ ChainOK(F[n], i)
    BY <1>6, <1>13
<1>18. F[n].todo = <<>>
    <2> SUFFICES ASSUME F[n].todo # <<>> PROVE FALSE
        OBVIOUS
    <2>1. Calls(F[n]) <= 0
        BY <1>16
    <2>2. PICK p, q \in Nat : p = Len(F[n].todo) /\ q = Cardinality(Unmade(F[n].chain))
        BY <1>17, CallsCounted
    <2>3. Len(F[n].todo) = 0
        BY <2>1, <2>2 DEF Calls
    <2>4. F[n].todo \in Seq(Ids)
        BY <1>17 DEF Traversals
    <2> QED
        BY <2>3, <2>4
<1> QED
    BY <1>9, <1>17, <1>18

\* The logged parents of the events of a set.
Above(X) == DOMAIN event \cap UNION {ToSet(event[j].parents) : j \in X}

\* Ancestors(i) is the smallest set with i that has the logged parents of its events.
LEMMA AncestorsAre ==
    ASSUME EventsOK, NEW i \in DOMAIN event
    PROVE  /\ i \in Ancestors(i) /\ Above(Ancestors(i)) \subseteq Ancestors(i)
           /\ \A V : i \in V /\ Above(V) \subseteq V => Ancestors(i) \subseteq V
<1> DEFINE D == DOMAIN event
           step == [X \in SUBSET D |-> X \cup Above(X)]
           Turn(g) == [k \in 0 .. Cardinality(D) |-> IF k = 0 THEN {i} ELSE g[k - 1] \cup Above(g[k - 1])]
           F == CHOOSE g : g = Turn(g)
<1>1. PICK n \in Nat : n = Cardinality(D) /\ IsFiniteSet(D)
    BY FS_CardinalityType DEF EventsOK
<1>2. step \in [SUBSET D -> SUBSET D] /\ {i} \in SUBSET D
    BY DEF Above
<1>3. \A X \in SUBSET D : step[X] = X \cup Above(X)
    OBVIOUS
<1>4. Ancestors(i) = F[Cardinality(D)]
    BY DEF Ancestors, Above
<1> HIDE DEF step
<1>5. PICK f : IsIteration(f, SUBSET D, {i}, step, n)
    BY <1>2, IterationExists
<1>6. f = Turn(f)
    <2>1. f = [k \in 0 .. n |-> f[k]] /\ f[0] = {i}
        BY <1>5 DEF IsIteration
    <2>2. ASSUME NEW k \in 1 .. n PROVE f[k] = f[k - 1] \cup Above(f[k - 1])
        <3>1. k - 1 \in 0 .. n
            OBVIOUS
        <3>2. f[k - 1] \in SUBSET D /\ f[k] = step[f[k - 1]]
            BY <1>5, <3>1 DEF IsIteration
        <3> QED
            BY <1>3, <3>2
    <2>3. ASSUME NEW k \in 0 .. n PROVE k = 0 \/ k \in 1 .. n
        OBVIOUS
    <2>4. \A k \in 0 .. n : f[k] = IF k = 0 THEN {i} ELSE f[k - 1] \cup Above(f[k - 1])
        BY <2>1, <2>2, <2>3
    <2> QED
        BY <1>1, <2>1, <2>4
<1>7. F = Turn(F)
    <2> HIDE DEF Turn
    <2> QED
        BY <1>6
<1> HIDE DEF F
<1>8. F[0] = {i} /\ \A k \in 1 .. n : F[k] = F[k - 1] \cup Above(F[k - 1])
    <2>1. \A k \in 0 .. n : F[k] = IF k = 0 THEN {i} ELSE F[k - 1] \cup Above(F[k - 1])
        BY <1>1, <1>7
    <2>2. 0 \in 0 .. n /\ \A k \in 1 .. n : k \in 0 .. n /\ k # 0
        OBVIOUS
    <2> HIDE DEF Turn
    <2> QED
        BY <2>1, <2>2
<1> HIDE DEF Turn
<1>9. \A k \in 0 .. n : F[k] \in SUBSET D
    <2>1. PICK S : S = SUBSET D
        OBVIOUS
    <2>2. F[0] \in S /\ \A k \in 1 .. n : F[k - 1] \in S => F[k] \in S
        BY <1>2, <1>8, <2>1 DEF Above
    <2>3. \A k \in 0 .. n : F[k] \in S
        BY <2>2, LoopKeeps
    <2> QED
        BY <2>1, <2>3
<1>10. Cardinality(D) \in Nat \ {0} /\ F[Cardinality(D)] = F[Cardinality(D) - 1]
    <2>1. F[0] # {}
        BY <1>8
    <2>2. \A k \in 1 .. n : F[k - 1] \subseteq F[k]
        BY <1>8
    <2>3. ASSUME NEW k \in 1 .. n - 1, F[k] = F[k - 1] PROVE F[k + 1] = F[k]
        <3>1. k + 1 \in 1 .. n /\ (k + 1) - 1 = k /\ k \in 1 .. n
            OBVIOUS
        <3>2. F[k + 1] = F[k] \cup Above(F[k]) /\ F[k] = F[k - 1] \cup Above(F[k - 1])
            BY <1>8, <3>1
        <3> QED
            BY <2>3, <3>2
    <2> HIDE DEF D
    <2>4. \A k \in 0 .. Cardinality(D) : F[k] \subseteq D
        BY <1>1, <1>9
    <2>5. \A k \in 1 .. Cardinality(D) : F[k - 1] \subseteq F[k]
        BY <1>1, <2>2
    <2>6. \A k \in 1 .. Cardinality(D) - 1 : F[k] = F[k - 1] => F[k + 1] = F[k]
        BY <1>1, <2>3
    <2>7. IsFiniteSet(D)
        BY <1>1
    <2> QED
        BY ONLY <2>1, <2>4, <2>5, <2>6, <2>7, Saturates
<1>11. PICK A : A = Ancestors(i) /\ A = F[n] /\ A = F[n - 1] /\ n \in 1 .. n
    BY <1>1, <1>4, <1>10
<1>12. Above(A) \subseteq A
    BY <1>8, <1>11
<1>13. ASSUME NEW k \in 0 .. n PROVE i \in F[k]
    <2>1. PICK S : S = {X \in SUBSET D : i \in X}
        OBVIOUS
    <2>2. F[0] \in S /\ \A l \in 1 .. n : F[l - 1] \in S => F[l] \in S
        BY <1>2, <1>8, <2>1 DEF Above
    <2>3. \A l \in 0 .. n : F[l] \in S
        BY <2>2, LoopKeeps
    <2> QED
        BY <2>1, <2>3
<1>14. ASSUME NEW V, i \in V, Above(V) \subseteq V PROVE A \subseteq V
    <2>1. PICK S : S = SUBSET (V \cap D)
        OBVIOUS
    <2>2. F[0] \in S
        BY <1>2, <1>8, <1>14, <2>1
    <2>3. ASSUME NEW l \in 1 .. n, F[l - 1] \in S PROVE F[l] \in S
        <3>1. F[l] = F[l - 1] \cup Above(F[l - 1]) /\ F[l - 1] \subseteq V \cap D
            BY <1>8, <2>1, <2>3
        <3>2. Above(F[l - 1]) \subseteq Above(V) \cap D
            BY <3>1 DEF Above
        <3> QED
            BY <1>14, <2>1, <3>1, <3>2
    <2>4. \A l \in 0 .. n : F[l] \in S
        BY <2>2, <2>3, LoopKeeps
    <2> QED
        BY <1>11, <2>1, <2>4
<1> QED
    BY <1>11, <1>12, <1>13, <1>14

\* The search from i visits its ancestors, and an event after one that names it.
LEMMA ChainShown ==
    ASSUME EventsOK
    PROVE  ChainIsAncestry
<1> SUFFICES ASSUME NEW i \in DOMAIN event
             PROVE  LET chain == CausalityChain(i) IN
                    /\ ToSet(chain) = Ancestors(i) /\ IsInjective(chain)
                    /\ Last(chain) = i
                    /\ \A m \in 1 .. Len(chain) - 1 :
                          \E n \in m + 1 .. Len(chain) : Contains(event[chain[n]].parents, chain[m])
    BY DEF ChainIsAncestry
<1>1. PICK t \in Traversals : ChainOK(t, i) /\ t.todo = <<>> /\ CausalityChain(i) = Reverse(t.chain)
    BY ChainEnds
<1>2. PICK c, r : c = t.chain /\ r = Reverse(c)
    OBVIOUS
<1>3. c \in Seq(DOMAIN event) /\ c # <<>>
    <2>1. t.todo # <<i>>
        BY <1>1
    <2> QED
        BY <1>1, <1>2, <2>1 DEF Traversals, ChainOK
<1>4. PICK K \in Nat \ {0} : K = Len(c)
    BY <1>3
<1>5. /\ DOMAIN c = 1 .. K /\ ToSet(c) = {c[k] : k \in 1 .. K} /\ ToSet(c) \subseteq DOMAIN event
      /\ \A k \in 1 .. K : c[k] \in DOMAIN event
    BY <1>3, <1>4, Members
<1>6. /\ \A a, b \in 1 .. K : c[a] = c[b] => a = b
      /\ c[1] = i
      /\ \A m \in 2 .. K : \E n \in 1 .. m - 1 : c[m] \in Parents(c[n])
      /\ \A j \in ToSet(c) : Parents(j) \cap DOMAIN event \subseteq ToSet(c)
    BY <1>1, <1>2, <1>3, <1>4, <1>5, EmptySequence DEF ChainOK, IsInjective
<1>7. /\ r = [k \in 1 .. K |-> c[(K - k) + 1]] /\ DOMAIN r = 1 .. K
      /\ \A k \in 1 .. K : r[k] = c[(K - k) + 1]
    BY <1>2, <1>4 DEF Reverse
<1>8. Len(r) = K
    <2>1. r \in [1 .. K -> DOMAIN event]
        <3>1. \A k \in 1 .. K : (K - k) + 1 \in 1 .. K
            OBVIOUS
        <3> QED
            BY <1>5, <1>7, <3>1
    <2>2. r \in Seq(DOMAIN event)
        BY <2>1
    <2> QED
        BY <1>7, <2>2
<1>9. ToSet(r) = ToSet(c)
    <2>1. ToSet(r) = {r[k] : k \in 1 .. K}
        BY <1>7 DEF ToSet
    <2>2. \A k \in 1 .. K : (K - k) + 1 \in 1 .. K /\ (K - ((K - k) + 1)) + 1 = k
        OBVIOUS
    <2>3. \A k \in 1 .. K : r[k] \in ToSet(c) /\ c[k] \in ToSet(r)
        BY <1>5, <1>7, <2>1, <2>2
    <2> QED
        BY <1>5, <2>1, <2>3
<1>10. IsInjective(r)
    <2>1. ASSUME NEW a \in 1 .. K, NEW b \in 1 .. K, r[a] = r[b] PROVE a = b
        <3>1. (K - a) + 1 \in 1 .. K /\ (K - b) + 1 \in 1 .. K
            OBVIOUS
        <3>2. (K - a) + 1 = (K - b) + 1
            BY <1>6, <1>7, <2>1, <3>1
        <3> QED
            BY <3>2
    <2> QED
        BY <1>7, <2>1 DEF IsInjective
<1>11. Last(r) = i
    <2>1. K \in 1 .. K /\ (K - K) + 1 = 1
        OBVIOUS
    <2> QED
        BY <1>6, <1>7, <1>8, <2>1 DEF Last
<1>12. ASSUME NEW m \in 1 .. K - 1
       PROVE  \E n \in m + 1 .. K : Contains(event[r[n]].parents, r[m])
    <2>1. PICK p \in 1 .. K : p = (K - m) + 1 /\ p \in 2 .. K
        OBVIOUS
    <2>2. PICK q \in 1 .. p - 1 : c[p] \in Parents(c[q])
        BY <1>6, <2>1
    <2>3. PICK n \in m + 1 .. K : n = (K - q) + 1 /\ (K - n) + 1 = q /\ n \in 1 .. K /\ q \in 1 .. K
        BY <2>1
    <2>4. r[m] = c[p] /\ r[n] = c[q]
        BY <1>7, <2>1, <2>3
    <2>5. event[c[q]].parents \in Seq(Ids)
        BY <1>5, <2>3 DEF EventsOK
    <2>6. Contains(event[c[q]].parents, c[p])
        BY <2>2, <2>5, Members DEF Parents
    <2> QED
        BY <2>3, <2>4, <2>6
<1>13. PICK A : A = Ancestors(i)
    OBVIOUS
<1>14. ToSet(c) \subseteq A
    <2> DEFINE Bad == {k \in 1 .. K : c[k] \notin A}
    <2> SUFFICES ASSUME Bad # {} PROVE FALSE
        BY <1>5
    <2>1. Bad \in SUBSET Nat
        OBVIOUS
    <2>2. PICK m \in Bad : \A k \in Bad : m <= k
        <3> HIDE DEF Bad
        <3> QED
            BY <2>1, LeastElement
    <2>3. m \in 1 .. K /\ c[m] \notin A /\ m # 1
        BY <1>6, <1>13, AncestorsAre
    <2>4. PICK n \in 1 .. m - 1 : c[m] \in Parents(c[n])
        BY <1>6, <2>3
    <2>5. n \in 1 .. K /\ c[n] \in A
        BY <2>2, <2>3
    <2>6. c[m] \in Above(A)
        BY <1>5, <2>3, <2>4, <2>5 DEF Above, Parents
    <2> QED
        BY <1>13, <2>3, <2>6, AncestorsAre
<1>15. A \subseteq ToSet(c)
    <2>1. i \in ToSet(c)
        BY <1>5, <1>6
    <2>2. Above(ToSet(c)) \subseteq ToSet(c)
        BY <1>6 DEF Above, Parents
    <2> QED
        BY <1>13, <2>1, <2>2, AncestorsAre
<1> QED
    BY <1>1, <1>2, <1>8, <1>9, <1>10, <1>11, <1>12, <1>13, <1>14, <1>15

\* Every submission logs one event at most.
LEMMA FiniteEvents == Spec => []IsFiniteSet(DOMAIN event)
<1>1. Init => IsFiniteSet(DOMAIN event)
    <2>1. Init => DOMAIN event = {}
        BY DEF Init
    <2> QED
        BY <2>1, FS_EmptySet
<1>2. IsFiniteSet(DOMAIN event) /\ [Next]_vars => IsFiniteSet(DOMAIN event)'
    <2> SUFFICES ASSUME IsFiniteSet(DOMAIN event), [Next]_vars PROVE IsFiniteSet(DOMAIN event')
        OBVIOUS
    <2>1. (\E i : DOMAIN event' = DOMAIN event \cup {i}) \/ event' = event
        <3>1. ASSUME NEW i, NEW r, Submit(i, r) PROVE DOMAIN event' = DOMAIN event \cup {i}
            BY <3>1 DEF Submit
        <3>2. CASE Create
            BY <3>2 DEF Create, CreateLevel
        <3>3. CASE Submission(ParentLists)
            BY <3>1, <3>3 DEF Submission, SubmitEvent
        <3>4. CASE Commit
            BY <3>1, <3>4 DEF Commit, CommitEvent, PropagateToWorld
        <3>5. CASE Synchronize
            BY <3>5 DEF Synchronize, MergeClock
        <3>6. CASE UNCHANGED vars
            BY <3>6 DEF vars
        <3> QED
            BY <3>2, <3>3, <3>4, <3>5, <3>6 DEF Next
    <2> QED
        BY <2>1, FS_AddElement
<1> QED
    BY <1>1, <1>2, PTL DEF Spec

\* get_causality_chain: a depth-first search of the parents, reversed, gives the logged
\* ancestors of an event, each once and before an event that names it, and ends however
\* the parents are chosen.
THEOREM ChainsAreAncestries == MCSpec => []ChainIsAncestry
<1>1. IsFiniteSet(DOMAIN event) /\ LevelsInv => ChainIsAncestry
    BY ChainShown DEF EventsOK, LevelsInv, LevelTypes, LatticeEvent
<1>2. Init => IInv /\ LevelsInv
    BY ConstantsAssumption, InitIInv, LevelsInit
<1>3. IInv /\ LevelsInv /\ [Next]_vars => IInv' /\ LevelsInv'
    BY ConstantsAssumption, NextIInv, LevelsNext DEF IInv
<1>4. Spec => []LevelsInv
    BY <1>2, <1>3, PTL DEF Spec
<1> QED
    BY <1>1, <1>4, FiniteEvents, PartsKept, PTL

=============================================================================
