------------------------------ MODULE MeshProofs ------------------------------
(***************************************************************************)
(* Proofs about DomainMesh and InterDomainChannels, for any ids, links,    *)
(* channels, capacities and depth of nested calls.  The two directions of  *)
(* the hierarchy stay in step because an id is never issued twice (a new   *)
(* domain has no children yet) and a removed domain is taken out of the    *)
(* list of its parent; parents that were removed are what the invariant    *)
(* leaves open.  The lifecycle needs the stack of the calls in progress:   *)
(* each of them accounts for one domain that is initializing.              *)
(*                                                                         *)
(* A channel is in order by what ChannelOK says of it alone; across        *)
(* channels, a queued message was flushed by the object that sent it.  The *)
(* loop of flush_outbound needs induction, which LeastElement provides: a  *)
(* turn that breaks what each turn keeps would have a first one.           *)
(*                                                                         *)
(* The domain tree has no cycle because parents were registered before     *)
(* their children (Ranked).  The search for routes keeps SearchOK, and     *)
(* ends because each turn takes one path from the queue and adds at most   *)
(* one for each edge that leaves a domain not visited before.              *)
(***************************************************************************)
EXTENDS MCMesh, TLAPS, FiniteSetTheorems, SequenceTheorems, WellFoundedInduction

\* What is typed of the registry and of the stack.
Types ==
    /\ issued \subseteq Ids
    /\ DOMAIN domains \subseteq issued
    /\ \A d \in DOMAIN domains : domains[d] \in DomainRegistration
    /\ worldDomainId \in issued \cup {None}
    /\ stack \in Seq(Frame)

\* ChildrenMatchParents, child by child.
ChildrenMatch ==
    \A d \in DOMAIN domains : \A c :
        c \in domains[d].children <=> c \in DOMAIN domains /\ domains[c].parent = d

Hierarchy == ChildrenMatch /\ OneWorld /\ ParentsIssued

IInv == Types /\ Hierarchy /\ InitializingIsUnderWay

-----------------------------------------------------------------------------

LEMMA InitIInv == Init => IInv
    BY DEF Init, IInv, Types, Hierarchy, ChildrenMatch, OneWorld, ParentsIssued,
           InitializingIsUnderWay

\* A state written does not touch the hierarchy.
LEMMA SetStateKeeps ==
    ASSUME Types, Hierarchy, NEW d, NEW s \in States, SetState(d, s),
           issued' = issued, worldDomainId' = worldDomainId
    PROVE  /\ DOMAIN domains' = DOMAIN domains
           /\ \A x \in DOMAIN domains :
                 domains'[x].state = IF x = d THEN s ELSE domains[x].state
           /\ \A x \in DOMAIN domains' : domains'[x] \in DomainRegistration
           /\ Hierarchy'
<1>1. /\ DOMAIN domains' = DOMAIN domains
      /\ \A x \in DOMAIN domains : x # d => domains'[x] = domains[x]
      /\ d \in DOMAIN domains => domains'[d] = [domains[d] EXCEPT !.state = s]
    BY DEF SetState
<1>2. \A x \in DOMAIN domains :
         /\ domains'[x] \in DomainRegistration
         /\ domains'[x].tier = domains[x].tier /\ domains'[x].parent = domains[x].parent
         /\ domains'[x].children = domains[x].children
         /\ domains'[x].state = IF x = d THEN s ELSE domains[x].state
    BY <1>1 DEF Types, DomainRegistration
<1>3. ChildrenMatch'
    BY <1>1, <1>2 DEF Hierarchy, ChildrenMatch
<1>4. OneWorld' /\ ParentsIssued'
    BY <1>1, <1>2 DEF Hierarchy, OneWorld, ParentsIssued
<1> QED
    BY <1>1, <1>2, <1>3, <1>4 DEF Hierarchy

LEMMA RegisterKeeps ==
    ASSUME IInv, NEW d \in Ids, NEW tier \in Tiers, NEW parent \in issued \cup {None},
           RegisterDomain(d, tier, parent)
    PROVE  IInv'
<1> DEFINE r == [tier |-> tier, state |-> "uninitialized", parent |-> parent, children |-> {}]
<1>1. /\ Types /\ ChildrenMatch /\ OneWorld /\ ParentsIssued /\ InitializingIsUnderWay
      /\ d \notin issued /\ d \notin DOMAIN domains /\ d # None /\ parent # d
    BY MeshAssumption DEF IInv, Hierarchy, Types, RegisterDomain
<1>2. /\ DOMAIN domains' = DOMAIN domains \cup {d} /\ domains'[d] = r
      /\ \A x \in DOMAIN domains :
            domains'[x] = IF x = parent THEN [domains[x] EXCEPT !.children = @ \cup {d}]
                          ELSE domains[x]
    BY <1>1 DEF RegisterDomain, WithChild
<1>3. \A x \in DOMAIN domains :
         /\ domains'[x] \in DomainRegistration
         /\ domains'[x].tier = domains[x].tier /\ domains'[x].parent = domains[x].parent
         /\ domains'[x].state = domains[x].state
         /\ domains'[x].children =
               IF x = parent THEN domains[x].children \cup {d} ELSE domains[x].children
    <2> SUFFICES ASSUME NEW x \in DOMAIN domains
                 PROVE  /\ domains'[x] \in DomainRegistration
                        /\ domains'[x].tier = domains[x].tier
                        /\ domains'[x].parent = domains[x].parent
                        /\ domains'[x].state = domains[x].state
                        /\ domains'[x].children =
                              IF x = parent THEN domains[x].children \cup {d}
                              ELSE domains[x].children
        OBVIOUS
    <2>1. domains[x] \in DomainRegistration
        BY <1>1 DEF Types
    <2>2. CASE x = parent
        <3>1. domains'[x] = [domains[x] EXCEPT !.children = @ \cup {d}]
            BY <1>2, <2>2
        <3> QED
            BY <2>1, <2>2, <3>1 DEF DomainRegistration
    <2>3. CASE x # parent
        BY <1>2, <2>1, <2>3
    <2> QED
        BY <2>2, <2>3
<1>4. r \in DomainRegistration
    BY <1>1 DEF Types, DomainRegistration, States
<1>5. Types'
    BY <1>1, <1>2, <1>3, <1>4 DEF Types, RegisterDomain, lifecycle
<1> HIDE DEF r
<1>6. /\ domains'[d].tier = tier /\ domains'[d].parent = parent
       /\ domains'[d].state = "uninitialized" /\ domains'[d].children = {}
       /\ issued' = issued \cup {d} /\ stack' = stack /\ raised' = raised
    BY <1>2 DEF r, RegisterDomain, lifecycle
<1>7. ChildrenMatch'
    <2>1. ASSUME NEW c
          PROVE  ~ (c \in DOMAIN domains' /\ domains'[c].parent = d)
        <3>1. ASSUME NEW x \in DOMAIN domains PROVE domains'[x].parent # d
            BY ZenonT(60), <1>1, <1>3 DEF ParentsIssued
        <3> QED
            BY <1>1, <1>2, <1>6, <3>1
    <2>2. ASSUME NEW x \in DOMAIN domains, NEW c
          PROVE  c \in domains'[x].children <=> c \in DOMAIN domains' /\ domains'[c].parent = x
        <3>1. c \in domains[x].children <=> c \in DOMAIN domains /\ domains[c].parent = x
            BY <1>1 DEF ChildrenMatch
        <3>2. CASE c = d
            BY <1>1, <1>2, <1>3, <1>6, <3>1, <3>2
        <3>3. CASE c # d
            BY ZenonT(60), <1>2, <1>3, <3>1, <3>3
        <3> QED
            BY <3>2, <3>3
    <2> QED
        BY <1>2, <1>6, <2>1, <2>2 DEF ChildrenMatch
<1>8. OneWorld'
    <2>1. worldDomainId' = IF tier = "world" THEN d ELSE worldDomainId
        BY DEF RegisterDomain
    <2>2. tier = "world" => worldDomainId = None
        BY DEF RegisterDomain
    <2>3. \A x \in DOMAIN domains : domains'[x].tier = "world" <=> x = worldDomainId'
        BY <1>1, <1>3, <2>1, <2>2, MeshAssumption DEF OneWorld, Types
    <2>4. domains'[d].tier = "world" <=> d = worldDomainId'
        BY <1>1, <1>6, <2>1 DEF Types
    <2> QED
        BY <1>2, <2>3, <2>4 DEF OneWorld
<1>9. ParentsIssued'
    <2>1. \A x \in DOMAIN domains : domains[x].parent \in issued \cup {None}
        BY <1>1 DEF ParentsIssued
    <2> QED
        BY <1>2, <1>3, <1>6, <2>1 DEF ParentsIssued
<1>10. InitializingIsUnderWay'
    <2>1. \A x \in DOMAIN domains : domains[x].state = "initializing" =>
             x \in raised \/ \E i \in DOMAIN stack : stack[i] = [kind |-> "init", id |-> x]
        BY <1>1 DEF InitializingIsUnderWay
    <2> QED
        BY <1>2, <1>3, <1>6, <2>1 DEF InitializingIsUnderWay
<1> QED
    BY <1>5, <1>7, <1>8, <1>9, <1>10 DEF IInv, Hierarchy

LEMMA UnregisterKeeps == ASSUME IInv, NEW d \in Ids, UnregisterDomain(d) PROVE IInv'
<1>1. /\ Types /\ ChildrenMatch /\ OneWorld /\ ParentsIssued /\ InitializingIsUnderWay
      /\ issued' = issued /\ worldDomainId' = worldDomainId
      /\ stack' = stack /\ raised' = raised
    BY DEF IInv, Hierarchy, UnregisterDomain, lifecycle
<1>2. /\ d \in DOMAIN domains /\ DOMAIN domains' = DOMAIN domains \ {d}
      /\ \A x \in DOMAIN domains \ {d} :
            domains'[x] = IF x = domains[d].parent THEN [domains[x] EXCEPT !.children = @ \ {d}]
                          ELSE domains[x]
    BY DEF UnregisterDomain, WithoutChild
<1> DEFINE p == domains[d].parent
<1> HIDE DEF p
<1>3. \A x \in DOMAIN domains' :
         /\ domains'[x] \in DomainRegistration
         /\ domains'[x].tier = domains[x].tier /\ domains'[x].parent = domains[x].parent
         /\ domains'[x].state = domains[x].state
         /\ domains'[x].children =
               IF x = p THEN domains[x].children \ {d} ELSE domains[x].children
    <2>1. \A x \in DOMAIN domains \ {d} :
             domains'[x] = IF x = p THEN [domains[x] EXCEPT !.children = @ \ {d}] ELSE domains[x]
        BY <1>2 DEF p
    <2>2. \A x \in DOMAIN domains : domains[x] \in DomainRegistration
        BY <1>1 DEF Types
    <2> QED
        BY <1>2, <2>1, <2>2 DEF DomainRegistration
<1>4. Types'
    BY <1>1, <1>2, <1>3 DEF Types
<1>5. ChildrenMatch'
    <2> SUFFICES ASSUME NEW x \in DOMAIN domains', NEW c
                 PROVE  c \in domains'[x].children <=> c \in DOMAIN domains' /\ domains'[c].parent = x
        BY DEF ChildrenMatch
    <2>1. x \in DOMAIN domains
          /\ (c \in domains[x].children <=> c \in DOMAIN domains /\ domains[c].parent = x)
        BY <1>1, <1>2 DEF ChildrenMatch
    <2>2. CASE c = d
        BY <1>2, <1>3, <2>1, <2>2 DEF p
    <2>3. CASE c # d
        BY <1>2, <1>3, <2>1, <2>3
    <2> QED
        BY <2>2, <2>3
<1>6. OneWorld' /\ ParentsIssued' /\ InitializingIsUnderWay'
    BY <1>1, <1>2, <1>3 DEF OneWorld, ParentsIssued, InitializingIsUnderWay
<1> QED
    BY <1>4, <1>5, <1>6 DEF IInv, Hierarchy

LEMMA SuspendKeeps == ASSUME IInv, NEW d \in Ids, UpdateDomainState(d) PROVE IInv'
<1>1. /\ Types /\ Hierarchy /\ InitializingIsUnderWay /\ SetState(d, "suspended")
      /\ issued' = issued /\ worldDomainId' = worldDomainId
      /\ stack' = stack /\ raised' = raised
    BY DEF IInv, UpdateDomainState, lifecycle
<1>2. /\ DOMAIN domains' = DOMAIN domains
      /\ \A x \in DOMAIN domains :
            domains'[x].state = IF x = d THEN "suspended" ELSE domains[x].state
      /\ \A x \in DOMAIN domains' : domains'[x] \in DomainRegistration
      /\ Hierarchy'
    BY <1>1, SetStateKeeps DEF States
<1> QED
    BY <1>1, <1>2 DEF IInv, Types, InitializingIsUnderWay

LEMMA EnterKeeps ==
    ASSUME IInv, NEW kind \in {"init", "shutdown"}, NEW d \in Ids, Enter(kind, d) PROVE IInv'
<1> DEFINE frame == [kind |-> kind, id |-> d]
<1>1. /\ Types /\ Hierarchy /\ InitializingIsUnderWay /\ SetState(d, Started(kind))
      /\ issued' = issued /\ worldDomainId' = worldDomainId /\ raised' = raised
      /\ Started(kind) \in States /\ (Started(kind) = "initializing" => kind = "init")
    BY DEF IInv, Enter, Started, States
<1>2. /\ DOMAIN domains' = DOMAIN domains
      /\ \A x \in DOMAIN domains :
            domains'[x].state = IF x = d THEN Started(kind) ELSE domains[x].state
      /\ \A x \in DOMAIN domains' : domains'[x] \in DomainRegistration
      /\ Hierarchy'
    BY <1>1, SetStateKeeps
<1>3. /\ stack' \in Seq(Frame) /\ DOMAIN stack \subseteq DOMAIN stack'
      /\ Len(stack) + 1 \in DOMAIN stack' /\ stack'[Len(stack) + 1] = frame
      /\ \A i \in DOMAIN stack : stack'[i] = stack[i]
    <2>1. stack' = Append(stack, frame) /\ stack \in Seq(Frame) /\ frame \in Frame
        BY <1>1 DEF Enter, Types, Frame
    <2> HIDE DEF frame
    <2> QED
        BY <2>1
<1>4. Types'
    BY <1>1, <1>2, <1>3 DEF Types
<1>5. InitializingIsUnderWay'
    <2> SUFFICES ASSUME NEW x \in DOMAIN domains, domains'[x].state = "initializing"
                 PROVE  x \in raised \/ \E i \in DOMAIN stack' : stack'[i] = [kind |-> "init", id |-> x]
        BY <1>1, <1>2 DEF InitializingIsUnderWay
    <2>1. CASE x = d
        BY <1>1, <1>2, <1>3, <2>1
    <2>2. CASE x # d
        BY <1>1, <1>2, <1>3, <2>2 DEF InitializingIsUnderWay
    <2> QED
        BY <2>1, <2>2
<1> QED
    BY <1>2, <1>4, <1>5 DEF IInv

\* The calls that are left when the innermost one ends.
LEMMA Ending ==
    ASSUME Types, stack # <<>>
    PROVE  /\ Last(stack) \in Frame /\ Front(stack) \in Seq(Frame)
           /\ \A i \in DOMAIN stack :
                 stack[i] = Last(stack) \/ (i \in DOMAIN Front(stack) /\ Front(stack)[i] = stack[i])
<1>1. stack \in Seq(Frame) /\ Len(stack) \in Nat \ {0} /\ DOMAIN stack = 1 .. Len(stack)
    BY DEF Types
<1>2. Last(stack) = stack[Len(stack)] /\ Front(stack) = SubSeq(stack, 1, Len(stack) - 1)
    BY DEF Last, Front
<1>3. Len(stack) - 1 \in 0 .. Len(stack)
    BY <1>1
<1>4. /\ DOMAIN Front(stack) = 1 .. Len(stack) - 1
      /\ \A i \in 1 .. Len(stack) - 1 : Front(stack)[i] = stack[i]
    BY <1>1, <1>2, <1>3
<1>5. Front(stack) \in Seq(Frame)
    BY <1>1, <1>2, <1>3
<1> QED
    BY <1>1, <1>2, <1>4, <1>5

LEMMA ReturnKeeps == IInv /\ Return => IInv'
<1> SUFFICES ASSUME IInv, Return PROVE IInv'
    OBVIOUS
<1> DEFINE frame == Last(stack)
<1>1. /\ Types /\ Hierarchy /\ InitializingIsUnderWay
      /\ stack # <<>> /\ stack' = Front(stack)
      /\ issued' = issued /\ worldDomainId' = worldDomainId /\ raised' = raised
    BY DEF IInv, Return
<1>2. /\ frame \in Frame /\ Front(stack) \in Seq(Frame)
      /\ \A i \in DOMAIN stack :
            stack[i] = frame \/ (i \in DOMAIN Front(stack) /\ Front(stack)[i] = stack[i])
    BY <1>1, Ending
<1> HIDE DEF frame
<1>3. /\ DOMAIN domains' = DOMAIN domains
      /\ \A x \in DOMAIN domains : domains'[x].state =
            IF frame.kind = "init" /\ x = frame.id THEN "active" ELSE domains[x].state
      /\ \A x \in DOMAIN domains' : domains'[x] \in DomainRegistration
      /\ Hierarchy'
    <2>1. CASE frame.kind = "init"
        <3>1. SetState(frame.id, "active")
            BY <2>1 DEF Return, Finished, frame
        <3> QED
            BY <1>1, <2>1, <3>1, SetStateKeeps DEF States
    <2>2. CASE frame.kind # "init"
        <3>1. domains' = domains
            BY <2>2 DEF Return, frame
        <3> QED
            BY <1>1, <2>2, <3>1
               DEF Types, Hierarchy, ChildrenMatch, OneWorld, ParentsIssued
    <2> QED
        BY <2>1, <2>2
<1>4. Types'
    BY <1>1, <1>2, <1>3 DEF Types
<1>5. InitializingIsUnderWay'
    <2> SUFFICES ASSUME NEW x \in DOMAIN domains, domains'[x].state = "initializing", x \notin raised
                 PROVE  \E i \in DOMAIN stack' : stack'[i] = [kind |-> "init", id |-> x]
        BY <1>1, <1>3 DEF InitializingIsUnderWay
    <2>1. domains[x].state = "initializing" /\ ~ (frame.kind = "init" /\ x = frame.id)
        BY <1>3
    <2>2. PICK i \in DOMAIN stack : stack[i] = [kind |-> "init", id |-> x]
        BY <1>1, <2>1 DEF InitializingIsUnderWay
    <2>3. stack[i] # frame
        BY <2>1, <2>2
    <2> QED
        BY <1>1, <1>2, <2>2, <2>3
<1> QED
    BY <1>3, <1>4, <1>5 DEF IInv

LEMMA RaiseKeeps == IInv /\ CallbackRaises => IInv'
<1> SUFFICES ASSUME IInv, CallbackRaises PROVE IInv'
    OBVIOUS
<1> DEFINE frame == Last(stack)
<1>1. /\ Types /\ Hierarchy /\ InitializingIsUnderWay
      /\ stack # <<>> /\ stack' = Front(stack)
      /\ issued' = issued /\ worldDomainId' = worldDomainId /\ domains' = domains
      /\ raised' = IF frame.kind = "init" THEN raised \cup {frame.id} ELSE raised
    BY DEF IInv, CallbackRaises, registry
<1>2. /\ frame \in Frame /\ Front(stack) \in Seq(Frame)
      /\ \A i \in DOMAIN stack :
            stack[i] = frame \/ (i \in DOMAIN Front(stack) /\ Front(stack)[i] = stack[i])
    BY <1>1, Ending
<1> HIDE DEF frame
<1>3. Types' /\ Hierarchy'
    BY <1>1, <1>2 DEF Types, Hierarchy, ChildrenMatch, OneWorld, ParentsIssued
<1>4. InitializingIsUnderWay'
    <2> SUFFICES ASSUME NEW x \in DOMAIN domains, domains[x].state = "initializing", x \notin raised'
                 PROVE  \E i \in DOMAIN stack' : stack'[i] = [kind |-> "init", id |-> x]
        BY <1>1 DEF InitializingIsUnderWay
    <2>1. PICK i \in DOMAIN stack : stack[i] = [kind |-> "init", id |-> x]
        BY <1>1 DEF InitializingIsUnderWay
    <2>2. stack[i] # frame
        BY <1>1, <2>1
    <2> QED
        BY <1>1, <1>2, <2>1, <2>2
<1> QED
    BY <1>3, <1>4 DEF IInv

LEMMA NextIInv == IInv /\ [Next]_vars => IInv'
<1> SUFFICES ASSUME IInv, [Next]_vars PROVE IInv'
    OBVIOUS
<1>1. ASSUME UNCHANGED <<registry, stack, raised>> PROVE IInv'
    BY <1>1 DEF registry, IInv, Types, Hierarchy, ChildrenMatch, OneWorld, ParentsIssued,
                InitializingIsUnderWay
<1>2. CASE UNCHANGED vars
    BY <1>1, <1>2 DEF vars, registry, lifecycle
<1>3. CASE Registry
    BY <1>3, RegisterKeeps, SuspendKeeps, UnregisterKeeps DEF Registry
<1>4. CASE Mesh
    <2>1. UNCHANGED <<registry, lifecycle>>
        BY <1>4 DEF Mesh, EstablishConnection, Disconnect, MarkEdge, Changed
    <2> QED
        BY <1>1, <2>1 DEF lifecycle
<1>5. CASE Lifecycle
    <2>1. CASE \E kind \in {"init", "shutdown"}, d \in Ids : RegisterHook(kind, d)
        BY <1>1, <2>1 DEF RegisterHook
    <2>2. CASE \E kind \in {"init", "shutdown"}, d \in Ids : Enter(kind, d)
        BY <2>2, EnterKeeps
    <2> QED
        BY <1>5, <2>1, <2>2, ReturnKeeps, RaiseKeeps DEF Lifecycle
<1> QED
    BY <1>2, <1>3, <1>4, <1>5 DEF Next

LEMMA Invariance == Spec => []IInv
    BY InitIInv, NextIInv, PTL DEF Spec

-----------------------------------------------------------------------------

\* register_domain, unregister_domain: the children a registered domain lists are the
\* registered domains that name it as parent, and there is never a second world.
THEOREM HierarchyKept == Spec => [](ChildrenMatchParents /\ OneWorld)
<1>1. IInv => ChildrenMatchParents /\ OneWorld
    BY DEF IInv, Hierarchy, ChildrenMatch, ChildrenMatchParents
<1> QED
    BY <1>1, Invariance, PTL

\* initialize_domain: however hooks and callbacks nest its calls, only a callback that
\* raises leaves a domain initializing.
THEOREM InitializationEnds == Spec => []InitializingIsUnderWay
<1>1. IInv => InitializingIsUnderWay
    BY DEF IInv
<1> QED
    BY <1>1, Invariance, PTL

-----------------------------------------------------------------------------
(* Induction and iteration *)

LEMMA LeastElement ==
    ASSUME NEW T \in SUBSET Nat, T # {}
    PROVE  \E n \in T : \A m \in T : n <= m
<1> DEFINE R == {ss \in Nat \X Nat : ss[1] < ss[2]}
<1>1. R = OpToRel(<, Nat)
    BY DEF OpToRel
<1>2. IsWellFoundedOn(R, Nat)
    BY <1>1, NatLessThanWellFounded
<1>3. PICK n \in T : \A m \in T : ~ (<<m, n>> \in R)
    BY <1>2, WFMin
<1>4. ASSUME NEW m \in T PROVE n <= m
    <2>1. ~ (<<m, n>> \in R) /\ m \in Nat /\ n \in Nat
        BY <1>3
    <2> QED
        BY <2>1
<1> QED
    BY <1>4

\* What is kept by each turn of a loop holds after every number of turns.
LEMMA LoopKeeps ==
    ASSUME NEW S, NEW n \in Nat, NEW f, f[0] \in S,
           \A k \in 1 .. n : f[k - 1] \in S => f[k] \in S
    PROVE  \A k \in 0 .. n : f[k] \in S
<1> DEFINE Bad == {k \in 0 .. n : f[k] \notin S}
<1> SUFFICES ASSUME Bad # {} PROVE FALSE
    OBVIOUS
<1>1. Bad \in SUBSET Nat
    OBVIOUS
<1>2. PICK k \in Bad : \A j \in Bad : k <= j
    BY <1>1, LeastElement
<1>3. k \in 0 .. n /\ f[k] \notin S
    BY <1>2
<1>4. k # 0
    BY <1>3
<1>5. k - 1 \notin Bad
    BY <1>2, <1>3, <1>4
<1>6. f[k - 1] \in S
    BY <1>3, <1>4, <1>5
<1> QED
    BY <1>3, <1>4, <1>6

\* f[k] is what n or fewer turns k of a loop that repeats a step make of x.
IsIteration(f, S, x, step, n) ==
    f \in [0 .. n -> S] /\ f[0] = x /\ \A k \in 1 .. n : f[k] = step[f[k - 1]]

\* A loop that repeats a step has a result after every number of turns.
LEMMA IterationExists ==
    ASSUME NEW S, NEW x \in S, NEW step \in [S -> S], NEW n \in Nat
    PROVE  \E f : IsIteration(f, S, x, step, n)
<1> DEFINE Good(m) == \E f \in [0 .. m -> S] :
                         f[0] = x /\ \A k \in 1 .. m : f[k] = step[f[k - 1]]
           Bad == {m \in Nat : ~ Good(m)}
<1>1. Good(0)
    <2> DEFINE f == [k \in 0 .. 0 |-> x]
    <2>1. f \in [0 .. 0 -> S] /\ f[0] = x
        OBVIOUS
    <2>2. \A k \in 1 .. 0 : f[k] = step[f[k - 1]]
        OBVIOUS
    <2> QED
        BY <2>1, <2>2
<1>2. ASSUME NEW m \in Nat \ {0}, Good(m - 1) PROVE Good(m)
    <2>1. PICK f \in [0 .. m - 1 -> S] :
                  f[0] = x /\ \A k \in 1 .. m - 1 : f[k] = step[f[k - 1]]
        BY <1>2
    <2> DEFINE g == [k \in 0 .. m |-> IF k = m THEN step[f[m - 1]] ELSE f[k]]
    <2>2. g \in [0 .. m -> S]
        OBVIOUS
    <2>3. g[0] = x /\ \A k \in 1 .. m : g[k] = step[g[k - 1]]
        BY <2>1
    <2> HIDE DEF g
    <2> QED
        BY <2>2, <2>3
<1> HIDE DEF Good
<1>3. Bad = {}
    <2> SUFFICES ASSUME Bad # {} PROVE FALSE
        OBVIOUS
    <2>1. PICK m \in Bad : \A j \in Bad : m <= j
        BY LeastElement
    <2>2. m \in Nat \ {0}
        BY <1>1
    <2>3. Good(m - 1)
        BY <2>1, <2>2
    <2> QED
        BY <1>2, <2>2, <2>3
<1>4. Good(n)
    BY <1>3
<1> QED
    BY <1>4 DEF Good, IsIteration

-----------------------------------------------------------------------------
(* One channel *)

LEMMA BetweenCardinality == \A S : Between!Cardinality(S) = Cardinality(S)
    BY DEF Between!Cardinality, Cardinality

AcksOK(x) ==
    /\ x.pendingAcks = {i \in DOMAIN x.history : x.history[i].requiresAck /\ ~ x.history[i].acked}
    /\ x.acksReceived = Cardinality({i \in DOMAIN x.history : x.history[i].acked})

PlacesOK(x) ==
    /\ x.priority \cup Between!Outbound(x) \cup Between!Flushed(x) = DOMAIN x.history
    /\ Cardinality(x.priority) = Len(x.history) - Len(x.outbound) - Len(x.flushed)

\* FlushedInOrder for one channel, of the queue and of what was flushed.
OrderOK(x) ==
    /\ \A i \in x.priority : x.history[i].critical
    /\ \A k \in DOMAIN x.outbound : ~ x.history[x.outbound[k]].critical
    /\ \A j, k \in DOMAIN x.outbound : j < k => x.outbound[j] < x.outbound[k]
    /\ \A j, k \in DOMAIN x.flushed :
          j < k /\ x.history[x.flushed[j]].critical = x.history[x.flushed[k]].critical
             => x.flushed[j] < x.flushed[k]
    /\ \A j \in DOMAIN x.flushed :
          IF x.history[x.flushed[j]].critical
          THEN \A i \in x.priority : x.flushed[j] < i
          ELSE \A k \in DOMAIN x.outbound : x.flushed[j] < x.outbound[k]

\* Only what was flushed is received, and only that is acknowledged.
AckedOK(x) ==
    /\ x.received \subseteq Between!Flushed(x)
    /\ \A i \in DOMAIN x.history : x.history[i].acked => i \in Between!Flushed(x)

ChannelOK(x) ==
    x \in Between!InterDomainChannel /\ AcksOK(x) /\ PlacesOK(x) /\ OrderOK(x) /\ AckedOK(x)

\* What a channel that becomes y does not take back.
Kept(x, y) ==
    /\ Between!Flushed(x) \subseteq Between!Flushed(y)
    /\ y.inbound = x.inbound /\ y.received = x.received

LEMMA ChannelFacts ==
    ASSUME NEW x, ChannelOK(x)
    PROVE  /\ x.outbound \in Seq(Between!Places) /\ x.flushed \in Seq(Between!Places)
           /\ x.history \in Seq(Between!Message) /\ x.priority \subseteq Between!Places
           /\ Len(x.outbound) \in Nat /\ Len(x.flushed) \in Nat /\ Len(x.history) \in Nat
           /\ DOMAIN x.outbound = 1 .. Len(x.outbound)
           /\ DOMAIN x.flushed = 1 .. Len(x.flushed)
           /\ DOMAIN x.history = 1 .. Len(x.history)
           /\ \A k \in DOMAIN x.outbound : x.outbound[k] \in DOMAIN x.history
           /\ \A k \in DOMAIN x.flushed : x.flushed[k] \in DOMAIN x.history
           /\ \A i \in DOMAIN x.history : x.history[i] \in Between!Message
           /\ x.priority \subseteq DOMAIN x.history
           /\ IsFiniteSet(x.priority) /\ Cardinality(x.priority) \in Nat
           /\ IsFiniteSet(DOMAIN x.history)
<1>1. /\ x.outbound \in Seq(Between!Places) /\ x.flushed \in Seq(Between!Places)
      /\ x.history \in Seq(Between!Message) /\ x.priority \subseteq Between!Places
    BY DEF ChannelOK, Between!InterDomainChannel
<1>2. /\ DOMAIN x.outbound = 1 .. Len(x.outbound) /\ Len(x.outbound) \in Nat
      /\ DOMAIN x.flushed = 1 .. Len(x.flushed) /\ Len(x.flushed) \in Nat
      /\ DOMAIN x.history = 1 .. Len(x.history) /\ Len(x.history) \in Nat
      /\ \A i \in DOMAIN x.history : x.history[i] \in Between!Message
    BY <1>1
<1>3. /\ \A k \in DOMAIN x.outbound : x.outbound[k] \in DOMAIN x.history
      /\ \A k \in DOMAIN x.flushed : x.flushed[k] \in DOMAIN x.history
      /\ x.priority \subseteq DOMAIN x.history
    BY DEF ChannelOK, PlacesOK, Between!Outbound, Between!Flushed
<1>4. IsFiniteSet(DOMAIN x.history)
    BY <1>2, FS_Interval
<1> QED
    BY <1>1, <1>2, <1>3, <1>4, FS_Subset, FS_CardinalityType

LEMMA SendKeeps ==
    ASSUME NEW x, ChannelOK(x), NEW critical \in BOOLEAN, NEW requiresAck \in BOOLEAN
    PROVE  /\ ChannelOK(Between!SendMessage(x, critical, requiresAck))
           /\ Kept(x, Between!SendMessage(x, critical, requiresAck))
<1> DEFINE y == Between!SendMessage(x, critical, requiresAck)
           i == Len(x.history) + 1
           m == [critical |-> critical, requiresAck |-> requiresAck, acked |-> FALSE]
<1>1. CASE Between!Refuses(x)
    BY <1>1 DEF Between!SendMessage, Kept
<1>2. CASE ~ Between!Refuses(x)
    <2>1. /\ y.outbound = IF critical THEN x.outbound ELSE Append(x.outbound, i)
          /\ y.priority = IF critical THEN x.priority \cup {i} ELSE x.priority
          /\ y.pendingAcks = IF requiresAck THEN x.pendingAcks \cup {i} ELSE x.pendingAcks
          /\ y.history = Append(x.history, m)
          /\ y.flushed = x.flushed /\ y.inbound = x.inbound /\ y.received = x.received
          /\ y.acksReceived = x.acksReceived
        BY <1>2 DEF Between!SendMessage, ChannelOK, Between!InterDomainChannel
    <2>2. m \in Between!Message /\ i \in Between!Places /\ m.critical = critical
          /\ m.requiresAck = requiresAck /\ ~ m.acked
        BY ChannelFacts DEF Between!Message, Between!Places
    <2>3. y \in Between!InterDomainChannel
        <3>1. /\ x \in Between!InterDomainChannel
              /\ Append(x.outbound, i) \in Seq(Between!Places)
              /\ Append(x.history, m) \in Seq(Between!Message)
              /\ x.priority \cup {i} \subseteq Between!Places
              /\ x.pendingAcks \cup {i} \subseteq Between!Places
            BY <2>2 DEF ChannelOK, Between!InterDomainChannel
        <3> HIDE DEF m, i
        <3>2. y = [x EXCEPT !.outbound = IF critical THEN @ ELSE Append(@, i),
                            !.priority = IF critical THEN @ \cup {i} ELSE @,
                            !.pendingAcks = IF requiresAck THEN @ \cup {i} ELSE @,
                            !.history = Append(@, m)]
            BY <1>2 DEF Between!SendMessage, m, i
        <3> HIDE DEF y
        <3> QED
            BY <3>1, <3>2 DEF Between!InterDomainChannel
    <2> HIDE DEF y, m
    <2>4. /\ y.history \in Seq(Between!Message) /\ Len(y.history) = i
          /\ DOMAIN y.history = DOMAIN x.history \cup {i} /\ i \notin DOMAIN x.history
          /\ y.history[i] = m /\ \A j \in DOMAIN x.history : y.history[j] = x.history[j]
        BY <2>1, <2>2, ChannelFacts
    <2>5. AcksOK(y)
        <3>1. {j \in DOMAIN y.history : y.history[j].acked}
                 = {j \in DOMAIN x.history : x.history[j].acked}
            BY <2>2, <2>4
        <3>2. {j \in DOMAIN y.history : y.history[j].requiresAck /\ ~ y.history[j].acked}
                 = IF requiresAck
                   THEN {j \in DOMAIN x.history :
                            x.history[j].requiresAck /\ ~ x.history[j].acked} \cup {i}
                   ELSE {j \in DOMAIN x.history :
                            x.history[j].requiresAck /\ ~ x.history[j].acked}
            BY <2>2, <2>4
        <3> QED
            BY <2>1, <3>1, <3>2 DEF ChannelOK, AcksOK
    <2>6. /\ Between!Outbound(y) = IF critical THEN Between!Outbound(x)
                                   ELSE Between!Outbound(x) \cup {i}
          /\ Between!Flushed(y) = Between!Flushed(x)
        <3> DEFINE longer == Append(x.outbound, i)
        <3>1. DOMAIN longer = DOMAIN x.outbound \cup {Len(x.outbound) + 1}
              /\ longer[Len(x.outbound) + 1] = i
              /\ \A k \in DOMAIN x.outbound : longer[k] = x.outbound[k]
            BY <2>2, ChannelFacts
        <3>2. {longer[k] : k \in DOMAIN longer} = {x.outbound[k] : k \in DOMAIN x.outbound} \cup {i}
            BY <3>1
        <3> QED
            BY SMTT(30), <2>1, <3>2 DEF Between!Outbound, Between!Flushed
    <2>7. PlacesOK(y)
        <3>1. Cardinality(y.priority) = Len(y.history) - Len(y.outbound) - Len(y.flushed)
            <4>1. i \notin x.priority /\ IsFiniteSet(x.priority)
                BY <2>4, ChannelFacts
            <4>2. Cardinality(x.priority \cup {i}) = Cardinality(x.priority) + 1
                BY <4>1, FS_AddElement
            <4>3. Len(Append(x.outbound, i)) = Len(x.outbound) + 1
                BY <2>2, ChannelFacts
            <4>4. /\ Cardinality(x.priority) \in Nat /\ Len(x.outbound) \in Nat
                  /\ Len(x.history) \in Nat /\ Len(x.flushed) \in Nat
                BY ChannelFacts
            <4>5. Cardinality(x.priority) = Len(x.history) - Len(x.outbound) - Len(x.flushed)
                BY DEF ChannelOK, PlacesOK
            <4>6. Len(y.history) = Len(x.history) + 1 /\ Len(y.flushed) = Len(x.flushed)
                BY <2>1, <2>4
            <4> HIDE DEF i
            <4>7. CASE critical
                <5>1. Cardinality(y.priority) = Cardinality(x.priority) + 1
                      /\ Len(y.outbound) = Len(x.outbound)
                    BY <2>1, <4>2, <4>7
                <5> QED
                    BY <4>4, <4>5, <4>6, <5>1
            <4>8. CASE ~ critical
                <5>1. Cardinality(y.priority) = Cardinality(x.priority)
                      /\ Len(y.outbound) = Len(x.outbound) + 1
                    BY <2>1, <4>3, <4>8
                <5> QED
                    BY <4>4, <4>5, <4>6, <5>1
            <4> QED
                BY <4>7, <4>8
        <3>2. y.priority \cup Between!Outbound(y) \cup Between!Flushed(y)
                = (x.priority \cup Between!Outbound(x) \cup Between!Flushed(x)) \cup {i}
            BY <2>1, <2>6
        <3>3. x.priority \cup Between!Outbound(x) \cup Between!Flushed(x) = DOMAIN x.history
            BY DEF ChannelOK, PlacesOK
        <3> QED
            BY <2>4, <3>1, <3>2, <3>3 DEF PlacesOK
    <2>8. OrderOK(y)
        <3>1. \A j \in DOMAIN x.history : j < i
            BY ChannelFacts
        <3>0. /\ x.priority \subseteq DOMAIN x.history
              /\ \A k \in DOMAIN x.outbound : x.outbound[k] \in DOMAIN x.history
              /\ \A k \in DOMAIN x.flushed : x.flushed[k] \in DOMAIN x.history
            BY ChannelFacts
        <3>2. CASE critical
            <4>1. /\ \A j \in DOMAIN x.flushed : y.history[y.flushed[j]] = x.history[x.flushed[j]]
                  /\ \A j \in DOMAIN x.outbound : y.history[y.outbound[j]] = x.history[x.outbound[j]]
                  /\ \A j \in x.priority : y.history[j] = x.history[j]
                BY <2>1, <2>4, <3>0, <3>2
            <4>2. \A j \in y.priority : y.history[j].critical
                <5>1. \A j \in x.priority : x.history[j].critical
                    BY DEF ChannelOK, OrderOK
                <5>2. y.priority = x.priority \cup {i} /\ y.history[i].critical
                    BY <2>1, <2>2, <2>4, <3>2
                <5> HIDE DEF i
                <5> QED
                    BY <4>1, <5>1, <5>2
            <4>3. \A j \in DOMAIN y.outbound : ~ y.history[y.outbound[j]].critical
                BY <2>1, <3>2, <4>1 DEF ChannelOK, OrderOK
            <4> HIDE DEF i
            <4>4. \A j, k \in DOMAIN y.flushed :
                     j < k /\ y.history[y.flushed[j]].critical = y.history[y.flushed[k]].critical
                        => y.flushed[j] < y.flushed[k]
                BY ZenonT(60), <2>1, <4>1 DEF ChannelOK, OrderOK
            <4>5. \A j \in DOMAIN y.flushed :
                     IF y.history[y.flushed[j]].critical
                     THEN \A h \in y.priority : y.flushed[j] < h
                     ELSE \A k \in DOMAIN y.outbound : y.flushed[j] < y.outbound[k]
                BY <2>1, <3>0, <3>1, <3>2, <4>1 DEF ChannelOK, OrderOK
            <4>6. \A j, k \in DOMAIN y.outbound : j < k => y.outbound[j] < y.outbound[k]
                BY <2>1, <3>2 DEF ChannelOK, OrderOK
            <4> QED
                BY <4>2, <4>3, <4>4, <4>5, <4>6 DEF OrderOK
        <3>3. CASE ~ critical
            <4>2. /\ \A j \in DOMAIN x.flushed : y.history[y.flushed[j]] = x.history[x.flushed[j]]
                  /\ \A j \in x.priority : y.history[j] = x.history[j]
                BY <2>1, <2>4, <3>0, <3>3
            <4>1. DOMAIN y.outbound = DOMAIN x.outbound \cup {Len(x.outbound) + 1}
                  /\ y.outbound[Len(x.outbound) + 1] = i
                  /\ \A k \in DOMAIN x.outbound :
                        y.outbound[k] = x.outbound[k] /\ k < Len(x.outbound) + 1
                BY <2>1, <2>2, <3>3, ChannelFacts
            <4>3. Len(x.outbound) \in Nat /\ DOMAIN x.outbound \subseteq Nat
                BY ChannelFacts
            <4> HIDE DEF i
            <4>4. \A k \in DOMAIN y.outbound : ~ y.history[y.outbound[k]].critical
                BY <2>2, <2>4, <3>0, <3>3, <4>1 DEF ChannelOK, OrderOK
            <4>5. \A j, k \in DOMAIN y.outbound : j < k => y.outbound[j] < y.outbound[k]
                BY <3>0, <3>1, <4>1, <4>3 DEF ChannelOK, OrderOK
            <4>6. \A j \in DOMAIN y.flushed :
                     IF y.history[y.flushed[j]].critical
                     THEN \A h \in y.priority : y.flushed[j] < h
                     ELSE \A k \in DOMAIN y.outbound : y.flushed[j] < y.outbound[k]
                BY <2>1, <3>0, <3>1, <3>3, <4>1, <4>2 DEF ChannelOK, OrderOK
            <4>7. \A j \in y.priority : y.history[j].critical
                BY <2>1, <3>3, <4>2 DEF ChannelOK, OrderOK
            <4>8. \A j, k \in DOMAIN y.flushed :
                     j < k /\ y.history[y.flushed[j]].critical = y.history[y.flushed[k]].critical
                        => y.flushed[j] < y.flushed[k]
                BY <2>1, <4>2 DEF ChannelOK, OrderOK
            <4> QED
                BY <4>4, <4>5, <4>6, <4>7, <4>8 DEF OrderOK
        <3> QED
            BY <3>2, <3>3
    <2>9. AckedOK(y)
        BY <2>1, <2>2, <2>4, <2>6 DEF ChannelOK, AckedOK
    <2> QED
        BY <2>1, <2>3, <2>5, <2>6, <2>7, <2>8, <2>9 DEF ChannelOK, Kept, y
<1> QED
    BY <1>1, <1>2

LEMMA MinIs ==
    ASSUME NEW T \in SUBSET Nat, T # {}
    PROVE  Between!Min(T) \in T /\ \A j \in T : Between!Min(T) <= j
<1>1. \E n \in T : \A j \in T : n <= j
    BY LeastElement
<1> QED
    BY <1>1, Zenon DEF Between!Min

LEMMA PopPriorityKeeps ==
    ASSUME NEW x, ChannelOK(x), x.priority # {}
    PROVE  ChannelOK(Between!Pop(x)) /\ Kept(x, Between!Pop(x))
<1> DEFINE y == Between!Pop(x)
           i == Between!Min(x.priority)
           n == Len(x.flushed) + 1
<1>1. y = [x EXCEPT !.priority = @ \ {i}, !.flushed = Append(@, i)]
    BY DEF Between!Pop, Between!PopPriority
<1>2. i \in x.priority /\ \A j \in x.priority : i <= j
    BY MinIs, ChannelFacts DEF Between!Places
<1> HIDE DEF y, i
<1>3. /\ i \in Between!Places /\ i \in DOMAIN x.history
      /\ x.priority \subseteq DOMAIN x.history /\ DOMAIN x.history \subseteq Nat
      /\ Len(x.flushed) \in Nat
    BY <1>2, ChannelFacts
<1>4. /\ y.outbound = x.outbound /\ y.priority = x.priority \ {i}
      /\ y.pendingAcks = x.pendingAcks /\ y.history = x.history
      /\ y.flushed = Append(x.flushed, i) /\ y.inbound = x.inbound
      /\ y.received = x.received /\ y.acksReceived = x.acksReceived
    BY <1>1 DEF ChannelOK, Between!InterDomainChannel
<1>5. /\ y.flushed \in Seq(Between!Places) /\ Len(y.flushed) = n
      /\ DOMAIN y.flushed = DOMAIN x.flushed \cup {n} /\ y.flushed[n] = i
      /\ \A j \in DOMAIN x.flushed : y.flushed[j] = x.flushed[j] /\ j < n
    BY <1>3, <1>4, ChannelFacts
<1>6. y \in Between!InterDomainChannel
    <2>1. x \in Between!InterDomainChannel /\ Append(x.flushed, i) \in Seq(Between!Places)
        BY <1>4, <1>5 DEF ChannelOK
    <2> QED
        BY <1>1, <2>1 DEF Between!InterDomainChannel
<1>7. Between!Flushed(y) = Between!Flushed(x) \cup {i}
    BY <1>5 DEF Between!Flushed
<1> HIDE DEF n
<1>8. PlacesOK(y)
    <2>1. y.priority \cup Between!Outbound(y) \cup Between!Flushed(y) = DOMAIN y.history
        BY <1>2, <1>4, <1>7 DEF ChannelOK, PlacesOK, Between!Outbound
    <2>2. Cardinality(y.priority) = Cardinality(x.priority) - 1
        BY <1>2, <1>4, ChannelFacts, FS_RemoveElement
    <2>3. Len(y.flushed) = Len(x.flushed) + 1 /\ Len(y.outbound) = Len(x.outbound)
          /\ Len(y.history) = Len(x.history)
        BY <1>4, <1>5 DEF n
    <2>4. /\ Cardinality(x.priority) \in Nat /\ Len(x.outbound) \in Nat
          /\ Len(x.history) \in Nat /\ Len(x.flushed) \in Nat
        BY ChannelFacts
    <2>5. Cardinality(x.priority) = Len(x.history) - Len(x.outbound) - Len(x.flushed)
        BY DEF ChannelOK, PlacesOK
    <2>6. Cardinality(y.priority) = Len(y.history) - Len(y.outbound) - Len(y.flushed)
        BY <2>2, <2>3, <2>4, <2>5
    <2> QED
        BY <2>1, <2>6 DEF PlacesOK
<1>9. OrderOK(y)
    <2>1. x.history[i].critical
        BY <1>2 DEF ChannelOK, OrderOK
    <2>2. \A j \in DOMAIN x.flushed : x.history[x.flushed[j]].critical => x.flushed[j] < i
        BY <1>2 DEF ChannelOK, OrderOK
    <2>3. /\ \A j \in y.priority : y.history[j].critical
          /\ \A k \in DOMAIN y.outbound : ~ y.history[y.outbound[k]].critical
          /\ \A j, k \in DOMAIN y.outbound : j < k => y.outbound[j] < y.outbound[k]
        BY <1>4 DEF ChannelOK, OrderOK
    <2>4. ASSUME NEW j \in DOMAIN y.flushed, NEW k \in DOMAIN y.flushed, j < k,
                 y.history[y.flushed[j]].critical = y.history[y.flushed[k]].critical
          PROVE  y.flushed[j] < y.flushed[k]
        <3>1. j \in DOMAIN x.flushed
            BY <1>3, <1>5, <2>4, ChannelFacts DEF n
        <3>2. CASE k = n
            BY <1>4, <1>5, <2>1, <2>2, <2>4, <3>1, <3>2
        <3>3. CASE k \in DOMAIN x.flushed
            BY <1>4, <1>5, <2>4, <3>1, <3>3 DEF ChannelOK, OrderOK
        <3> QED
            BY <1>5, <3>2, <3>3
    <2>5. ASSUME NEW j \in DOMAIN y.flushed
          PROVE  IF y.history[y.flushed[j]].critical
                 THEN \A h \in y.priority : y.flushed[j] < h
                 ELSE \A k \in DOMAIN y.outbound : y.flushed[j] < y.outbound[k]
        <3>1. CASE j = n
            BY <1>2, <1>3, <1>4, <1>5, <2>1, <3>1
        <3>2. CASE j \in DOMAIN x.flushed
            BY <1>4, <1>5, <3>2 DEF ChannelOK, OrderOK
        <3> QED
            BY <1>5, <3>1, <3>2
    <2> QED
        BY <2>3, <2>4, <2>5 DEF OrderOK
<1>10. AcksOK(y) /\ AckedOK(y)
    BY <1>4, <1>7 DEF ChannelOK, AcksOK, AckedOK
<1> QED
    BY <1>4, <1>6, <1>7, <1>8, <1>9, <1>10 DEF ChannelOK, Kept, y

LEMMA PopOutboundKeeps ==
    ASSUME NEW x, ChannelOK(x), x.priority = {}, x.outbound # <<>>
    PROVE  ChannelOK(Between!Pop(x)) /\ Kept(x, Between!Pop(x))
<1> DEFINE y == Between!Pop(x)
           i == Head(x.outbound)
           n == Len(x.flushed) + 1
<1>1. y = [x EXCEPT !.outbound = Tail(@), !.flushed = Append(@, i)]
    BY DEF Between!Pop
<1>2. /\ i \in Between!Places /\ i = x.outbound[1] /\ 1 \in DOMAIN x.outbound
      /\ Tail(x.outbound) \in Seq(Between!Places)
      /\ Len(Tail(x.outbound)) = Len(x.outbound) - 1
      /\ DOMAIN Tail(x.outbound) = 1 .. Len(x.outbound) - 1
      /\ \A k \in 1 .. Len(x.outbound) - 1 : Tail(x.outbound)[k] = x.outbound[k + 1]
    BY ChannelFacts, HeadTailProperties
<1> HIDE DEF y, i
<1>3. /\ i \in DOMAIN x.history /\ DOMAIN x.history \subseteq Nat
      /\ Len(x.flushed) \in Nat /\ Len(x.outbound) \in Nat
      /\ DOMAIN x.outbound = 1 .. Len(x.outbound)
    BY <1>2, ChannelFacts
<1>4. /\ y.outbound = Tail(x.outbound) /\ y.priority = x.priority
      /\ y.pendingAcks = x.pendingAcks /\ y.history = x.history
      /\ y.flushed = Append(x.flushed, i) /\ y.inbound = x.inbound
      /\ y.received = x.received /\ y.acksReceived = x.acksReceived
    BY <1>1 DEF ChannelOK, Between!InterDomainChannel
<1>5. /\ y.flushed \in Seq(Between!Places) /\ Len(y.flushed) = n
      /\ DOMAIN y.flushed = DOMAIN x.flushed \cup {n} /\ y.flushed[n] = i
      /\ \A j \in DOMAIN x.flushed : y.flushed[j] = x.flushed[j] /\ j < n
    BY SMTT(30), <1>2, <1>3, <1>4, ChannelFacts
<1>6. y \in Between!InterDomainChannel
    <2>1. x \in Between!InterDomainChannel /\ Append(x.flushed, i) \in Seq(Between!Places)
        BY <1>4, <1>5 DEF ChannelOK
    <2> QED
        BY <1>1, <1>2, <2>1 DEF Between!InterDomainChannel
<1>7. Between!Flushed(y) = Between!Flushed(x) \cup {i}
    BY <1>5 DEF Between!Flushed
<1>8. /\ DOMAIN y.outbound = 1 .. Len(x.outbound) - 1
      /\ \A k \in DOMAIN y.outbound : y.outbound[k] = x.outbound[k + 1] /\ k + 1 \in DOMAIN x.outbound
    BY <1>2, <1>3, <1>4
<1>9. Between!Outbound(x) = Between!Outbound(y) \cup {i}
    <2>1. ASSUME NEW k \in DOMAIN x.outbound
          PROVE  x.outbound[k] \in Between!Outbound(y) \cup {i}
        <3>1. k # 1 => k - 1 \in DOMAIN y.outbound /\ y.outbound[k - 1] = x.outbound[k]
            BY <1>3, <1>8
        <3> QED
            BY <1>2, <3>1 DEF Between!Outbound
    <2>2. Between!Outbound(x) \subseteq Between!Outbound(y) \cup {i}
        BY <2>1 DEF Between!Outbound
    <2>3. \A k \in DOMAIN y.outbound : y.outbound[k] \in Between!Outbound(x)
        BY <1>8 DEF Between!Outbound
    <2>4. i \in Between!Outbound(x)
        BY <1>2 DEF Between!Outbound
    <2>5. Between!Outbound(y) \subseteq Between!Outbound(x)
        BY <2>3 DEF Between!Outbound
    <2> QED
        BY <2>2, <2>4, <2>5
<1> HIDE DEF n
<1>10. PlacesOK(y)
    <2>1. y.priority \cup Between!Outbound(y) \cup Between!Flushed(y) = DOMAIN y.history
        BY <1>4, <1>7, <1>9 DEF ChannelOK, PlacesOK
    <2>2. Cardinality(y.priority) = Cardinality(x.priority)
          /\ Len(y.outbound) = Len(x.outbound) - 1
        BY <1>2, <1>4
    <2>3. Len(y.flushed) = Len(x.flushed) + 1 /\ Len(y.history) = Len(x.history)
        BY <1>4, <1>5 DEF n
    <2>4. /\ Cardinality(x.priority) \in Nat /\ Len(x.outbound) \in Nat
          /\ Len(x.history) \in Nat /\ Len(x.flushed) \in Nat
        BY ChannelFacts
    <2>5. Cardinality(x.priority) = Len(x.history) - Len(x.outbound) - Len(x.flushed)
        BY DEF ChannelOK, PlacesOK
    <2>6. Cardinality(y.priority) = Len(y.history) - Len(y.outbound) - Len(y.flushed)
        <3>1. Cardinality(x.priority) = Len(x.history) - Len(y.outbound) - Len(y.flushed)
            <4> DEFINE c == Cardinality(x.priority)
                       h == Len(x.history)
                       o == Len(x.outbound)
                       f == Len(x.flushed)
            <4>1. c \in Nat /\ h \in Nat /\ o \in Nat /\ f \in Nat /\ c = h - o - f
                BY <2>4, <2>5
            <4>2. Len(y.outbound) = o - 1 /\ Len(y.flushed) = f + 1
                BY <2>2, <2>3
            <4> HIDE DEF c, h, o, f
            <4>3. c = h - (o - 1) - (f + 1)
                BY <4>1
            <4>4. c = h - Len(y.outbound) - Len(y.flushed)
                BY <4>2, <4>3
            <4> QED
                BY <4>4 DEF c, h
        <3> QED
            BY <2>2, <2>3, <3>1
    <2> QED
        BY <2>1, <2>6 DEF PlacesOK
<1>11. OrderOK(y)
    <2>1. ~ x.history[i].critical /\ \A k \in DOMAIN y.outbound : i < y.outbound[k]
        BY <1>2, <1>3, <1>8 DEF ChannelOK, OrderOK
    <2>2. \A j \in DOMAIN x.flushed : ~ x.history[x.flushed[j]].critical => x.flushed[j] < i
        BY <1>2 DEF ChannelOK, OrderOK
    <2>3. /\ \A j \in y.priority : y.history[j].critical
          /\ \A k \in DOMAIN y.outbound : ~ y.history[y.outbound[k]].critical
          /\ \A j, k \in DOMAIN y.outbound : j < k => y.outbound[j] < y.outbound[k]
        BY <1>3, <1>4, <1>8 DEF ChannelOK, OrderOK
    <2>4. ASSUME NEW j \in DOMAIN y.flushed, NEW k \in DOMAIN y.flushed, j < k,
                 y.history[y.flushed[j]].critical = y.history[y.flushed[k]].critical
          PROVE  y.flushed[j] < y.flushed[k]
        <3>1. j \in DOMAIN x.flushed
            BY <1>3, <1>5, <2>4, ChannelFacts DEF n
        <3>2. CASE k = n
            BY <1>4, <1>5, <2>1, <2>2, <2>4, <3>1, <3>2
        <3>3. CASE k \in DOMAIN x.flushed
            BY <1>4, <1>5, <2>4, <3>1, <3>3 DEF ChannelOK, OrderOK
        <3> QED
            BY <1>5, <3>2, <3>3
    <2>5. ASSUME NEW j \in DOMAIN y.flushed
          PROVE  IF y.history[y.flushed[j]].critical
                 THEN \A h \in y.priority : y.flushed[j] < h
                 ELSE \A k \in DOMAIN y.outbound : y.flushed[j] < y.outbound[k]
        <3>1. CASE j = n
            BY <1>4, <1>5, <2>1, <3>1
        <3>2. CASE j \in DOMAIN x.flushed
            BY <1>4, <1>5, <1>8, <3>2 DEF ChannelOK, OrderOK
        <3> QED
            BY <1>5, <3>1, <3>2
    <2> QED
        BY <2>3, <2>4, <2>5 DEF OrderOK
<1>12. AcksOK(y) /\ AckedOK(y)
    BY <1>4, <1>7 DEF ChannelOK, AcksOK, AckedOK
<1> QED
    BY <1>4, <1>6, <1>7, <1>10, <1>11, <1>12 DEF ChannelOK, Kept, y

LEMMA PopKeeps ==
    ASSUME NEW x, ChannelOK(x)
    PROVE  ChannelOK(Between!Pop(x)) /\ Kept(x, Between!Pop(x))
<1>1. CASE x.priority = {} /\ x.outbound = <<>>
    BY <1>1 DEF Between!Pop, Kept
<1> QED
    BY <1>1, PopPriorityKeeps, PopOutboundKeeps

\* flush_outbound: its turns, at most Capacity of them.
LEMMA FlushKeeps ==
    ASSUME NEW x, ChannelOK(x)
    PROVE  ChannelOK(Between!FlushOutbound(x)) /\ Kept(x, Between!FlushOutbound(x))
<1> DEFINE S == {y \in Between!InterDomainChannel : ChannelOK(y) /\ Kept(x, y)}
           step == [y \in S |-> Between!Pop(y)]
           Turn(g) == [k \in 0 .. Capacity |-> IF k = 0 THEN x ELSE Between!Pop(g[k - 1])]
           f == CHOOSE g : g = Turn(g)
<1>1. Capacity \in Nat
    BY ChannelAssumption DEF Between!ConstantsOK
<1>2. x \in S
    BY DEF Kept, ChannelOK
<1>3. \A y \in S : Between!Pop(y) \in S
    BY PopKeeps DEF Kept, ChannelOK
<1>4. step \in [S -> S]
    BY <1>3
<1>5. Between!FlushOutbound(x) = f[Capacity]
    BY DEF Between!FlushOutbound
<1> HIDE DEF S
<1> HIDE DEF step
<1>6. PICK h : IsIteration(h, S, x, step, Capacity)
    BY <1>1, <1>2, <1>4, IterationExists
<1>7. h = Turn(h)
    <2>1. \A k \in 1 .. Capacity : h[k - 1] \in S /\ h[k] = Between!Pop(h[k - 1])
        <3> SUFFICES ASSUME NEW k \in 1 .. Capacity
                     PROVE  h[k - 1] \in S /\ h[k] = Between!Pop(h[k - 1])
            OBVIOUS
        <3>1. k - 1 \in 0 .. Capacity
            BY <1>1
        <3> QED
            BY <1>6, <3>1 DEF step, IsIteration
    <2>2. Turn(h) = [k \in 0 .. Capacity |-> h[k]]
        BY <1>1, <1>6, <2>1 DEF IsIteration
    <2>3. h = [k \in 0 .. Capacity |-> h[k]]
        BY <1>6 DEF IsIteration
    <2> QED
        BY <2>2, <2>3
<1> HIDE DEF Turn
<1>8. f = Turn(f)
    BY <1>7
<1> HIDE DEF f
<1>9. f[0] = x /\ \A k \in 1 .. Capacity : f[k] = Between!Pop(f[k - 1])
    BY <1>1, <1>8 DEF Turn
<1>10. \A k \in 0 .. Capacity : f[k] \in S
    BY <1>1, <1>2, <1>3, <1>9, LoopKeeps
<1> QED
    BY <1>1, <1>5, <1>10 DEF S

LEMMA AcknowledgeKeeps ==
    ASSUME NEW x, ChannelOK(x), NEW i \in Between!Flushed(x)
    PROVE  /\ ChannelOK(Between!AcknowledgeMessage(x, i))
           /\ Kept(x, Between!AcknowledgeMessage(x, i))
<1> DEFINE y == Between!AcknowledgeMessage(x, i)
           acked(z) == {j \in DOMAIN z.history : z.history[j].acked}
<1>1. CASE i \notin x.pendingAcks
    BY <1>1 DEF Between!AcknowledgeMessage, Kept
<1>2. CASE i \in x.pendingAcks
    <2>1. /\ i \in DOMAIN x.history /\ ~ x.history[i].acked /\ x.history \in Seq(Between!Message)
          /\ \A j \in DOMAIN x.history : x.history[j] \in Between!Message
          /\ IsFiniteSet(DOMAIN x.history)
        BY <1>2, ChannelFacts DEF ChannelOK, AcksOK
    <2>2. y = [x EXCEPT !.history[i].acked = TRUE, !.acksReceived = @ + 1,
                        !.pendingAcks = @ \ {i}]
        BY <1>2 DEF Between!AcknowledgeMessage
    <2> DEFINE m == [x.history[i] EXCEPT !.acked = TRUE]
    <2>3. m \in Between!Message /\ m.acked /\ m.critical = x.history[i].critical
          /\ m.requiresAck = x.history[i].requiresAck
        BY <2>1 DEF Between!Message
    <2> HIDE DEF y
    <2>4. /\ y.outbound = x.outbound /\ y.priority = x.priority /\ y.flushed = x.flushed
          /\ y.inbound = x.inbound /\ y.received = x.received
          /\ y.pendingAcks = x.pendingAcks \ {i} /\ y.acksReceived = x.acksReceived + 1
          /\ y.history = [x.history EXCEPT ![i] = m]
        BY <2>2 DEF ChannelOK, Between!InterDomainChannel
    <2>5. y = [x EXCEPT !.history = [x.history EXCEPT ![i] = m], !.acksReceived = @ + 1,
                        !.pendingAcks = @ \ {i}]
        BY <2>2 DEF ChannelOK, Between!InterDomainChannel
    <2> HIDE DEF m
    <2>6. /\ y.history \in Seq(Between!Message) /\ DOMAIN y.history = DOMAIN x.history
          /\ Len(y.history) = Len(x.history) /\ y.history[i] = m
          /\ \A j \in DOMAIN x.history : j # i => y.history[j] = x.history[j]
        BY <2>1, <2>3, <2>4
    <2>7. y \in Between!InterDomainChannel
        <3> DEFINE h == [x.history EXCEPT ![i] = m]
        <3>1. x \in Between!InterDomainChannel /\ h \in Seq(Between!Message)
            BY <2>4, <2>6 DEF ChannelOK
        <3>2. x.acksReceived + 1 \in Nat /\ x.pendingAcks \ {i} \subseteq Between!Places
            BY <3>1 DEF Between!InterDomainChannel
        <3> HIDE DEF h
        <3>3. y = [x EXCEPT !.history = h, !.acksReceived = x.acksReceived + 1,
                            !.pendingAcks = x.pendingAcks \ {i}]
            BY <2>5 DEF h
        <3> QED
            BY <3>1, <3>2, <3>3 DEF Between!InterDomainChannel
    <2>8. \A j \in DOMAIN x.history : y.history[j].critical = x.history[j].critical
        BY <2>3, <2>6
    <2>9. AcksOK(y)
        <3>1. acked(y) = acked(x) \cup {i} /\ i \notin acked(x)
            BY <2>1, <2>3, <2>6
        <3>2. IsFiniteSet(acked(x))
            BY <2>1, FS_Subset
        <3>3. Cardinality(acked(y)) = Cardinality(acked(x)) + 1
            BY <3>1, <3>2, FS_AddElement
        <3>4. y.pendingAcks = {j \in DOMAIN y.history : y.history[j].requiresAck /\ ~ y.history[j].acked}
            <4>1. x.pendingAcks
                    = {j \in DOMAIN x.history : x.history[j].requiresAck /\ ~ x.history[j].acked}
                BY DEF ChannelOK, AcksOK
            <4>2. \A j \in DOMAIN x.history :
                     y.history[j].requiresAck /\ ~ y.history[j].acked
                        <=> x.history[j].requiresAck /\ ~ x.history[j].acked /\ j # i
                BY <2>3, <2>6
            <4> QED
                BY <2>4, <2>6, <4>1, <4>2
        <3>5. x.acksReceived = Cardinality(acked(x))
            BY DEF ChannelOK, AcksOK
        <3> QED
            BY <2>4, <3>3, <3>4, <3>5 DEF AcksOK
    <2>10. PlacesOK(y)
        <3>1. /\ x.priority \cup Between!Outbound(x) \cup Between!Flushed(x) = DOMAIN x.history
              /\ Cardinality(x.priority) = Len(x.history) - Len(x.outbound) - Len(x.flushed)
            BY DEF ChannelOK, PlacesOK
        <3>2. Between!Outbound(y) = Between!Outbound(x) /\ Between!Flushed(y) = Between!Flushed(x)
            BY <2>4 DEF Between!Outbound, Between!Flushed
        <3>3. y.priority \cup Between!Outbound(y) \cup Between!Flushed(y) = DOMAIN y.history
            BY <2>4, <2>6, <3>1, <3>2
        <3>4. Cardinality(y.priority) = Len(y.history) - Len(y.outbound) - Len(y.flushed)
            BY <2>4, <2>6, <3>1
        <3> QED
            BY <3>3, <3>4 DEF PlacesOK
    <2>11. OrderOK(y)
        <3>1. /\ \A j \in DOMAIN x.outbound :
                    y.history[x.outbound[j]].critical = x.history[x.outbound[j]].critical
              /\ \A j \in DOMAIN x.flushed :
                    y.history[x.flushed[j]].critical = x.history[x.flushed[j]].critical
              /\ \A j \in x.priority : y.history[j].critical = x.history[j].critical
            BY <2>8, ChannelFacts
        <3> QED
            BY <2>4, <3>1 DEF ChannelOK, OrderOK
    <2>12. AckedOK(y)
        BY <2>4, <2>6 DEF ChannelOK, AckedOK, Between!Flushed
    <2> QED
        BY <2>4, <2>7, <2>9, <2>10, <2>11, <2>12 DEF ChannelOK, Kept, Between!Flushed, y
<1> QED
    BY <1>1, <1>2

\* What the invariant of a channel does not read.
LEMMA AlikeKeeps ==
    ASSUME NEW x, ChannelOK(x), NEW y \in Between!InterDomainChannel,
           y.received \subseteq Between!Flushed(x),
           y.outbound = x.outbound, y.priority = x.priority, y.history = x.history,
           y.pendingAcks = x.pendingAcks, y.acksReceived = x.acksReceived, y.flushed = x.flushed
    PROVE  ChannelOK(y) /\ Between!Flushed(y) = Between!Flushed(x)
<1>1. Between!Outbound(y) = Between!Outbound(x) /\ Between!Flushed(y) = Between!Flushed(x)
    BY DEF Between!Outbound, Between!Flushed
<1>2. AcksOK(y)
    BY DEF ChannelOK, AcksOK
<1>3. PlacesOK(y)
    BY <1>1 DEF ChannelOK, PlacesOK
<1>4. OrderOK(y)
    BY DEF ChannelOK, OrderOK
<1>5. AckedOK(y)
    BY <1>1 DEF ChannelOK, AckedOK
<1> QED
    BY <1>1, <1>2, <1>3, <1>4, <1>5 DEF ChannelOK

LEMMA InjectKeeps ==
    ASSUME NEW x, ChannelOK(x), NEW m \in Channels \X Between!Places
    PROVE  LET y == Between!InjectInbound(x, m) IN
           /\ ChannelOK(y) /\ Between!Flushed(y) = Between!Flushed(x)
           /\ \A k \in DOMAIN y.inbound :
                 y.inbound[k] = m \/ \E j \in DOMAIN x.inbound : y.inbound[k] = x.inbound[j]
<1> DEFINE y == Between!InjectInbound(x, m)
<1>1. CASE Len(x.inbound) >= Capacity
    BY <1>1 DEF Between!InjectInbound
<1>2. CASE ~ Len(x.inbound) >= Capacity
    <2>1. y = [x EXCEPT !.inbound = Append(@, m)]
        BY <1>2 DEF Between!InjectInbound
    <2>2. x.inbound \in Seq(Channels \X Between!Places) /\ x \in Between!InterDomainChannel
        BY DEF ChannelOK, Between!InterDomainChannel
    <2> DEFINE longer == Append(x.inbound, m)
    <2>3. /\ longer \in Seq(Channels \X Between!Places)
          /\ DOMAIN longer = DOMAIN x.inbound \cup {Len(x.inbound) + 1}
          /\ longer[Len(x.inbound) + 1] = m
          /\ \A k \in DOMAIN x.inbound : longer[k] = x.inbound[k]
        BY <2>2
    <2> HIDE DEF longer
    <2>4. y = [x EXCEPT !.inbound = longer]
        BY <2>1 DEF longer
    <2> HIDE DEF y
    <2>5. y \in Between!InterDomainChannel
        BY <2>2, <2>3, <2>4 DEF Between!InterDomainChannel
    <2>6. /\ y.received = x.received /\ y.outbound = x.outbound /\ y.priority = x.priority
          /\ y.history = x.history /\ y.pendingAcks = x.pendingAcks
          /\ y.acksReceived = x.acksReceived /\ y.flushed = x.flushed /\ y.inbound = longer
        BY <2>2, <2>4 DEF Between!InterDomainChannel
    <2>7. ChannelOK(y) /\ Between!Flushed(y) = Between!Flushed(x)
        BY <2>5, <2>6, AlikeKeeps DEF ChannelOK, AckedOK
    <2> QED
        BY <2>3, <2>6, <2>7 DEF y
<1> QED
    BY <1>1, <1>2

LEMMA BackpressureKeeps ==
    ASSUME NEW x, ChannelOK(x), NEW enabled \in BOOLEAN
    PROVE  /\ ChannelOK([x EXCEPT !.backpressure = enabled])
           /\ Kept(x, [x EXCEPT !.backpressure = enabled])
<1> DEFINE y == [x EXCEPT !.backpressure = enabled]
<1>1. y \in Between!InterDomainChannel
    BY DEF ChannelOK, Between!InterDomainChannel
<1>2. /\ y.received = x.received /\ y.outbound = x.outbound /\ y.priority = x.priority
      /\ y.history = x.history /\ y.pendingAcks = x.pendingAcks
      /\ y.acksReceived = x.acksReceived /\ y.flushed = x.flushed /\ y.inbound = x.inbound
    BY DEF ChannelOK, Between!InterDomainChannel
<1> HIDE DEF y
<1>3. ChannelOK(y) /\ Between!Flushed(y) = Between!Flushed(x)
    BY <1>1, <1>2, AlikeKeeps DEF ChannelOK, AckedOK
<1> QED
    BY <1>2, <1>3 DEF Kept, y

-----------------------------------------------------------------------------
(* All channels *)

\* A message in an inbound queue was flushed by the object that sent it.
Carried(m) == m[2] \in Between!Flushed(chan[m[1]])

ChannelsInv ==
    /\ Between!TypeOK
    /\ \A c \in Channels : ChannelOK(chan[c])
    /\ \A c \in Channels : \A k \in DOMAIN chan[c].inbound : Carried(chan[c].inbound[k])

LEMMA ChannelsInit == Between!Init => ChannelsInv
<1> SUFFICES ASSUME Between!Init PROVE ChannelsInv
    OBVIOUS
<1> DEFINE x == Between!NewChannel
<1>1. /\ x.outbound = <<>> /\ x.priority = {} /\ x.inbound = <<>> /\ x.history = <<>>
      /\ x.pendingAcks = {} /\ x.acksReceived = 0 /\ x.flushed = <<>> /\ x.received = {}
    BY DEF Between!NewChannel
<1>2. x \in Between!InterDomainChannel
    BY DEF Between!NewChannel, Between!InterDomainChannel
<1> HIDE DEF x
<1>3. AcksOK(x) /\ PlacesOK(x) /\ OrderOK(x) /\ AckedOK(x)
    <2>1. Cardinality({}) = 0 /\ Len(<<>>) = 0 /\ DOMAIN <<>> = {}
        BY FS_EmptySet
    <2>2. {i \in DOMAIN x.history : x.history[i].acked} = {}
        BY <1>1
    <2>3. AcksOK(x)
        BY <1>1, <2>1, <2>2 DEF AcksOK
    <2>4. PlacesOK(x)
        BY <1>1, <2>1 DEF PlacesOK, Between!Outbound, Between!Flushed
    <2> QED
        BY <1>1, <2>3, <2>4 DEF OrderOK, AckedOK
<1>4. \A c \in Channels : chan[c] = x
    BY DEF Between!Init, x
<1>5. Between!TypeOK
    BY <1>2 DEF Between!Init, Between!TypeOK, x
<1> QED
    BY <1>1, <1>2, <1>3, <1>4, <1>5 DEF ChannelsInv, ChannelOK

\* A step that keeps each channel in order, takes back nothing it flushed and queues
\* only what was flushed.
LEMMA ChannelsStep ==
    ASSUME ChannelsInv, DOMAIN chan' = Channels, chan' = [c \in Channels |-> chan'[c]],
           \A c \in Channels :
              /\ ChannelOK(chan'[c])
              /\ Between!Flushed(chan[c]) \subseteq Between!Flushed(chan'[c])
              /\ \A k \in DOMAIN chan'[c].inbound : Carried(chan'[c].inbound[k]),
           UNCHANGED <<pairOf, channelMesh>>
    PROVE  ChannelsInv'
<1>1. Between!TypeOK'
    BY DEF ChannelsInv, Between!TypeOK, ChannelOK
<1>2. ASSUME NEW c \in Channels, NEW k \in DOMAIN chan'[c].inbound
      PROVE  LET m == chan'[c].inbound[k] IN m[2] \in Between!Flushed(chan'[m[1]])
    <2> DEFINE m == chan'[c].inbound[k]
    <2>1. chan'[c].inbound \in Seq(Channels \X Between!Places)
        BY DEF ChannelOK, Between!InterDomainChannel
    <2>2. m \in Channels \X Between!Places
        BY <1>2, <2>1
    <2>3. m[2] \in Between!Flushed(chan[m[1]]) /\ m[1] \in Channels
        BY <1>2, <2>2 DEF Carried
    <2> QED
        BY <2>3
<1>3. \A c \in Channels : ChannelOK(chan'[c])
    OBVIOUS
<1> QED
    BY <1>1, <1>2, <1>3 DEF ChannelsInv, Carried

LEMMA OneChannelStep ==
    ASSUME ChannelsInv, NEW c \in Channels, NEW y, Between!Step(c, y), ChannelOK(y),
           Between!Flushed(chan[c]) \subseteq Between!Flushed(y),
           \A k \in DOMAIN y.inbound : Carried(y.inbound[k])
    PROVE  ChannelsInv'
<1>1. chan' = [chan EXCEPT ![c] = y] /\ UNCHANGED <<pairOf, channelMesh>>
    BY DEF Between!Step
<1>2. chan \in [Channels -> Between!InterDomainChannel]
    BY DEF ChannelsInv, Between!TypeOK
<1>3. DOMAIN chan' = Channels /\ chan' = [d \in Channels |-> chan'[d]]
      /\ chan'[c] = y /\ \A d \in Channels : d # c => chan'[d] = chan[d]
    BY <1>1, <1>2
<1>4. \A d \in Channels :
          /\ ChannelOK(chan'[d])
          /\ Between!Flushed(chan[d]) \subseteq Between!Flushed(chan'[d])
          /\ \A k \in DOMAIN chan'[d].inbound : Carried(chan'[d].inbound[k])
    BY <1>3 DEF ChannelsInv
<1> QED
    BY <1>1, <1>3, <1>4, ChannelsStep

LEMMA KeptStep ==
    ASSUME ChannelsInv, NEW c \in Channels, NEW y, Between!Step(c, y), ChannelOK(y),
           Kept(chan[c], y)
    PROVE  ChannelsInv'
    BY OneChannelStep DEF ChannelsInv, Kept

LEMMA ReceiveKeeps ==
    ASSUME ChannelsInv, NEW d \in Channels, Between!Receive(d)
    PROVE  ChannelsInv'
<1> DEFINE m == Head(chan[d].inbound)
           taken == [chan EXCEPT ![d].inbound = Tail(@)]
           rest == [chan[d] EXCEPT !.inbound = Tail(@)]
<1>1. chan \in [Channels -> Between!InterDomainChannel] /\ chan[d] \in Between!InterDomainChannel
    BY DEF ChannelsInv, Between!TypeOK
<1>2. chan[d].inbound # <<>> /\ chan[d].inbound \in Seq(Channels \X Between!Places)
      /\ chan' = [taken EXCEPT ![m[1]].received = @ \cup {m[2]}]
      /\ UNCHANGED <<pairOf, channelMesh>>
    BY <1>1 DEF Between!Receive, Between!InterDomainChannel
<1>3. /\ m \in Channels \X Between!Places /\ m = chan[d].inbound[1]
      /\ Tail(chan[d].inbound) \in Seq(Channels \X Between!Places)
      /\ \A k \in DOMAIN Tail(chan[d].inbound) :
            k + 1 \in DOMAIN chan[d].inbound /\ Tail(chan[d].inbound)[k] = chan[d].inbound[k + 1]
      /\ 1 \in DOMAIN chan[d].inbound
    BY <1>2, HeadTailProperties
<1>4. m[1] \in Channels /\ m[2] \in Between!Places /\ m[2] \in Between!Flushed(chan[m[1]])
    BY <1>3 DEF ChannelsInv, Carried
<1> HIDE DEF m
<1>5. /\ taken \in [Channels -> Between!InterDomainChannel]
      /\ \A c \in Channels : taken[c] = IF c = d THEN rest ELSE chan[c]
      /\ rest \in Between!InterDomainChannel
    BY <1>1, <1>3 DEF Between!InterDomainChannel
<1>6. ASSUME NEW c \in Channels
      PROVE  LET z == taken[c] IN
             /\ z.inbound = IF c = d THEN Tail(chan[d].inbound) ELSE chan[c].inbound
             /\ z.received = chan[c].received /\ z.outbound = chan[c].outbound
             /\ z.priority = chan[c].priority /\ z.history = chan[c].history
             /\ z.pendingAcks = chan[c].pendingAcks /\ z.acksReceived = chan[c].acksReceived
             /\ z.flushed = chan[c].flushed
    BY <1>1, <1>5 DEF Between!InterDomainChannel
<1> HIDE DEF taken, rest
<1>7. /\ DOMAIN chan' = Channels /\ chan' = [c \in Channels |-> chan'[c]]
      /\ \A c \in Channels : chan'[c] = IF c = m[1] THEN [taken[c] EXCEPT !.received = @ \cup {m[2]}]
                                         ELSE taken[c]
    BY <1>2, <1>4, <1>5
<1>8. ASSUME NEW c \in Channels
      PROVE  /\ ChannelOK(chan'[c])
             /\ Between!Flushed(chan[c]) \subseteq Between!Flushed(chan'[c])
             /\ \A k \in DOMAIN chan'[c].inbound : Carried(chan'[c].inbound[k])
    <2> DEFINE x == chan[c]
               y == chan'[c]
    <2>1. y \in Between!InterDomainChannel
        <3>1. taken[c] \in Between!InterDomainChannel
            BY <1>5
        <3>2. CASE c = m[1]
            <4>1. y = [taken[c] EXCEPT !.received = taken[c].received \cup {m[2]}]
                BY <1>7, <3>2
            <4> HIDE DEF y
            <4> QED
                BY <1>4, <3>1, <4>1 DEF Between!InterDomainChannel
        <3> QED
            BY <1>7, <3>1, <3>2
    <2>2. /\ y.inbound = IF c = d THEN Tail(chan[d].inbound) ELSE x.inbound
          /\ y.received = IF c = m[1] THEN x.received \cup {m[2]} ELSE x.received
          /\ y.outbound = x.outbound /\ y.priority = x.priority /\ y.history = x.history
          /\ y.pendingAcks = x.pendingAcks /\ y.acksReceived = x.acksReceived
          /\ y.flushed = x.flushed
        <3>1. taken[c] \in Between!InterDomainChannel
            BY <1>5
        <3> DEFINE z == taken[c]
        <3>2. /\ z.inbound = IF c = d THEN Tail(chan[d].inbound) ELSE x.inbound
              /\ z.received = x.received /\ z.outbound = x.outbound
              /\ z.priority = x.priority /\ z.history = x.history
              /\ z.pendingAcks = x.pendingAcks /\ z.acksReceived = x.acksReceived
              /\ z.flushed = x.flushed
            BY <1>6
        <3>3. CASE c = m[1]
            <4>1. y = [z EXCEPT !.received = z.received \cup {m[2]}]
                BY <1>7, <3>3
            <4> HIDE DEF x, y, z
            <4>2. z \in Between!InterDomainChannel
                BY <3>1 DEF z
            <4> QED
                BY <3>2, <3>3, <4>1, <4>2 DEF Between!InterDomainChannel
        <3>4. CASE c # m[1]
            BY <1>7, <3>2, <3>4
        <3> QED
            BY <3>3, <3>4
    <2>3. ChannelOK(x) /\ \A k \in DOMAIN x.inbound : Carried(x.inbound[k])
        BY DEF ChannelsInv
    <2>4. y.received \subseteq Between!Flushed(x)
        BY <1>4, <2>2, <2>3 DEF ChannelOK, AckedOK
    <2> HIDE DEF x, y
    <2>5. ChannelOK(y) /\ Between!Flushed(y) = Between!Flushed(x)
        BY <2>1, <2>2, <2>3, <2>4, AlikeKeeps
    <2>6. \A k \in DOMAIN y.inbound : Carried(y.inbound[k])
        BY <1>3, <2>2, <2>3 DEF x
    <2> QED
        BY <2>5, <2>6 DEF x, y
<1> QED
    BY <1>2, <1>7, <1>8, ChannelsStep

LEMMA DeliverKeeps ==
    ASSUME ChannelsInv, NEW c \in Channels, NEW d \in Channels, NEW i, Between!Deliver(c, d, i)
    PROVE  ChannelsInv'
<1> DEFINE m == <<c, i>>
           y == Between!InjectInbound(chan[d], m)
<1>1. ChannelOK(chan[c]) /\ ChannelOK(chan[d])
    BY DEF ChannelsInv
<1>2. i \in Between!Flushed(chan[c]) /\ Between!Step(d, y)
    BY DEF Between!Deliver, Between!Flushed
<1>3. m \in Channels \X Between!Places /\ Carried(m)
    <2>1. i \in Between!Places
        BY <1>1, <1>2, ChannelFacts DEF Between!Flushed
    <2> QED
        BY <1>2, <2>1 DEF Carried
<1> HIDE DEF m
<1>4. /\ ChannelOK(y) /\ Between!Flushed(y) = Between!Flushed(chan[d])
      /\ \A k \in DOMAIN y.inbound :
            y.inbound[k] = m \/ \E j \in DOMAIN chan[d].inbound : y.inbound[k] = chan[d].inbound[j]
    BY <1>1, <1>3, InjectKeeps
<1> HIDE DEF y
<1>5. \A k \in DOMAIN y.inbound : Carried(y.inbound[k])
    BY <1>3, <1>4 DEF ChannelsInv
<1> QED
    BY <1>2, <1>4, <1>5, OneChannelStep

LEMMA AcknowledgeStep ==
    ASSUME ChannelsInv, NEW c \in Channels, NEW i, Between!Acknowledge(c, i)
    PROVE  ChannelsInv'
<1>1. ChannelOK(chan[c]) /\ i \in chan[c].received
      /\ Between!Step(c, Between!AcknowledgeMessage(chan[c], i))
    BY DEF ChannelsInv, Between!Acknowledge
<1>2. i \in Between!Flushed(chan[c])
    BY <1>1 DEF ChannelOK, AckedOK
<1> QED
    BY <1>1, <1>2, AcknowledgeKeeps, KeptStep

LEMMA CreateKeeps ==
    ASSUME ChannelsInv, NEW p \in TwoPairs, NEW c \in Channels, Between!CreateChannel(p, c)
    PROVE  ChannelsInv'
<1>1. /\ pairOf' = [pairOf EXCEPT ![c] = p] /\ channelMesh' = [channelMesh EXCEPT ![p] = c]
      /\ chan' = chan
    BY DEF Between!CreateChannel
<1>2. Between!TypeOK'
    BY <1>1 DEF ChannelsInv, Between!TypeOK
<1> QED
    BY <1>1, <1>2 DEF ChannelsInv, Carried

LEMMA BroadcastKeeps ==
    ASSUME ChannelsInv, NEW source, NEW destinations, NEW critical \in BOOLEAN,
           Between!BroadcastMessage(source, destinations, critical)
    PROVE  ChannelsInv'
<1> DEFINE targets == {Between!GetChannel(source, d) : d \in destinations} \ {None}
           sent(c) == Between!SendMessage(chan[c], critical, TRUE)
<1>1. /\ chan' = [c \in Channels |-> IF c \in targets THEN sent(c) ELSE chan[c]]
      /\ UNCHANGED <<pairOf, channelMesh>>
    BY DEF Between!BroadcastMessage
<1> HIDE DEF targets, sent
<1>2. ASSUME NEW c \in Channels
      PROVE  /\ ChannelOK(chan[c]) /\ \A k \in DOMAIN chan[c].inbound : Carried(chan[c].inbound[k])
             /\ ChannelOK(sent(c)) /\ Kept(chan[c], sent(c))
    <2>1. ChannelOK(chan[c]) /\ \A k \in DOMAIN chan[c].inbound : Carried(chan[c].inbound[k])
        BY DEF ChannelsInv
    <2> QED
        BY <2>1, SendKeeps DEF sent
<1>3. \A c \in Channels : chan'[c] = sent(c) \/ chan'[c] = chan[c]
    BY <1>1
<1>4. \A c \in Channels :
          /\ ChannelOK(chan'[c])
          /\ Between!Flushed(chan[c]) \subseteq Between!Flushed(chan'[c])
          /\ \A k \in DOMAIN chan'[c].inbound : Carried(chan'[c].inbound[k])
    BY <1>2, <1>3 DEF Kept
<1>5. DOMAIN chan' = Channels /\ chan' = [c \in Channels |-> chan'[c]]
    BY <1>1
<1> QED
    BY <1>1, <1>4, <1>5, ChannelsStep

LEMMA ChannelsNext == ChannelsInv /\ [Between!Next]_channelVars => ChannelsInv'
<1> SUFFICES ASSUME ChannelsInv, [Between!Next]_channelVars PROVE ChannelsInv'
    OBVIOUS
<1>1. CASE UNCHANGED channelVars
    <2>1. chan' = chan /\ pairOf' = pairOf /\ channelMesh' = channelMesh
        BY <1>1 DEF channelVars
    <2> QED
        BY <2>1 DEF ChannelsInv, Carried, Between!TypeOK
<1>2. CASE \E p \in TwoPairs, c \in Channels : Between!CreateChannel(p, c)
    BY <1>2, CreateKeeps
<1>3. CASE \E p \in TwoPairs, critical \in BOOLEAN :
              Between!BroadcastMessage(p[1], {q[2] : q \in TwoPairs}, critical)
    BY <1>3, BroadcastKeeps
<1>4. ASSUME NEW c \in Channels,
             \/ \E critical, requiresAck \in BOOLEAN : Between!Send(c, critical, requiresAck)
             \/ Between!Flush(c)
             \/ \E enabled \in BOOLEAN : Between!SetBackpressure(c, enabled)
      PROVE  ChannelsInv'
    <2>1. ChannelOK(chan[c])
        BY DEF ChannelsInv
    <2>2. ASSUME NEW critical \in BOOLEAN, NEW requiresAck \in BOOLEAN,
                 Between!Send(c, critical, requiresAck)
          PROVE  ChannelsInv'
        <3>1. Between!Step(c, Between!SendMessage(chan[c], critical, requiresAck))
            BY <2>2 DEF Between!Send
        <3> QED
            BY <2>1, <3>1, SendKeeps, KeptStep
    <2>3. CASE Between!Flush(c)
        <3>1. Between!Step(c, Between!FlushOutbound(chan[c]))
            BY <2>3 DEF Between!Flush
        <3> QED
            BY <2>1, <3>1, FlushKeeps, KeptStep
    <2>4. ASSUME NEW enabled \in BOOLEAN, Between!SetBackpressure(c, enabled) PROVE ChannelsInv'
        <3>1. Between!Step(c, [chan[c] EXCEPT !.backpressure = enabled])
            BY <2>4 DEF Between!SetBackpressure
        <3> QED
            BY <2>1, <3>1, BackpressureKeeps, KeptStep
    <2> QED
        BY <1>4, <2>2, <2>3, <2>4
<1> QED
    BY <1>1, <1>2, <1>3, <1>4, ReceiveKeeps, AcknowledgeStep, DeliverKeeps DEF Between!Next

LEMMA ChannelsInvariance == Between!Spec => []ChannelsInv
<1>1. ChannelsInv /\ [Between!Next]_Between!vars => ChannelsInv'
    BY ChannelsNext DEF Between!vars, channelVars
<1> QED
    BY <1>1, ChannelsInit, PTL DEF Between!Spec

\* The invariant of the channels, and what the runs check of it.
LEMMA ChannelsImply ==
    ASSUME ChannelsInv
    PROVE  Between!ChannelInv /\ Between!AckedWasFlushed
<1>1. Between!AcksConserved
    BY BetweenCardinality DEF ChannelsInv, ChannelOK, AcksOK, Between!AcksConserved
<1>2. Between!NothingLost
    <2> SUFFICES ASSUME NEW c \in Channels
                 PROVE  LET x == chan[c] IN
                        /\ x.priority \cup Between!Outbound(x) \cup Between!Flushed(x)
                              = DOMAIN x.history
                        /\ Between!Cardinality(x.priority) + Len(x.outbound) + Len(x.flushed)
                              = Len(x.history)
        BY DEF Between!NothingLost
    <2> DEFINE n == Cardinality(chan[c].priority)
               o == Len(chan[c].outbound)
               f == Len(chan[c].flushed)
               h == Len(chan[c].history)
    <2>1. ChannelOK(chan[c])
        BY DEF ChannelsInv
    <2>2. n = h - o - f /\ n \in Nat /\ o \in Nat /\ f \in Nat /\ h \in Nat
        BY <2>1, ChannelFacts DEF ChannelOK, PlacesOK
    <2> HIDE DEF n, o, f, h
    <2>3. n + o + f = h
        BY <2>2
    <2> QED
        BY <2>1, <2>3, BetweenCardinality DEF ChannelOK, PlacesOK, n, o, f, h
<1>3. Between!AckedWasFlushed
    BY DEF ChannelsInv, ChannelOK, AckedOK, Between!AckedWasFlushed
<1> QED
    BY <1>1, <1>2, <1>3 DEF ChannelsInv, Between!ChannelInv

LEMMA ChannelsOrdered == ChannelsInv => Between!FlushedInOrder
<1> SUFFICES ASSUME ChannelsInv, NEW c \in Channels
             PROVE  LET x == chan[c]
                        line == x.flushed \o x.outbound
                        class(i) == x.history[i].critical
                    IN  /\ \A j, k \in DOMAIN line :
                             j < k /\ class(line[j]) = class(line[k]) => line[j] < line[k]
                        /\ \A i \in Between!Flushed(x), j \in x.priority : class(i) => i < j
    BY DEF Between!FlushedInOrder
<1> DEFINE x == chan[c]
           line == x.flushed \o x.outbound
           n == Len(x.flushed)
           class(i) == x.history[i].critical
<1>1. ChannelOK(x) /\ OrderOK(x)
    BY DEF ChannelsInv, ChannelOK
<1>2. /\ n \in Nat /\ Len(x.outbound) \in Nat
      /\ DOMAIN line = 1 .. n + Len(x.outbound)
      /\ DOMAIN x.flushed = 1 .. n /\ DOMAIN x.outbound = 1 .. Len(x.outbound)
      /\ \A k \in DOMAIN line : IF k <= n THEN line[k] = x.flushed[k]
                                ELSE line[k] = x.outbound[k - n]
    <2> DEFINE f == x.flushed
               o == x.outbound
    <2>1. f \in Seq(Between!Places) /\ o \in Seq(Between!Places)
        BY <1>1, ChannelFacts
    <2> HIDE DEF f, o
    <2>2. /\ Len(f) \in Nat /\ Len(o) \in Nat
          /\ DOMAIN (f \o o) = 1 .. Len(f) + Len(o)
          /\ DOMAIN f = 1 .. Len(f) /\ DOMAIN o = 1 .. Len(o)
          /\ \A k \in DOMAIN (f \o o) : IF k <= Len(f) THEN (f \o o)[k] = f[k]
                                        ELSE (f \o o)[k] = o[k - Len(f)]
        BY <2>1
    <2> QED
        BY <2>2 DEF f, o
<1> HIDE DEF x, line, n
<1>3. \A k \in DOMAIN line :
         \/ k \in DOMAIN x.flushed /\ line[k] = x.flushed[k]
         \/ k > n /\ k - n \in DOMAIN x.outbound /\ line[k] = x.outbound[k - n]
    BY <1>2
<1>4. ASSUME NEW j \in DOMAIN line, NEW k \in DOMAIN line, j < k, class(line[j]) = class(line[k])
      PROVE  line[j] < line[k]
    <2>1. CASE k \in DOMAIN x.flushed /\ line[k] = x.flushed[k]
        <3>1. j \in DOMAIN x.flushed /\ line[j] = x.flushed[j]
            BY <1>2, <1>4, <2>1
        <3> QED
            BY <1>1, <1>4, <2>1, <3>1 DEF OrderOK
    <2>2. CASE k > n /\ k - n \in DOMAIN x.outbound /\ line[k] = x.outbound[k - n]
        <3>1. ~ class(line[k]) 
            BY <1>1, <2>2 DEF OrderOK
        <3>2. CASE j \in DOMAIN x.flushed /\ line[j] = x.flushed[j]
            BY <1>1, <1>4, <2>2, <3>1, <3>2 DEF OrderOK
        <3>3. CASE j > n /\ j - n \in DOMAIN x.outbound /\ line[j] = x.outbound[j - n]
            <4>1. j - n < k - n
                BY <1>2, <1>4
            <4> QED
                BY <1>1, <2>2, <3>3, <4>1 DEF OrderOK
        <3> QED
            BY <1>3, <3>2, <3>3
    <2> QED
        BY <1>3, <2>1, <2>2
<1>5. \A i \in Between!Flushed(x), j \in x.priority : class(i) => i < j
    BY <1>1 DEF OrderOK, Between!Flushed
<1> QED
    BY <1>4, <1>5 DEF x, line

-----------------------------------------------------------------------------
(* What else is typed of the mesh and of the lifecycle. *)

RestTyped ==
    /\ edges \in Seq(MeshEdge)
    /\ rebuilt \in BOOLEAN
    /\ hooks \subseteq {"init", "shutdown"} \X Ids
    /\ raised \subseteq Ids

LEMMA EdgesKept ==
    ASSUME RestTyped, NEW link \in Links,
           \/ EstablishConnection(link) \/ Disconnect(link)
           \/ \E healthy \in BOOLEAN : MarkEdge(link, healthy)
    PROVE  edges' \in Seq(MeshEdge) /\ rebuilt' \in BOOLEAN
<1> DEFINE e == [link |-> link, healthy |-> TRUE]
<1>1. /\ edges \in Seq(MeshEdge) /\ e \in MeshEdge /\ Len(edges) \in Nat
      /\ DOMAIN edges = 1 .. Len(edges) /\ \A i \in DOMAIN edges : edges[i] \in MeshEdge
    <2>1. edges \in Seq(MeshEdge)
        BY DEF RestTyped
    <2>2. e \in MeshEdge
        BY DEF MeshEdge
    <2> HIDE DEF e
    <2> QED
        BY <2>1, <2>2
<1>2. rebuilt' \in BOOLEAN
    BY DEF RestTyped, EstablishConnection, Disconnect, MarkEdge, Changed, RebuildRoutingTable
<1>3. CASE EstablishConnection(link)
    <2>1. edges' = IF Position(link) = {} THEN Append(edges, e)
                   ELSE [i \in DOMAIN edges |-> IF i \in Position(link) THEN e ELSE edges[i]]
        BY <1>3 DEF EstablishConnection, Changed
    <2> HIDE DEF e
    <2> QED
        BY <1>1, <1>2, <2>1
<1>4. CASE Disconnect(link)
    <2>1. PICK i \in DOMAIN edges : edges' = RemoveAt(edges, i)
        BY <1>4 DEF Disconnect, Position, Changed
    <2>2. /\ SubSeq(edges, 1, i - 1) \in Seq(MeshEdge)
          /\ SubSeq(edges, i + 1, Len(edges)) \in Seq(MeshEdge)
        BY <1>1
    <2> QED
        BY <1>2, <2>1, <2>2 DEF RemoveAt
<1>5. ASSUME NEW healthy \in BOOLEAN, MarkEdge(link, healthy) PROVE edges' \in Seq(MeshEdge)
    <2>1. edges' = [i \in DOMAIN edges |->
                      IF i \in Position(link) THEN [edges[i] EXCEPT !.healthy = healthy] ELSE edges[i]]
        BY <1>5 DEF MarkEdge, Changed
    <2>2. \A i \in DOMAIN edges : edges'[i] \in MeshEdge
        BY <1>1, <2>1 DEF MeshEdge
    <2>3. DOMAIN edges' = 1 .. Len(edges) /\ edges' = [i \in 1 .. Len(edges) |-> edges'[i]]
        BY <1>1, <2>1
    <2> QED
        BY <1>1, <2>2, <2>3
<1> QED
    BY <1>2, <1>3, <1>4, <1>5

LEMMA RestKept == Types /\ RestTyped /\ [Next]_vars => RestTyped'
<1> SUFFICES ASSUME Types, RestTyped, [Next]_vars PROVE RestTyped'
    OBVIOUS
<1>1. CASE UNCHANGED vars
    BY <1>1 DEF vars, mesh, lifecycle, RestTyped
<1>2. CASE Registry
    <2>1. UNCHANGED <<mesh, lifecycle>>
        BY <1>2 DEF Registry, RegisterDomain, UpdateDomainState, UnregisterDomain
    <2> QED
        BY <2>1 DEF mesh, lifecycle, RestTyped
<1>3. CASE Mesh
    <2>1. edges' \in Seq(MeshEdge) /\ rebuilt' \in BOOLEAN
        BY <1>3, EdgesKept DEF Mesh
    <2>2. UNCHANGED lifecycle
        BY <1>3 DEF Mesh, EstablishConnection, Disconnect, MarkEdge, Changed
    <2> QED
        BY <2>1, <2>2 DEF lifecycle, RestTyped
<1>4. CASE Lifecycle
    <2>1. UNCHANGED mesh
        BY <1>4 DEF Lifecycle, RegisterHook, Enter, Return, CallbackRaises
    <2>2. CASE \E kind \in {"init", "shutdown"}, d \in Ids : RegisterHook(kind, d) \/ Enter(kind, d)
        BY <2>1, <2>2 DEF RegisterHook, Enter, mesh, RestTyped
    <2>3. CASE Return
        BY <2>1, <2>3 DEF Return, mesh, RestTyped
    <2>4. CASE CallbackRaises
        <3>1. stack # <<>> /\ hooks' = hooks
              /\ raised' = IF Last(stack).kind = "init" THEN raised \cup {Last(stack).id} ELSE raised
            BY <2>4 DEF CallbackRaises
        <3>2. Last(stack).id \in Ids
            BY <3>1, Ending DEF Frame
        <3> QED
            BY <2>1, <3>1, <3>2 DEF mesh, RestTyped
    <2> QED
        BY <1>4, <2>2, <2>3, <2>4 DEF Lifecycle
<1> QED
    BY <1>1, <1>2, <1>3, <1>4 DEF Next

LEMMA RegistryInvariance == Spec => [](RegistryInv /\ InitializingIsUnderWay)
<1>1. Init => RestTyped
    <2>1. <<>> \in Seq(MeshEdge)
        OBVIOUS
    <2> QED
        BY <2>1 DEF Init, RestTyped
<1>2. IInv /\ RestTyped => RegistryInv /\ InitializingIsUnderWay
    BY DEF IInv, Types, Hierarchy, ChildrenMatch, RestTyped, RegistryInv, TypeOK,
           ChildrenMatchParents
<1>3. IInv => Types
    BY DEF IInv
<1> QED
    BY <1>1, <1>2, <1>3, Invariance, RestKept, PTL DEF Spec

-----------------------------------------------------------------------------
(* The four parts side by side. *)

LEMMA PartsKept == MCSpec => Spec /\ Between!Spec
<1>1. MCInit => Init /\ Between!Init
    BY DEF MCInit
<1>2. [MCNext]_<<under, vars, channelVars>> => [Next]_vars
    BY DEF MCNext, Next, vars
<1>3. [MCNext]_<<under, vars, channelVars>> => [Between!Next]_Between!vars
    BY DEF MCNext, channelVars, Between!vars
<1> QED
    BY <1>1, <1>2, <1>3, PTL DEF MCSpec, Spec, Between!Spec

\* Registry and channels in any order of calls: the hierarchy has two directions that
\* agree and one world, no domain is left initializing by itself, every message asked to
\* be acknowledged is pending until it is, and every accepted message is in exactly one
\* place.
THEOREM MeshKept == MCSpec => []MeshInv
<1>1. ChannelsInv => Between!ChannelInv
    BY ChannelsImply
<1> QED
    BY <1>1, PartsKept, RegistryInvariance, ChannelsInvariance, PTL DEF MeshInv

\* acknowledge_message, receive_message: whatever the carrier loses, repeats or
\* reorders, only a message that left its channel is ever acknowledged.
THEOREM AcknowledgedAfterFlush == MCSpec => []AckedWasFlushed
<1>1. ChannelsInv => AckedWasFlushed
    BY ChannelsImply DEF AckedWasFlushed
<1> QED
    BY <1>1, PartsKept, ChannelsInvariance, PTL

\* flush_outbound: messages of one class leave in the order they were accepted and ahead
\* of those still queued, for flushes of every size.
THEOREM LeavesInOrder == MCSpec => []FlushedInOrder
<1>1. ChannelsInv => FlushedInOrder
    BY ChannelsOrdered DEF FlushedInOrder
<1> QED
    BY <1>1, PartsKept, ChannelsInvariance, PTL

-----------------------------------------------------------------------------
(* Parents and growing families of sets *)

\* Parents were registered before their children.
Ranked ==
    \E rank \in [issued -> Nat] :
        \A d \in DOMAIN domains :
            domains[d].parent \in issued => rank[domains[d].parent] < rank[d]

LEMMA RankedByRegister ==
    ASSUME IInv, Ranked, NEW d \in Ids, NEW tier \in Tiers, NEW parent \in issued \cup {None},
           RegisterDomain(d, tier, parent)
    PROVE  Ranked'
<1>1. /\ d \notin issued /\ d # None /\ issued' = issued \cup {d} /\ d \notin DOMAIN domains
      /\ \A x \in DOMAIN domains : domains[x] \in DomainRegistration /\ x \in issued
      /\ \A x \in DOMAIN domains : domains[x].parent \in issued \cup {None}
    BY MeshAssumption DEF IInv, Types, Hierarchy, ParentsIssued, RegisterDomain
<1>2. /\ DOMAIN domains' = DOMAIN domains \cup {d} /\ domains'[d].parent = parent
      /\ \A x \in DOMAIN domains : domains'[x].parent = domains[x].parent
    <2>1. domains' = WithChild(domains, d, [tier |-> tier, state |-> "uninitialized",
                                            parent |-> parent, children |-> {}])
        BY DEF RegisterDomain
    <2>2. \A x \in DOMAIN domains : [domains[x] EXCEPT !.children = @ \cup {d}].parent = domains[x].parent
        BY <1>1 DEF DomainRegistration
    <2> QED
        BY <1>1, <2>1, <2>2 DEF WithChild
<1>3. PICK rank \in [issued -> Nat] :
          \A x \in DOMAIN domains : domains[x].parent \in issued => rank[domains[x].parent] < rank[x]
    BY DEF Ranked
<1>4. PICK n \in Nat : parent \in issued => rank[parent] < n
    <2>1. CASE parent \in issued
        BY <1>3, <2>1, rank[parent] + 1 \in Nat, rank[parent] < rank[parent] + 1
    <2>2. CASE parent \notin issued
        BY <2>2, 0 \in Nat
    <2> QED
        BY <2>1, <2>2
<1>5. PICK new : new = [x \in issued \cup {d} |-> IF x = d THEN n ELSE rank[x]]
    OBVIOUS
<1>6. new \in [issued' -> Nat] /\ new[d] = n /\ \A x \in issued : new[x] = rank[x]
    BY <1>1, <1>3, <1>4, <1>5
<1>7. ASSUME NEW x \in DOMAIN domains', domains'[x].parent \in issued'
      PROVE  new[domains'[x].parent] < new[x]
    <2>1. CASE x = d
        BY <1>1, <1>2, <1>4, <1>6, <1>7, <2>1
    <2>2. CASE x # d
        BY <1>1, <1>2, <1>3, <1>6, <1>7, <2>2
    <2> QED
        BY <2>1, <2>2
<1> QED
    BY <1>6, <1>7 DEF Ranked

\* Nothing else gives a domain another parent.
LEMMA ParentsKept ==
    ASSUME IInv, NEW d, NEW s \in States, SetState(d, s)
    PROVE  /\ DOMAIN domains' = DOMAIN domains
           /\ \A x \in DOMAIN domains : domains'[x].parent = domains[x].parent
<1>1. \A x \in DOMAIN domains : [domains[x] EXCEPT !.state = s].parent = domains[x].parent
    BY DEF IInv, Types, DomainRegistration
<1> QED
    BY <1>1 DEF SetState

LEMMA RankedStep == IInv /\ Ranked /\ [Next]_vars => Ranked'
<1> SUFFICES ASSUME IInv, Ranked, [Next]_vars PROVE Ranked'
    OBVIOUS
<1>1. ASSUME issued' = issued, DOMAIN domains' \subseteq DOMAIN domains,
             \A x \in DOMAIN domains' : domains'[x].parent = domains[x].parent
      PROVE  Ranked'
    <2>1. PICK rank \in [issued -> Nat] :
              \A x \in DOMAIN domains : domains[x].parent \in issued => rank[domains[x].parent] < rank[x]
        BY DEF Ranked
    <2> QED
        BY <1>1, <2>1 DEF Ranked
<1>2. ASSUME UNCHANGED registry PROVE Ranked'
    BY <1>1, <1>2 DEF registry
<1>3. ASSUME issued' = issued, NEW d, NEW s \in States, SetState(d, s) PROVE Ranked'
    BY <1>1, <1>3, ParentsKept
<1>4. CASE UNCHANGED vars
    BY <1>2, <1>4 DEF vars
<1>5. CASE Registry
    <2>1. CASE \E d \in Ids : UpdateDomainState(d)
        <3>1. "suspended" \in States
            BY DEF States
        <3> QED
            BY <1>3, <2>1, <3>1 DEF UpdateDomainState
    <2>2. ASSUME NEW d \in Ids, UnregisterDomain(d) PROVE Ranked'
        <3>1. \A x \in DOMAIN domains : [domains[x] EXCEPT !.children = @ \ {d}].parent = domains[x].parent
            BY DEF IInv, Types, DomainRegistration
        <3> QED
            BY <1>1, <2>2, <3>1 DEF UnregisterDomain, WithoutChild
    <2> QED
        BY <1>5, <2>1, <2>2, RankedByRegister DEF Registry
<1>6. CASE Mesh
    BY <1>2, <1>6 DEF Mesh, EstablishConnection, Disconnect, MarkEdge, Changed
<1>7. CASE Lifecycle
    <2>0. "active" \in States /\ \A kind : Started(kind) \in States
        BY DEF States, Started
    <2>1. CASE \E kind \in {"init", "shutdown"}, d \in Ids : RegisterHook(kind, d)
        BY <1>2, <2>1 DEF RegisterHook
    <2>2. CASE \E kind \in {"init", "shutdown"}, d \in Ids : Enter(kind, d)
        BY <1>3, <2>0, <2>2 DEF Enter
    <2>3. CASE Return
        <3>1. CASE Last(stack).kind = "init"
            BY <1>3, <2>0, <2>3, <3>1 DEF Return, Finished
        <3>2. CASE Last(stack).kind # "init"
            BY <1>1, <2>3, <3>2 DEF Return
        <3> QED
            BY <3>1, <3>2
    <2>4. CASE CallbackRaises
        BY <1>2, <2>4 DEF CallbackRaises
    <2> QED
        BY <1>7, <2>1, <2>2, <2>3, <2>4 DEF Lifecycle
<1> QED
    BY <1>4, <1>5, <1>6, <1>7 DEF Next

\* A growing family of subsets of a set of n elements that stands still once it did so
\* for one step stands still at the n-th.
LEMMA Saturates ==
    ASSUME NEW S, IsFiniteSet(S), NEW f, f[0] # {},
           \A k \in 0 .. Cardinality(S) : f[k] \subseteq S,
           \A k \in 1 .. Cardinality(S) : f[k - 1] \subseteq f[k],
           \A k \in 1 .. Cardinality(S) - 1 : f[k] = f[k - 1] => f[k + 1] = f[k]
    PROVE  Cardinality(S) \in Nat \ {0} /\ f[Cardinality(S)] = f[Cardinality(S) - 1]
<1>1. PICK n \in Nat : n = Cardinality(S)
    BY FS_CardinalityType
<1>2. n # 0
    BY <1>1, FS_EmptySet
<1>3. ASSUME NEW k \in 0 .. n PROVE IsFiniteSet(f[k]) /\ Cardinality(f[k]) \in Nat /\ Cardinality(f[k]) <= n
    BY <1>1, FS_Subset, FS_CardinalityType
<1> SUFFICES ASSUME f[n] # f[n - 1] PROVE FALSE
    BY <1>1, <1>2
<1>4. ASSUME NEW k \in 1 .. n PROVE f[k] # f[k - 1]
    <2> DEFINE Still == {j \in k .. n : f[j] # f[j - 1]}
    <2> SUFFICES ASSUME f[k] = f[k - 1] PROVE FALSE
        OBVIOUS
    <2>1. n \in Still /\ Still \in SUBSET Nat
        BY <1>1
    <2>2. PICK j \in Still : \A i \in Still : j <= i
        BY <2>1, LeastElement
    <2>3. j # k /\ j - 1 \notin Still /\ j \in k .. n
        BY <2>1, <2>2
    <2>4. f[j - 1] = f[j - 2]
        <3>1. j - 1 \in k .. n /\ (j - 1) - 1 = j - 2
            BY <2>3
        <3> QED
            BY <2>3, <3>1
    <2>5. f[j] = f[j - 1]
        <3>1. j - 1 \in 1 .. n - 1 /\ (j - 1) - 1 = j - 2 /\ (j - 1) + 1 = j
            BY <2>3
        <3> QED
            BY <1>1, <2>4, <3>1
    <2> QED
        BY <2>2, <2>5
<1>5. ASSUME NEW k \in 1 .. n PROVE Cardinality(f[k - 1]) < Cardinality(f[k])
    <2>1. k - 1 \in 0 .. n /\ k \in 0 .. n /\ f[k - 1] \subseteq f[k]
        BY <1>1
    <2>2. f[k] # f[k - 1]
        BY <1>4
    <2>3. PICK A, B : A = f[k - 1] /\ B = f[k]
        OBVIOUS
    <2>4. /\ A \subseteq B /\ A # B /\ IsFiniteSet(B)
          /\ Cardinality(A) \in Nat /\ Cardinality(B) \in Nat
        BY <1>3, <2>1, <2>2, <2>3
    <2>5. Cardinality(A) <= Cardinality(B) /\ Cardinality(A) # Cardinality(B)
        BY <2>4, FS_Subset
    <2> QED
        BY <2>3, <2>4, <2>5
<1> DEFINE Few == {k \in 0 .. n : Cardinality(f[k]) <= k}
<1>6. Cardinality(f[0]) >= 1
    BY <1>3, FS_EmptySet
<1>7. n \in Few /\ Few \in SUBSET Nat
    BY <1>3
<1>8. PICK k \in Few : \A j \in Few : k <= j
    <2> HIDE DEF Few
    <2> QED
        BY <1>7, LeastElement
<1>9. k \in 1 .. n /\ k - 1 \notin Few /\ k - 1 \in 0 .. n
    <2>1. k \in 0 .. n /\ Cardinality(f[k]) <= k
        OBVIOUS
    <2>2. k # 0
        <3>1. Cardinality(f[0]) \in Nat
            BY <1>3
        <3> QED
            BY <1>6, <2>1, <3>1
    <2>3. k - 1 \in Nat /\ ~ (k <= k - 1)
        BY <2>1, <2>2
    <2> HIDE DEF Few
    <2> QED
        BY <1>8, <2>1, <2>2, <2>3
<1> QED
    BY <1>3, <1>5, <1>8, <1>9

-----------------------------------------------------------------------------
(* The tree of domains *)

LEMMA IdsCount == Cardinality(Ids) \in Nat /\ IsFiniteSet(Ids)
    BY MeshAssumption, FS_CardinalityType

Children == [X \in SUBSET Ids |-> UNION {domains[d].children : d \in X \cap DOMAIN domains}]
WithChildren == [X \in SUBSET Ids |-> X \cup {d \in DOMAIN domains : domains[d].parent \in X}]

LEMMA Generations ==
    ASSUME IInv, worldDomainId \in Ids
    PROVE  IsIteration(Generation, SUBSET Ids, {worldDomainId}, Children, Cardinality(Ids))
<1>1. Children \in [SUBSET Ids -> SUBSET Ids]
    BY DEF Children, IInv, Types, DomainRegistration
<1>2. PICK f : IsIteration(f, SUBSET Ids, {worldDomainId}, Children, Cardinality(Ids))
    BY <1>1, IdsCount, IterationExists
<1> DEFINE Turn(g) == [k \in 0 .. Cardinality(Ids) |->
               IF k = 0 THEN {worldDomainId}
               ELSE UNION {domains[d].children : d \in g[k - 1] \cap DOMAIN domains}]
<1>3. f = Turn(f)
    <2>1. ASSUME NEW k \in 1 .. Cardinality(Ids)
          PROVE  f[k] = UNION {domains[d].children : d \in f[k - 1] \cap DOMAIN domains}
        <3>1. k - 1 \in 0 .. Cardinality(Ids)
            BY IdsCount
        <3> QED
            BY <1>2, <3>1 DEF IsIteration, Children
    <2>2. PICK n \in Nat : n = Cardinality(Ids)
        BY IdsCount
    <2>3. f = [k \in 0 .. n |-> f[k]] /\ f[0] = {worldDomainId}
        BY <1>2, <2>2 DEF IsIteration
    <2>4. ASSUME NEW k \in 0 .. n
          PROVE  f[k] = IF k = 0 THEN {worldDomainId}
                        ELSE UNION {domains[d].children : d \in f[k - 1] \cap DOMAIN domains}
        <3>1. CASE k = 0
            BY <2>3, <3>1
        <3>2. CASE k # 0
            <4>1. k \in 1 .. Cardinality(Ids)
                BY <2>2, <3>2
            <4> QED
                BY <2>1, <3>2, <4>1
        <3> QED
            BY <3>1, <3>2
    <2> QED
        BY <2>2, <2>3, <2>4
<1>4. Generation = CHOOSE g : g = Turn(g)
    BY DEF Generation
<1>5. Generation = Turn(Generation)
    <2> HIDE DEF Turn
    <2> QED
        BY <1>3, <1>4
<1>6. Generation[0] = {worldDomainId}
    BY <1>5, IdsCount
<1>7. ASSUME NEW k \in 1 .. Cardinality(Ids), Generation[k - 1] \in SUBSET Ids
      PROVE  Generation[k] = Children[Generation[k - 1]] /\ Generation[k] \in SUBSET Ids
    <2>1. Generation[k] = UNION {domains[d].children : d \in Generation[k - 1] \cap DOMAIN domains}
        BY <1>5, IdsCount
    <2>2. Generation[k] = Children[Generation[k - 1]]
        BY <1>7, <2>1 DEF Children
    <2> QED
        BY <1>1, <1>7, <2>2
<1>8. \A k \in 0 .. Cardinality(Ids) : Generation[k] \in SUBSET Ids
    <2>1. PICK n \in Nat : n = Cardinality(Ids)
        BY IdsCount
    <2>2. PICK S, g : S = SUBSET Ids /\ g = Generation
        OBVIOUS
    <2>3. g[0] \in S
        BY <1>6, <2>2
    <2>4. \A k \in 1 .. n : g[k - 1] \in S => g[k] \in S
        BY <1>7, <2>1, <2>2
    <2>5. \A k \in 0 .. n : g[k] \in S
        BY ONLY <2>3, <2>4, n \in Nat, LoopKeeps
    <2> QED
        BY <2>1, <2>2, <2>5
<1>9. DOMAIN Generation = 0 .. Cardinality(Ids) /\ Generation = [k \in 0 .. Cardinality(Ids) |-> Generation[k]]
    BY <1>5
<1>10. \A k \in 1 .. Cardinality(Ids) : Generation[k] = Children[Generation[k - 1]]
    BY <1>7, <1>8, IdsCount
<1> QED
    BY <1>6, <1>8, <1>9, <1>10 DEF IsIteration

LEMMA Belows ==
    ASSUME IInv, worldDomainId \in Ids
    PROVE  IsIteration(Below, SUBSET Ids, {worldDomainId}, WithChildren, Cardinality(Ids))
<1>1. WithChildren \in [SUBSET Ids -> SUBSET Ids]
    BY DEF WithChildren, IInv, Types
<1>2. PICK f : IsIteration(f, SUBSET Ids, {worldDomainId}, WithChildren, Cardinality(Ids))
    BY <1>1, IdsCount, IterationExists
<1> DEFINE Turn(g) == [k \in 0 .. Cardinality(Ids) |->
               IF k = 0 THEN {worldDomainId}
               ELSE g[k - 1] \cup {d \in DOMAIN domains : domains[d].parent \in g[k - 1]}]
<1>3. f = Turn(f)
    <2>1. ASSUME NEW k \in 1 .. Cardinality(Ids)
          PROVE  f[k] = f[k - 1] \cup {d \in DOMAIN domains : domains[d].parent \in f[k - 1]}
        <3>1. k - 1 \in 0 .. Cardinality(Ids)
            BY IdsCount
        <3> QED
            BY <1>2, <3>1 DEF IsIteration, WithChildren
    <2>2. PICK n \in Nat : n = Cardinality(Ids)
        BY IdsCount
    <2>3. f = [k \in 0 .. n |-> f[k]] /\ f[0] = {worldDomainId}
        BY <1>2, <2>2 DEF IsIteration
    <2>4. ASSUME NEW k \in 0 .. n
          PROVE  f[k] = IF k = 0 THEN {worldDomainId}
                        ELSE f[k - 1] \cup {d \in DOMAIN domains : domains[d].parent \in f[k - 1]}
        <3>1. CASE k = 0
            BY <2>3, <3>1
        <3>2. CASE k # 0
            <4>1. k \in 1 .. Cardinality(Ids)
                BY <2>2, <3>2
            <4> QED
                BY <2>1, <3>2, <4>1
        <3> QED
            BY <3>1, <3>2
    <2> QED
        BY <2>2, <2>3, <2>4
<1>4. Below = CHOOSE g : g = Turn(g)
    BY DEF Below
<1>5. Below = Turn(Below)
    <2> HIDE DEF Turn
    <2> QED
        BY <1>3, <1>4
<1>6. Below[0] = {worldDomainId}
    BY <1>5, IdsCount
<1>7. ASSUME NEW k \in 1 .. Cardinality(Ids), Below[k - 1] \in SUBSET Ids
      PROVE  Below[k] = WithChildren[Below[k - 1]] /\ Below[k] \in SUBSET Ids
    <2>1. Below[k] = Below[k - 1] \cup {d \in DOMAIN domains : domains[d].parent \in Below[k - 1]}
        BY <1>5, IdsCount
    <2>2. Below[k] = WithChildren[Below[k - 1]]
        BY <1>7, <2>1 DEF WithChildren
    <2> QED
        BY <1>1, <1>7, <2>2
<1>8. \A k \in 0 .. Cardinality(Ids) : Below[k] \in SUBSET Ids
    <2>1. PICK n \in Nat : n = Cardinality(Ids)
        BY IdsCount
    <2>2. PICK S, g : S = SUBSET Ids /\ g = Below
        OBVIOUS
    <2>3. g[0] \in S
        BY <1>6, <2>2
    <2>4. \A k \in 1 .. n : g[k - 1] \in S => g[k] \in S
        BY <1>7, <2>1, <2>2
    <2>5. \A k \in 0 .. n : g[k] \in S
        BY ONLY <2>3, <2>4, n \in Nat, LoopKeeps
    <2> QED
        BY <2>1, <2>2, <2>5
<1>9. DOMAIN Below = 0 .. Cardinality(Ids) /\ Below = [k \in 0 .. Cardinality(Ids) |-> Below[k]]
    BY <1>5
<1>10. \A k \in 1 .. Cardinality(Ids) : Below[k] = WithChildren[Below[k - 1]]
    BY <1>7, <1>8, IdsCount
<1> QED
    BY <1>6, <1>8, <1>9, <1>10 DEF IsIteration

LEMMA TreeWhole == ASSUME IInv, Ranked PROVE TreeIsWhole
<1> SUFFICES ASSUME worldDomainId \in DOMAIN domains
             PROVE  /\ DomainTree = BelowWorld
                    /\ \A d \in DomainTree :
                          d \in DOMAIN domains /\ domains[d].children \subseteq DomainTree
                    /\ \A d \in DomainTree :
                          Cardinality({p \in DomainTree : d \in domains[p].children})
                              = IF d = worldDomainId THEN 0 ELSE 1
    BY DEF TreeIsWhole
<1>1. PICK n \in Nat : n = Cardinality(Ids) /\ IsFiniteSet(Ids)
    BY IdsCount
<1>2. /\ worldDomainId \in Ids
      /\ \A d \in DOMAIN domains : d \in Ids /\ domains[d].children \subseteq DOMAIN domains
      /\ \A c, d \in DOMAIN domains : c \in domains[d].children <=> domains[c].parent = d
    BY DEF IInv, Types, Hierarchy, ChildrenMatch
<1>3. PICK G : G = Generation
    OBVIOUS
<1>4. PICK B : B = Below
    OBVIOUS
<1>5. /\ G[0] = {worldDomainId} /\ \A k \in 0 .. n : G[k] \in SUBSET Ids
      /\ \A k \in 1 .. n : G[k] = UNION {domains[d].children : d \in G[k - 1] \cap DOMAIN domains}
    <2>1. IsIteration(G, SUBSET Ids, {worldDomainId}, Children, n)
        BY <1>1, <1>2, <1>3, Generations
    <2>2. ASSUME NEW k \in 1 .. n PROVE k - 1 \in 0 .. n
        OBVIOUS
    <2> QED
        BY <2>1, <2>2 DEF IsIteration, Children
<1>6. /\ B[0] = {worldDomainId} /\ \A k \in 0 .. n : B[k] \in SUBSET Ids
      /\ \A k \in 1 .. n : B[k] = B[k - 1] \cup {d \in DOMAIN domains : domains[d].parent \in B[k - 1]}
    <2>1. IsIteration(B, SUBSET Ids, {worldDomainId}, WithChildren, n)
        BY <1>1, <1>2, <1>4, Belows
    <2>2. ASSUME NEW k \in 1 .. n PROVE k - 1 \in 0 .. n
        OBVIOUS
    <2> QED
        BY <2>1, <2>2 DEF IsIteration, WithChildren
<1>7. ASSUME NEW k \in 0 .. n PROVE G[k] \subseteq DOMAIN domains
    <2>1. CASE k = 0
        BY <1>5, <2>1
    <2>2. CASE k # 0
        <3>1. k \in 1 .. n
            BY <2>2
        <3> QED
            BY <1>2, <1>5, <3>1
    <2> QED
        BY <2>1, <2>2
<1>8. ASSUME NEW k \in 1 .. n PROVE G[k] = {c \in DOMAIN domains : domains[c].parent \in G[k - 1]}
    <2>1. G[k - 1] \subseteq DOMAIN domains
        <3>1. k - 1 \in 0 .. n
            OBVIOUS
        <3> QED
            BY <1>7, <3>1
    <2>2. G[k] = UNION {domains[d].children : d \in G[k - 1]}
        BY <1>5, <2>1
    <2> QED
        BY <1>2, <2>1, <2>2
<1>9. \A k \in 0 .. n : B[k] = UNION {G[j] : j \in 0 .. k}
    <2> DEFINE Bad == {k \in 0 .. n : B[k] # UNION {G[j] : j \in 0 .. k}}
    <2> SUFFICES ASSUME Bad # {} PROVE FALSE
        OBVIOUS
    <2>1. PICK k \in Bad : \A j \in Bad : k <= j
        <3>1. Bad \in SUBSET Nat
            OBVIOUS
        <3> HIDE DEF Bad
        <3> QED
            BY <3>1, LeastElement
    <2>2. CASE k = 0
        <3>1. 0 .. 0 = {0}
            OBVIOUS
        <3>2. UNION {G[j] : j \in 0 .. 0} = G[0]
            BY <3>1
        <3> QED
            BY <1>5, <1>6, <2>2, <3>2
    <2>3. CASE k # 0
        <3>1. k \in 1 .. n /\ k - 1 \in 0 .. n /\ 0 .. k = (0 .. k - 1) \cup {k}
            BY <2>3
        <3>2. B[k - 1] = UNION {G[j] : j \in 0 .. k - 1}
            <4>1. ~ (k <= k - 1)
                OBVIOUS
            <4> QED
                BY <2>1, <3>1, <4>1
        <3>3. UNION {G[j] : j \in 0 .. k} = B[k - 1] \cup G[k]
            BY <3>1, <3>2
        <3>4. ASSUME NEW d \in DOMAIN domains, domains[d].parent \in B[k - 1]
              PROVE  d \in B[k - 1] \cup G[k]
            <4>1. PICK j \in 0 .. k - 1 : domains[d].parent \in G[j]
                BY <3>2, <3>4
            <4>2. j + 1 \in 1 .. n /\ j + 1 \in 0 .. k /\ (j + 1) - 1 = j
                BY <3>1
            <4>3. d \in G[j + 1]
                BY <1>8, <4>1, <4>2
            <4> QED
                BY <3>3, <4>2, <4>3
        <3>5. G[k] \subseteq {d \in DOMAIN domains : domains[d].parent \in B[k - 1]}
            <4>1. G[k - 1] \subseteq B[k - 1]
                <5>1. k - 1 \in 0 .. k - 1
                    BY <3>1
                <5> QED
                    BY <3>2, <5>1
            <4> QED
                BY <1>8, <3>1, <4>1
        <3>6. B[k] = B[k - 1] \cup G[k]
            BY <1>6, <3>1, <3>4, <3>5
        <3> QED
            BY <3>3, <3>6
    <2> QED
        BY <2>2, <2>3
<1>10. DomainTree = B[n] /\ BelowWorld = B[n]
    <2>1. n \in 0 .. n
        OBVIOUS
    <2>2. B[n] = UNION {G[j] : j \in 0 .. n}
        BY <1>9, <2>1
    <2> QED
        BY <1>1, <1>3, <1>4, <2>2 DEF DomainTree, BelowWorld
<1>11. n \in Nat \ {0} /\ B[n] = B[n - 1]
    <2>1. B[0] # {} /\ \A k \in 0 .. n : B[k] \subseteq Ids
        BY <1>6
    <2>2. \A k \in 1 .. n : B[k - 1] \subseteq B[k]
        BY <1>6
    <2>3. ASSUME NEW k \in 1 .. n - 1, B[k] = B[k - 1] PROVE B[k + 1] = B[k]
        <3>1. k \in 1 .. n /\ k + 1 \in 1 .. n /\ (k + 1) - 1 = k
            OBVIOUS
        <3>2. /\ B[k + 1] = B[k] \cup {d \in DOMAIN domains : domains[d].parent \in B[k]}
              /\ B[k] = B[k - 1] \cup {d \in DOMAIN domains : domains[d].parent \in B[k - 1]}
            BY <1>6, <3>1
        <3> QED
            BY <2>3, <3>2
    <2> QED
        BY <1>1, <2>1, <2>2, <2>3, Saturates
<1>12. n \in 0 .. n /\ n \in 1 .. n
    BY <1>11
<1>13. B[n] \subseteq DOMAIN domains
    BY <1>7, <1>9, <1>12
<1>14. ASSUME NEW d \in B[n] PROVE domains[d].children \subseteq B[n]
    <2> SUFFICES ASSUME NEW c \in domains[d].children PROVE c \in B[n]
        OBVIOUS
    <2>1. c \in DOMAIN domains /\ domains[c].parent = d
        BY <1>2, <1>13
    <2> QED
        BY <1>6, <1>11, <1>12, <2>1
<1>15. PICK rank \in [issued -> Nat] :
          \A d \in DOMAIN domains : domains[d].parent \in issued => rank[domains[d].parent] < rank[d]
    BY DEF Ranked
<1>16. ASSUME NEW d \in B[n] PROVE rank[worldDomainId] <= rank[d]
    <2> DEFINE T == {x \in issued : rank[worldDomainId] <= rank[x]}
    <2>0. DOMAIN domains \subseteq issued
        BY DEF IInv, Types
    <2>1. B[0] \in SUBSET T
        BY <1>6, <1>15, <2>0
    <2>2. ASSUME NEW k \in 1 .. n, B[k - 1] \in SUBSET T PROVE B[k] \in SUBSET T
        <3> SUFFICES ASSUME NEW c \in DOMAIN domains, domains[c].parent \in B[k - 1] PROVE c \in T
            BY <1>6, <2>2
        <3>1. PICK p : p = domains[c].parent
            OBVIOUS
        <3>2. p \in issued /\ c \in issued /\ worldDomainId \in issued /\ rank[worldDomainId] <= rank[p] /\ rank[p] < rank[c]
            BY <1>15, <2>0, <2>2, <3>1
        <3>3. rank[worldDomainId] <= rank[c]
            BY <1>15, <3>2
        <3> QED
            BY <3>2, <3>3
    <2> HIDE DEF T
    <2>3. B[n] \in SUBSET T
        BY <1>12, <2>1, <2>2, LoopKeeps
    <2> QED
        BY <2>3 DEF T
<1>17. domains[worldDomainId].parent \notin B[n]
    <2> SUFFICES ASSUME domains[worldDomainId].parent \in B[n] PROVE FALSE
        OBVIOUS
    <2>1. PICK p : p = domains[worldDomainId].parent
        OBVIOUS
    <2>2. p \in issued /\ worldDomainId \in issued
        BY <1>13, <2>1 DEF IInv, Types
    <2>3. rank[worldDomainId] <= rank[p] /\ rank[p] < rank[worldDomainId]
        BY <1>15, <1>16, <2>1, <2>2
    <2> QED
        BY <1>15, <2>2, <2>3
<1>18. ASSUME NEW d \in B[n]
       PROVE  Cardinality({p \in B[n] : d \in domains[p].children}) = IF d = worldDomainId THEN 0 ELSE 1
    <2>1. {p \in B[n] : d \in domains[p].children} = {p \in B[n] : p = domains[d].parent}
        BY <1>2, <1>13
    <2>2. CASE d = worldDomainId
        <3>1. {p \in B[n] : d \in domains[p].children} = {}
            BY <1>17, <2>1, <2>2
        <3> QED
            BY <2>2, <3>1, FS_EmptySet
    <2>3. CASE d # worldDomainId
        <3>1. domains[d].parent \in B[n]
            <4>1. PICK k \in 0 .. n : d \in G[k]
                BY <1>9, <1>12
            <4>2. k \in 1 .. n /\ k - 1 \in 0 .. n
                BY <1>5, <2>3, <4>1
            <4>3. domains[d].parent \in G[k - 1]
                BY <1>8, <4>1, <4>2
            <4> QED
                BY <1>9, <1>12, <4>2, <4>3
        <3>2. {p \in B[n] : d \in domains[p].children} = {domains[d].parent}
            BY <2>1, <3>1
        <3> QED
            BY <2>3, <3>2, FS_Singleton
    <2> QED
        BY <2>2, <2>3
<1> QED
    BY <1>10, <1>13, <1>14, <1>18

-----------------------------------------------------------------------------
(* Loops *)

\* IterationExists for a loop whose step depends on the turn.
IsIndexed(f, S, x, step, n) ==
    f \in [0 .. n -> S] /\ f[0] = x /\ \A k \in 1 .. n : f[k] = step[<<k, f[k - 1]>>]

LEMMA IndexedExists ==
    ASSUME NEW S, NEW x \in S, NEW n \in Nat, NEW step \in [(1 .. n) \X S -> S]
    PROVE  \E f : IsIndexed(f, S, x, step, n)
<1> DEFINE Good(m) == \E f \in [0 .. m -> S] :
                         f[0] = x /\ \A k \in 1 .. m : f[k] = step[<<k, f[k - 1]>>]
           Bad == {m \in 0 .. n : ~ Good(m)}
<1>1. Good(0)
    <2> DEFINE f == [k \in 0 .. 0 |-> x]
    <2>1. f \in [0 .. 0 -> S] /\ f[0] = x
        OBVIOUS
    <2>2. \A k \in 1 .. 0 : f[k] = step[<<k, f[k - 1]>>]
        OBVIOUS
    <2> QED
        BY <2>1, <2>2
<1>2. ASSUME NEW m \in 1 .. n, Good(m - 1) PROVE Good(m)
    <2>1. PICK f \in [0 .. m - 1 -> S] :
                  f[0] = x /\ \A k \in 1 .. m - 1 : f[k] = step[<<k, f[k - 1]>>]
        BY <1>2
    <2> DEFINE g == [k \in 0 .. m |-> IF k = m THEN step[<<m, f[m - 1]>>] ELSE f[k]]
    <2>2. g \in [0 .. m -> S]
        <3>1. step[<<m, f[m - 1]>>] \in S
            <4>1. m - 1 \in 0 .. m - 1
                OBVIOUS
            <4>2. <<m, f[m - 1]>> \in (1 .. n) \X S
                BY <2>1, <4>1
            <4> QED
                BY <4>2
        <3> QED
            BY <2>1, <3>1
    <2>3. g[0] = x
        <3>1. 0 \in 0 .. m /\ 0 # m
            OBVIOUS
        <3> QED
            BY <2>1, <3>1
    <2>4. ASSUME NEW k \in 1 .. m PROVE g[k] = step[<<k, g[k - 1]>>]
        <3>1. k \in 0 .. m /\ k - 1 \in 0 .. m /\ k - 1 # m /\ (k # m => k \in 1 .. m - 1)
            OBVIOUS
        <3>2. g[k - 1] = f[k - 1] /\ g[k] = IF k = m THEN step[<<m, f[m - 1]>>] ELSE f[k]
            BY <3>1
        <3> HIDE DEF g
        <3> QED
            BY <2>1, <3>1, <3>2
    <2> HIDE DEF g
    <2> QED
        BY <2>2, <2>3, <2>4
<1> HIDE DEF Good
<1>3. Bad = {}
    <2> SUFFICES ASSUME Bad # {} PROVE FALSE
        OBVIOUS
    <2>1. PICK m \in Bad : \A j \in Bad : m <= j
        <3>1. Bad \in SUBSET Nat
            OBVIOUS
        <3> HIDE DEF Bad
        <3> QED
            BY <3>1, LeastElement
    <2>2. m \in 1 .. n
        BY <1>1
    <2>3. Good(m - 1)
        BY <2>1, <2>2
    <2> QED
        BY <1>2, <2>2, <2>3
<1>4. Good(n)
    BY <1>3
<1> QED
    BY <1>4 DEF Good, IsIndexed

\* What holds at 0 and from each turn to the next holds at all of them.
LEMMA EveryTurn ==
    ASSUME NEW n \in Nat, NEW G, 0 \in G, \A k \in 1 .. n : k - 1 \in G => k \in G
    PROVE  \A k \in 0 .. n : k \in G
<1> DEFINE Bad == {k \in 0 .. n : k \notin G}
<1> SUFFICES ASSUME Bad # {} PROVE FALSE
    OBVIOUS
<1>1. Bad \in SUBSET Nat
    OBVIOUS
<1>2. PICK k \in Bad : \A j \in Bad : k <= j
    BY <1>1, LeastElement
<1>3. k \in 1 .. n /\ k \notin G /\ k - 1 \notin Bad
    BY <1>2
<1> QED
    BY <1>3

-----------------------------------------------------------------------------
(* The search for routes *)

Paths == Seq(Ids) \ {<<>>}
Searches == [visited : SUBSET Ids, queue : Seq(Paths), table : UNION {[D -> Paths] : D \in SUBSET Ids}]

LEMMA PathFacts ==
    ASSUME NEW p \in Paths
    PROVE  /\ Len(p) \in Nat \ {0} /\ DOMAIN p = 1 .. Len(p) /\ Last(p) = p[Len(p)] /\ Last(p) \in Ids
           /\ \A i \in DOMAIN p : p[i] \in Ids
           /\ \A t \in Ids : /\ Append(p, t) \in Paths /\ Len(Append(p, t)) = Len(p) + 1
                             /\ Append(p, t)[Len(p) + 1] = t /\ Last(Append(p, t)) = t
                             /\ \A i \in 1 .. Len(p) : Append(p, t)[i] = p[i]
<1>1. p \in Seq(Ids) /\ p # <<>>
    BY DEF Paths
<1>2. Len(p) \in Nat \ {0} /\ DOMAIN p = 1 .. Len(p) /\ \A i \in DOMAIN p : p[i] \in Ids
    BY <1>1
<1>3. Last(p) = p[Len(p)] /\ Last(p) \in Ids
    BY <1>2 DEF Last
<1>4. ASSUME NEW t \in Ids
      PROVE  /\ Append(p, t) \in Paths /\ Len(Append(p, t)) = Len(p) + 1
             /\ Append(p, t)[Len(p) + 1] = t /\ Last(Append(p, t)) = t
             /\ \A i \in 1 .. Len(p) : Append(p, t)[i] = p[i]
    <2>1. /\ Append(p, t) \in Seq(Ids) /\ Len(Append(p, t)) = Len(p) + 1
          /\ Append(p, t)[Len(p) + 1] = t
          /\ \A i \in 1 .. Len(p) : Append(p, t)[i] = p[i]
        BY <1>1
    <2>2. Append(p, t) # <<>>
        BY <1>2, <2>1
    <2> QED
        BY <2>1, <2>2 DEF Last, Paths
<1> QED
    BY <1>2, <1>3, <1>4

\* x is what the edge e makes of the search s while the path p is extended.
IsExtension(x, p, s, e) ==
    /\ x \in Searches /\ x.visited = s.visited /\ e.link[2] \in Ids
    /\ IF ~ e.healthy \/ e.link[1] # Last(p) \/ e.link[2] \in s.visited THEN x = s
       ELSE /\ x.queue = Append(s.queue, Append(p, e.link[2]))
            /\ DOMAIN x.table = DOMAIN s.table \cup {e.link[2]}
            /\ x.table[e.link[2]] = Append(p, e.link[2])
            /\ \A d \in DOMAIN s.table \ {e.link[2]} : x.table[d] = s.table[d]

LEMMA ExtendIs ==
    ASSUME NEW p \in Paths, NEW s \in Searches, NEW e \in MeshEdge, NEW x, x = Extend(p, s, e)
    PROVE  IsExtension(x, p, s, e)
<1>1. e.link[2] \in Ids
    BY MeshAssumption DEF MeshEdge
<1>2. PICK t \in Ids : t = e.link[2]
    BY <1>1
<1>3. PICK new \in Paths : new = Append(p, t)
    BY PathFacts
<1>4. CASE ~ e.healthy \/ e.link[1] # Last(p) \/ e.link[2] \in s.visited
    BY <1>1, <1>4 DEF Extend, IsExtension
<1>5. CASE ~ (~ e.healthy \/ e.link[1] # Last(p) \/ e.link[2] \in s.visited)
    <2>1. x = [s EXCEPT !.queue = Append(@, new),
                        !.table = [d \in DOMAIN @ \cup {t} |-> IF d = t THEN new ELSE @[d]]]
        BY <1>2, <1>3, <1>5 DEF Extend
    <2>2. PICK q : q = Append(s.queue, new)
        OBVIOUS
    <2>3. PICK table : table = [d \in DOMAIN s.table \cup {t} |-> IF d = t THEN new ELSE s.table[d]]
        OBVIOUS
    <2>4. x = [visited |-> s.visited, queue |-> q, table |-> table]
        BY <2>1, <2>2, <2>3 DEF Searches
    <2>5. q \in Seq(Paths)
        <3>1. s.queue \in Seq(Paths)
            BY DEF Searches
        <3> QED
            BY <2>2, <3>1
    <2>6. table \in UNION {[D -> Paths] : D \in SUBSET Ids}
        <3>1. PICK D \in SUBSET Ids : s.table \in [D -> Paths]
            BY DEF Searches
        <3>2. table \in [D \cup {t} -> Paths] /\ D \cup {t} \in SUBSET Ids
            BY <2>3, <3>1
        <3> QED
            BY <3>2
    <2>7. x \in Searches
        BY <2>4, <2>5, <2>6 DEF Searches
    <2>8. x.visited = s.visited /\ x.queue = q /\ x.table = table
        BY <2>4
    <2> QED
        BY <1>1, <1>2, <1>3, <1>5, <2>2, <2>3, <2>7, <2>8 DEF IsExtension
<1> QED
    BY <1>4, <1>5

\* What Dequeue makes of a search that visits the end of the path it takes.
Follows(f, p, r, es) ==
    /\ f \in [0 .. Len(es) -> Searches] /\ f[0] = r
    /\ \A k \in 1 .. Len(es) : f[k] = Extend(p, f[k - 1], es[k])

LEMMA DequeueIs ==
    ASSUME NEW s \in Searches, s.queue # <<>>, NEW es \in Seq(MeshEdge), NEW p, p = Head(s.queue),
           NEW x, x = Dequeue(s, es)
    PROVE  /\ p \in Paths /\ Tail(s.queue) \in Seq(Paths)
           /\ Last(p) \in s.visited => x = [visited |-> s.visited, queue |-> Tail(s.queue), table |-> s.table]
           /\ Last(p) \notin s.visited =>
                 \E f : /\ Follows(f, p, [visited |-> s.visited \cup {Last(p)}, queue |-> Tail(s.queue),
                                          table |-> s.table], es)
                        /\ x = f[Len(es)]
<1>0. s.queue \in Seq(Paths)
    BY DEF Searches
<1>1. PICK q \in Seq(Paths) : q = Tail(s.queue)
    BY <1>0, HeadTailProperties
<1>2. p \in Paths
    BY <1>0
<1>3. [s EXCEPT !.queue = Tail(@)] = [visited |-> s.visited, queue |-> q, table |-> s.table]
    <2>1. PICK a, b, c : s = [visited |-> a, queue |-> b, table |-> c]
        BY DEF Searches
    <2>2. [s EXCEPT !.queue = q] = [visited |-> a, queue |-> q, table |-> c]
        BY ONLY <2>1
    <2>3. s.visited = a /\ s.table = c
        BY ONLY <2>1
    <2> QED
        BY <1>1, <2>2, <2>3
<1>4. ASSUME Last(p) \in s.visited
      PROVE  x = [visited |-> s.visited, queue |-> q, table |-> s.table]
    BY <1>3, <1>4 DEF Dequeue
<1>5. ASSUME Last(p) \notin s.visited
      PROVE  \E f : /\ Follows(f, p, [visited |-> s.visited \cup {Last(p)}, queue |-> q, table |-> s.table], es)
                    /\ x = f[Len(es)]
    <2>1. PICK m \in Nat : m = Len(es)
        OBVIOUS
    <2>2. PICK r : r = [visited |-> s.visited \cup {Last(p)}, queue |-> q, table |-> s.table]
        OBVIOUS
    <2>3. r \in Searches
        <3>1. PICK T : T = UNION {[D -> Paths] : D \in SUBSET Ids}
            OBVIOUS
        <3>2. Searches = [visited : SUBSET Ids, queue : Seq(Paths), table : T]
            BY ONLY <3>1 DEF Searches
        <3>3. PICK v, c : v = s.visited \cup {Last(p)} /\ c = s.table
            OBVIOUS
        <3>4. s.visited \in SUBSET Ids /\ s.table \in T
            BY <3>2
        <3>5. Last(p) \in Ids
            BY <1>2, PathFacts
        <3>6. v \in SUBSET Ids /\ c \in T
            BY <3>3, <3>4, <3>5
        <3>7. r = [visited |-> v, queue |-> q, table |-> c]
            BY <2>2, <3>3
        <3>8. q \in Seq(Paths)
            BY <1>1
        <3> QED
            BY ONLY <3>2, <3>6, <3>7, <3>8
    <2>4. r = [[s EXCEPT !.queue = Tail(@)] EXCEPT !.visited = @ \cup {Last(p)}]
        <3>1. PICK y : y = [s EXCEPT !.queue = Tail(@)]
            OBVIOUS
        <3>2. y = [visited |-> s.visited, queue |-> q, table |-> s.table]
            BY ONLY <1>3, <3>1
        <3>3. [y EXCEPT !.visited = @ \cup {Last(p)}] = r
            <4>1. PICK a, c, v : a = s.visited /\ c = s.table /\ v = a \cup {Last(p)}
                OBVIOUS
            <4>2. y = [visited |-> a, queue |-> q, table |-> c] /\ r = [visited |-> v, queue |-> q, table |-> c]
                BY <2>2, <3>2, <4>1
            <4>3. y.visited \cup {Last(p)} = v
                BY <4>1, <4>2
            <4>4. [y EXCEPT !.visited = v] = r
                BY ONLY <4>2
            <4> QED
                BY <4>3, <4>4
        <3> QED
            BY <3>1, <3>3
    <2> DEFINE step == [y \in (1 .. m) \X Searches |-> Extend(p, y[2], es[y[1]])]
    <2>5. step \in [(1 .. m) \X Searches -> Searches]
        <3>1. ASSUME NEW y \in (1 .. m) \X Searches PROVE Extend(p, y[2], es[y[1]]) \in Searches
            <4>1. y[2] \in Searches /\ es[y[1]] \in MeshEdge
                BY <2>1
            <4> QED
                BY <1>2, <4>1, ExtendIs DEF IsExtension
        <3> QED
            BY <3>1
    <2>6. \A k \in 1 .. m, z \in Searches : step[<<k, z>>] = Extend(p, z, es[k])
        OBVIOUS
    <2> HIDE DEF step
    <2>7. PICK f : IsIndexed(f, Searches, r, step, m)
        BY ONLY m \in Nat, <2>3, <2>5, IndexedExists
    <2> DEFINE Turn(g) == [k \in 0 .. Len(es) |->
                  IF k = 0 THEN [[s EXCEPT !.queue = Tail(@)] EXCEPT !.visited = @ \cup {Last(p)}]
                  ELSE Extend(p, g[k - 1], es[k])]
               F == CHOOSE g : g = Turn(g)
    <2>8. x = F[Len(es)]
        BY <1>5 DEF Dequeue
    <2>9. ASSUME NEW k \in 1 .. m PROVE f[k] = Extend(p, f[k - 1], es[k]) /\ k - 1 \in 0 .. m
        <3>1. k - 1 \in 0 .. m
            OBVIOUS
        <3>2. f[k - 1] \in Searches /\ f[k] = step[<<k, f[k - 1]>>]
            BY <2>7, <3>1 DEF IsIndexed
        <3> QED
            BY <2>6, <3>1, <3>2
    <2>10. f = Turn(f)
        <3>1. f = [k \in 0 .. m |-> f[k]] /\ f[0] = r
            BY <2>7 DEF IsIndexed
        <3>2. PICK y : y = [[s EXCEPT !.queue = Tail(@)] EXCEPT !.visited = @ \cup {Last(p)}]
            OBVIOUS
        <3>3. ASSUME NEW k \in 0 .. m PROVE f[k] = IF k = 0 THEN y ELSE Extend(p, f[k - 1], es[k])
            <4>1. CASE k = 0
                BY <2>4, <3>1, <3>2, <4>1
            <4>2. CASE k # 0
                <5>1. k \in 1 .. m
                    BY <4>2
                <5> QED
                    BY <2>9, <4>2, <5>1
            <4> QED
                BY <4>1, <4>2
        <3>4. f = [k \in 0 .. m |-> IF k = 0 THEN y ELSE Extend(p, f[k - 1], es[k])]
            BY ONLY <3>1, <3>3
        <3> QED
            BY <2>1, <3>2, <3>4
    <2>11. F = Turn(F)
        <3> HIDE DEF Turn
        <3> QED
            BY <2>10
    <2> HIDE DEF F
    <2>12. F[0] = r
        BY <2>1, <2>4, <2>11
    <2>13. ASSUME NEW k \in 1 .. m PROVE F[k] = Extend(p, F[k - 1], es[k])
        BY <2>1, <2>11
    <2>14. \A k \in 0 .. m : F[k] \in Searches
        <3>1. ASSUME NEW k \in 1 .. m, F[k - 1] \in Searches PROVE F[k] \in Searches
            <4>1. PICK e \in MeshEdge : e = es[k]
                BY <2>1
            <4>2. PICK z \in Searches : z = F[k - 1]
                BY <3>1
            <4>3. F[k] = Extend(p, z, e)
                BY <2>13, <4>1, <4>2
            <4> QED
                BY <1>2, <4>3, ExtendIs DEF IsExtension
        <3> HIDE DEF Turn
        <3> QED
            BY <2>3, <2>12, <3>1, LoopKeeps
    <2>15. F \in [0 .. m -> Searches]
        <3>1. F = [k \in 0 .. m |-> F[k]]
            BY <2>1, <2>11
        <3> HIDE DEF Turn
        <3> QED
            BY <2>14, <3>1
    <2> HIDE DEF Turn
    <2>16. Follows(F, p, r, es)
        BY <2>1, <2>12, <2>13, <2>15 DEF Follows
    <2> QED
        BY <2>2, <2>8, <2>16
<1> QED
    BY <1>1, <1>2, <1>4, <1>5

\* The links of healthy edges.
Leads(es) == {es[i].link : i \in {j \in DOMAIN es : es[j].healthy}}

\* A path without a loop along healthy edges, all but its end visited.
PathOK(p, w, es, V) ==
    /\ p \in Paths /\ p[1] = w
    /\ \A i, j \in DOMAIN p : p[i] = p[j] => i = j
    /\ \A i \in 1 .. Len(p) - 1 : <<p[i], p[i + 1]>> \in Leads(es) /\ p[i] \in V

Found(s, w) == {w} \cup DOMAIN s.table

\* What holds of the paths of a search, also while the edges are looked at.
RoutesOK(s, w, es) ==
    /\ s \in Searches
    /\ \A k \in DOMAIN s.queue : PathOK(s.queue[k], w, es, s.visited) /\ Last(s.queue[k]) \in Found(s, w)
    /\ \A d \in DOMAIN s.table : PathOK(s.table[d], w, es, s.visited) /\ Last(s.table[d]) = d /\ d # w
    /\ s.visited \subseteq Found(s, w)
    /\ \A d \in Found(s, w) : d \in s.visited \/ \E k \in DOMAIN s.queue : Last(s.queue[k]) = d

Leaving(es, c, k) == {j \in 1 .. k : es[j].link[1] = c}

\* After the first k edges were looked at from c, with a queue of length n before.
FollowOK(s, w, es, c, V, n, k) ==
    /\ RoutesOK(s, w, es) /\ s.visited = V /\ w \in V /\ c \in V
    /\ \A j \in DOMAIN es : es[j].healthy /\ es[j].link[1] \in V /\ (es[j].link[1] = c => j <= k)
                                => es[j].link[2] \in Found(s, w)
    /\ Len(s.queue) <= n + Cardinality(Leaving(es, c, k))

LEMMA PathExtended ==
    ASSUME NEW p, NEW w, NEW es \in Seq(MeshEdge), NEW V, PathOK(p, w, es, V), Last(p) \in V,
           NEW i \in DOMAIN es, es[i].healthy, es[i].link[1] = Last(p), es[i].link[2] \notin V
    PROVE  PathOK(Append(p, es[i].link[2]), w, es, V)
<1>1. es[i] \in MeshEdge
    OBVIOUS
<1>2. PICK t \in Ids : t = es[i].link[2] /\ <<Last(p), t>> = es[i].link
    BY <1>1, MeshAssumption DEF MeshEdge
<1>3. <<Last(p), t>> \in Leads(es)
    BY <1>2 DEF Leads
<1>4. PICK n \in Nat \ {0} : n = Len(p) /\ DOMAIN p = 1 .. n /\ Last(p) = p[n] /\ p \in Paths
    BY PathFacts DEF PathOK
<1>5. PICK q : q = Append(p, t)
    OBVIOUS
<1>6. /\ q \in Paths /\ Len(q) = n + 1 /\ DOMAIN q = 1 .. n + 1 /\ q[n + 1] = t
      /\ \A k \in 1 .. n : q[k] = p[k]
    <2>1. q \in Paths /\ Len(q) = n + 1 /\ q[n + 1] = t /\ \A k \in 1 .. n : q[k] = p[k]
        BY <1>4, <1>5, PathFacts
    <2>2. DOMAIN q = 1 .. Len(q)
        BY <2>1, PathFacts
    <2> QED
        BY <2>1, <2>2
<1>7. \A k \in 1 .. n : p[k] \in V /\ p[k] # t
    <2> SUFFICES ASSUME NEW k \in 1 .. n PROVE p[k] \in V
        BY <1>2
    <2>1. CASE k = n
        BY <1>4, <2>1
    <2>2. CASE k # n
        <3>1. k \in 1 .. Len(p) - 1
            BY <1>4, <2>2
        <3> QED
            BY <3>1 DEF PathOK
    <2> QED
        BY <2>1, <2>2
<1>8. q[1] = w
    BY <1>4, <1>6 DEF PathOK
<1>9. ASSUME NEW j \in DOMAIN q, NEW k \in DOMAIN q, q[j] = q[k] PROVE j = k
    <2>1. j \in 1 .. n \/ j = n + 1
        BY <1>6
    <2>2. k \in 1 .. n \/ k = n + 1
        BY <1>6
    <2>3. CASE j \in 1 .. n /\ k \in 1 .. n
        BY <1>4, <1>6, <1>9, <2>3 DEF PathOK
    <2> QED
        BY <1>6, <1>7, <1>9, <2>1, <2>2, <2>3
<1>10. ASSUME NEW k \in 1 .. Len(q) - 1 PROVE <<q[k], q[k + 1]>> \in Leads(es) /\ q[k] \in V
    <2>1. k \in 1 .. n
        BY <1>6
    <2>2. CASE k = n
        BY <1>3, <1>4, <1>6, <1>7, <2>1, <2>2
    <2>3. CASE k # n
        <3>1. k \in 1 .. Len(p) - 1 /\ k + 1 \in 1 .. n
            BY <1>4, <2>1, <2>3
        <3>2. <<p[k], p[k + 1]>> \in Leads(es)
            BY <3>1 DEF PathOK
        <3> QED
            BY <1>6, <1>7, <2>1, <3>1, <3>2
    <2> QED
        BY <2>2, <2>3
<1> QED
    BY <1>2, <1>5, <1>6, <1>8, <1>9, <1>10 DEF PathOK

LEMMA LeavingMore ==
    ASSUME NEW es, NEW c, NEW k \in Nat \ {0}
    PROVE  /\ Cardinality(Leaving(es, c, k - 1)) \in Nat /\ Cardinality(Leaving(es, c, k)) \in Nat
           /\ Cardinality(Leaving(es, c, k)) = Cardinality(Leaving(es, c, k - 1))
                                                 + IF es[k].link[1] = c THEN 1 ELSE 0
<1>1. IsFiniteSet(1 .. k - 1)
    BY FS_Interval
<1>2. PICK A : A = Leaving(es, c, k - 1)
    OBVIOUS
<1>3. A \subseteq 1 .. k - 1 /\ k \notin A
    BY <1>2 DEF Leaving
<1>4. IsFiniteSet(A) /\ Cardinality(A) \in Nat
    BY <1>1, <1>3, FS_Subset, FS_CardinalityType
<1>5. 1 .. k = (1 .. k - 1) \cup {k}
    OBVIOUS
<1>6. CASE es[k].link[1] = c
    <2>1. Leaving(es, c, k) = A \cup {k}
        BY <1>2, <1>5, <1>6 DEF Leaving
    <2>2. Cardinality(A \cup {k}) = Cardinality(A) + 1
        BY <1>3, <1>4, FS_AddElement
    <2> QED
        BY <1>2, <1>4, <1>6, <2>1, <2>2
<1>7. CASE es[k].link[1] # c
    <2>1. Leaving(es, c, k) = A
        BY <1>2, <1>5, <1>7 DEF Leaving
    <2> QED
        BY <1>2, <1>4, <1>7, <2>1
<1> QED
    BY <1>6, <1>7

LEMMA FollowKeeps ==
    ASSUME NEW s, NEW w \in Ids, NEW es \in Seq(MeshEdge), NEW p, NEW V, NEW n \in Nat, NEW k \in DOMAIN es,
           PathOK(p, w, es, V), FollowOK(s, w, es, Last(p), V, n, k - 1), NEW x, x = Extend(p, s, es[k])
    PROVE  FollowOK(x, w, es, Last(p), V, n, k)
<1>0. PICK c : c = Last(p)
    OBVIOUS
<1>1. /\ s \in Searches /\ s.visited = V /\ w \in V /\ c \in V /\ p \in Paths
      /\ es[k] \in MeshEdge /\ k \in Nat \ {0}
    BY <1>0 DEF FollowOK, RoutesOK, PathOK
<1>2. PICK t : t = es[k].link[2]
    OBVIOUS
<1>3. /\ x \in Searches /\ x.visited = V /\ t \in Ids
      /\ IF ~ es[k].healthy \/ es[k].link[1] # c \/ t \in V THEN x = s
         ELSE /\ x.queue = Append(s.queue, Append(p, t))
              /\ DOMAIN x.table = DOMAIN s.table \cup {t}
              /\ x.table[t] = Append(p, t)
              /\ \A d \in DOMAIN s.table \ {t} : x.table[d] = s.table[d]
    <2>1. PICK e \in MeshEdge : e = es[k]
        BY <1>1
    <2>2. x = Extend(p, s, e)
        BY <2>1
    <2>3. IsExtension(x, p, s, e)
        BY <1>1, <2>2, ExtendIs
    <2>4. t = e.link[2] /\ c = Last(p) /\ s.visited = V
        BY <1>0, <1>1, <1>2, <2>1
    <2> QED
        BY ONLY <2>1, <2>3, <2>4 DEF IsExtension
<1>4. /\ Cardinality(Leaving(es, c, k - 1)) \in Nat /\ Cardinality(Leaving(es, c, k)) \in Nat
      /\ Cardinality(Leaving(es, c, k)) = Cardinality(Leaving(es, c, k - 1))
                                            + IF es[k].link[1] = c THEN 1 ELSE 0
    BY <1>1, LeavingMore
<1>5. PICK q, L : q = s.queue /\ L = Len(q)
    OBVIOUS
<1>6. q \in Seq(Paths) /\ L \in Nat /\ DOMAIN q = 1 .. L /\ L <= n + Cardinality(Leaving(es, c, k - 1))
    <2>1. q \in Seq(Paths)
        BY <1>1, <1>5 DEF Searches
    <2>2. L <= n + Cardinality(Leaving(es, c, k - 1))
        BY <1>0, <1>5 DEF FollowOK
    <2> QED
        BY <1>5, <2>1, <2>2
<1>7. ASSUME NEW j \in DOMAIN es, es[j].healthy, es[j].link[1] \in V, es[j].link[1] = c => j <= k - 1
      PROVE  es[j].link[2] \in Found(s, w)
    BY <1>0, <1>7 DEF FollowOK
<1>8. CASE ~ es[k].healthy \/ es[k].link[1] # c \/ t \in V
    <2>1. x = s
        BY <1>3, <1>8
    <2>2. ASSUME NEW j \in DOMAIN es, es[j].healthy, es[j].link[1] \in V, es[j].link[1] = c => j <= k
          PROVE  es[j].link[2] \in Found(s, w)
        <3>1. CASE j = k /\ es[k].link[1] = c
            <4>1. t \in V /\ V \subseteq Found(s, w)
                BY <1>1, <1>8, <2>2, <3>1 DEF FollowOK, RoutesOK
            <4> QED
                BY <1>2, <3>1, <4>1
        <3>2. CASE j # k \/ es[j].link[1] # c
            <4>1. es[j].link[1] = c => j <= k - 1
                <5>1. j \in Int /\ k \in Int
                    OBVIOUS
                <5> QED
                    BY <2>2, <3>2, <5>1
            <4> QED
                BY <1>7, <2>2, <4>1
        <3> QED
            BY <3>1, <3>2
    <2>3. Len(s.queue) <= n + Cardinality(Leaving(es, c, k))
        BY <1>4, <1>5, <1>6
    <2>4. RoutesOK(s, w, es)
        BY DEF FollowOK
    <2> QED
        BY <1>0, <1>1, <2>1, <2>2, <2>3, <2>4 DEF FollowOK
<1>9. CASE ~ (~ es[k].healthy \/ es[k].link[1] # c \/ t \in V)
    <2>1. PICK new : new = Append(p, t)
        OBVIOUS
    <2>2. /\ x.queue = Append(q, new) /\ DOMAIN x.table = DOMAIN s.table \cup {t} /\ x.table[t] = new
          /\ \A d \in DOMAIN s.table \ {t} : x.table[d] = s.table[d]
        BY <1>3, <1>5, <1>9, <2>1
    <2>3. PathOK(new, w, es, V)
        BY <1>0, <1>1, <1>2, <1>9, <2>1, PathExtended
    <2>4. new \in Paths /\ Last(new) = t /\ t # w
        BY <1>1, <1>3, <1>9, <2>1, PathFacts
    <2>5. PICK r : r = x.queue
        OBVIOUS
    <2>6. Len(r) = L + 1 /\ DOMAIN r = 1 .. L + 1 /\ r[L + 1] = new /\ \A j \in 1 .. L : r[j] = q[j]
        BY <1>5, <1>6, <2>2, <2>4, <2>5
    <2>7. Found(x, w) = Found(s, w) \cup {t}
        BY <2>2 DEF Found
    <2>8. ASSUME NEW j \in DOMAIN r PROVE PathOK(r[j], w, es, V) /\ Last(r[j]) \in Found(x, w)
        <3>1. CASE j = L + 1
            BY <2>3, <2>4, <2>6, <2>7, <3>1
        <3>2. CASE j \in DOMAIN q
            <4>1. PathOK(q[j], w, es, V) /\ Last(q[j]) \in Found(s, w)
                BY <1>1, <1>5, <3>2 DEF FollowOK, RoutesOK
            <4> QED
                BY <1>6, <2>6, <2>7, <3>2, <4>1
        <3> QED
            BY <1>6, <2>6, <3>1, <3>2
    <2>9. ASSUME NEW d \in DOMAIN x.table PROVE PathOK(x.table[d], w, es, V) /\ Last(x.table[d]) = d /\ d # w
        <3>1. CASE d = t
            BY <2>2, <2>3, <2>4, <3>1
        <3>2. CASE d # t
            <4>1. d \in DOMAIN s.table /\ x.table[d] = s.table[d]
                BY <2>2, <3>2
            <4>2. PathOK(s.table[d], w, es, V) /\ Last(s.table[d]) = d /\ d # w
                BY <1>1, <4>1 DEF FollowOK, RoutesOK
            <4> QED
                BY <4>1, <4>2
        <3> QED
            BY <3>1, <3>2
    <2>10. V \subseteq Found(x, w)
        BY <1>1, <2>7 DEF FollowOK, RoutesOK
    <2>11. ASSUME NEW d \in Found(x, w) PROVE d \in V \/ \E j \in DOMAIN r : Last(r[j]) = d
        <3>1. CASE d = t
            <4>1. L + 1 \in DOMAIN r
                BY <1>6, <2>6
            <4> QED
                BY <2>4, <2>6, <3>1, <4>1
        <3>2. CASE d \in Found(s, w)
            <4>1. d \in V \/ \E j \in DOMAIN q : Last(q[j]) = d
                BY <1>1, <1>5, <3>2 DEF FollowOK, RoutesOK
            <4> QED
                BY <1>6, <2>6, <4>1
        <3> QED
            BY <2>7, <3>1, <3>2
    <2>12. RoutesOK(x, w, es)
        BY <1>3, <2>5, <2>8, <2>9, <2>10, <2>11 DEF RoutesOK
    <2>13. ASSUME NEW j \in DOMAIN es, es[j].healthy, es[j].link[1] \in V, es[j].link[1] = c => j <= k
           PROVE  es[j].link[2] \in Found(x, w)
        <3>1. CASE j = k
            BY <1>2, <2>7, <3>1
        <3>2. CASE j # k
            <4>1. es[j].link[1] = c => j <= k - 1
                <5>1. j \in Int /\ k \in Int
                    OBVIOUS
                <5> QED
                    BY <2>13, <3>2, <5>1
            <4> QED
                BY <1>7, <2>7, <2>13, <4>1
        <3> QED
            BY <3>1, <3>2
    <2>14. Len(x.queue) <= n + Cardinality(Leaving(es, c, k))
        <3>1. es[k].link[1] = c
            BY <1>9
        <3> QED
            BY <1>4, <1>6, <2>5, <2>6, <3>1
    <2> QED
        BY <1>0, <1>1, <1>3, <2>12, <2>13, <2>14 DEF FollowOK
<1> QED
    BY <1>8, <1>9

\* Edges that leave domains not visited yet.
Unseen(es, V) == {j \in DOMAIN es : es[j].link[1] \notin V}

\* What holds of a search between the turns of its loop.
SearchOK(s, w, es) ==
    /\ RoutesOK(s, w, es)
    /\ \A j \in DOMAIN es : es[j].healthy /\ es[j].link[1] \in s.visited => es[j].link[2] \in Found(s, w)
    /\ w \notin s.visited => s.visited = {} /\ s.queue = <<<<w>>>> /\ DOMAIN s.table = {}

Turns(s, es) == Len(s.queue) + Cardinality(Unseen(es, s.visited))

LEMMA TurnsCounted ==
    ASSUME NEW s \in Searches, NEW es \in Seq(MeshEdge)
    PROVE  /\ Len(s.queue) \in Nat /\ Turns(s, es) \in Nat
           /\ IsFiniteSet(Unseen(es, s.visited)) /\ Cardinality(Unseen(es, s.visited)) \in Nat
<1>1. Len(s.queue) \in Nat
    <2>1. s.queue \in Seq(Paths)
        BY DEF Searches
    <2> QED
        BY <2>1
<1>2. DOMAIN es = 1 .. Len(es) /\ Len(es) \in Nat
    OBVIOUS
<1>3. IsFiniteSet(DOMAIN es)
    BY <1>2, FS_Interval
<1>4. IsFiniteSet(Unseen(es, s.visited)) /\ Cardinality(Unseen(es, s.visited)) \in Nat
    BY <1>3, FS_Subset, FS_CardinalityType DEF Unseen
<1> QED
    BY <1>1, <1>4 DEF Turns

\* A path that is followed or dropped stays one of the search.
LEMMA PathsGrow ==
    ASSUME NEW p, NEW w, NEW es, NEW V, NEW W, V \subseteq W, PathOK(p, w, es, V)
    PROVE  PathOK(p, w, es, W)
BY DEF PathOK

\* r is the search s after its first path p was taken and the end of it visited.
IsRest(r, s, p, W) ==
    /\ p = Head(s.queue) /\ W = s.visited \cup {Last(p)}
    /\ r = [visited |-> W, queue |-> Tail(s.queue), table |-> s.table]

\* What is known of it.
RestFacts(r, s, p, W, w, es) ==
    /\ RoutesOK(r, w, es) /\ w \in W /\ Found(r, w) = Found(s, w)
    /\ PathOK(p, w, es, W) /\ Len(r.queue) = Len(s.queue) - 1 /\ Last(p) \in W

LEMMA RestOK ==
    ASSUME NEW s, NEW w \in Ids, NEW es \in Seq(MeshEdge), SearchOK(s, w, es), s.queue # <<>>,
           NEW v, NEW W, NEW r, IsRest(r, s, v, W)
    PROVE  RestFacts(r, s, v, W, w, es)
<1>1. s \in Searches /\ RoutesOK(s, w, es)
    BY DEF SearchOK, RoutesOK
<1>2. PICK q, L : q = s.queue /\ L = Len(q)
    OBVIOUS
<1>3. PICK u : u = Tail(q) /\ v = Head(q)
    BY <1>2 DEF IsRest
<1>4. q \in Seq(Paths) /\ q # <<>>
    BY <1>1, <1>2 DEF Searches
<1>5. /\ L \in Nat \ {0} /\ DOMAIN q = 1 .. L /\ u \in Seq(Paths) /\ Len(u) = L - 1 /\ DOMAIN u = 1 .. L - 1
      /\ v = q[1] /\ v \in Paths /\ \A k \in 1 .. L - 1 : u[k] = q[k + 1]
    <2>1. L \in Nat \ {0} /\ DOMAIN q = 1 .. L /\ v = q[1] /\ v \in Paths
        BY <1>2, <1>3, <1>4
    <2>2. u \in Seq(Paths) /\ Len(u) = L - 1 /\ \A k \in 1 .. L - 1 : u[k] = q[k + 1]
        BY <1>2, <1>3, <1>4, HeadTailProperties
    <2>3. DOMAIN u = 1 .. L - 1
        BY <2>2
    <2> QED
        BY <2>1, <2>2, <2>3
<1>6. PICK c : c = Last(v)
    OBVIOUS
<1>7. /\ r.visited = W /\ r.queue = u /\ r.table = s.table /\ W = s.visited \cup {c} /\ c \in Ids
      /\ Found(r, w) = Found(s, w)
    BY <1>2, <1>3, <1>5, <1>6, PathFacts DEF Found, IsRest
<1>8. \A k \in DOMAIN q : PathOK(q[k], w, es, W) /\ Last(q[k]) \in Found(s, w)
    BY <1>1, <1>2, <1>7, PathsGrow DEF RoutesOK
<1>9. PathOK(v, w, es, W) /\ c \in Found(s, w)
    <2>1. 1 \in DOMAIN q
        BY <1>5
    <2> QED
        BY <1>5, <1>6, <1>8, <2>1
<1>10. \A k \in DOMAIN u : PathOK(u[k], w, es, W) /\ Last(u[k]) \in Found(s, w)
    <2> SUFFICES ASSUME NEW k \in 1 .. L - 1 PROVE PathOK(u[k], w, es, W) /\ Last(u[k]) \in Found(s, w)
        BY <1>5
    <2>1. k + 1 \in DOMAIN q /\ u[k] = q[k + 1]
        BY <1>5
    <2> QED
        BY <1>8, <2>1
<1>11. \A d \in DOMAIN s.table : PathOK(s.table[d], w, es, W) /\ Last(s.table[d]) = d /\ d # w
    BY <1>1, <1>7, PathsGrow DEF RoutesOK
<1>12. ASSUME NEW d \in Found(s, w) PROVE d \in W \/ \E k \in DOMAIN u : Last(u[k]) = d
    <2>1. CASE d \in s.visited
        BY <1>7, <2>1
    <2>2. CASE d \notin s.visited
        <3>1. PICK k \in DOMAIN q : Last(q[k]) = d
            BY <1>1, <1>2, <1>12, <2>2 DEF RoutesOK
        <3>2. CASE k = 1
            BY <1>5, <1>6, <1>7, <3>1, <3>2
        <3>3. CASE k # 1
            <4>1. k - 1 \in 1 .. L - 1 /\ (k - 1) + 1 = k
                BY <1>5, <3>3
            <4>2. u[k - 1] = q[k]
                BY <1>5, <4>1
            <4> QED
                BY <1>5, <3>1, <4>1, <4>2
        <3> QED
            BY <3>2, <3>3
    <2> QED
        BY <2>1, <2>2
<1>13. w \in W
    <2>1. CASE w \in s.visited
        BY <1>7, <2>1
    <2>2. CASE w \notin s.visited
        <3>1. q = <<<<w>>>>
            BY <1>2, <2>2 DEF SearchOK
        <3>2. v = <<w>>
            BY <1>5, <3>1
        <3>3. c = w
            BY <1>6, <3>2 DEF Last
        <3> QED
            BY <1>7, <3>3
    <2> QED
        BY <2>1, <2>2
<1>14. r \in Searches
    <2>1. s.visited \in SUBSET Ids /\ s.table \in UNION {[D -> Paths] : D \in SUBSET Ids}
        BY <1>1 DEF Searches
    <2>2. W \in SUBSET Ids
        BY <1>7, <2>1
    <2> QED
        <3>1. r = [visited |-> W, queue |-> u, table |-> s.table]
            BY <1>2, <1>3 DEF IsRest
        <3> QED
            BY <1>5, <2>1, <2>2, <3>1 DEF Searches
<1>15. W \subseteq Found(s, w)
    BY <1>1, <1>7, <1>9 DEF RoutesOK
<1>16. RoutesOK(r, w, es)
    BY <1>7, <1>10, <1>11, <1>12, <1>14, <1>15 DEF RoutesOK
<1> QED
    BY <1>2, <1>3, <1>5, <1>6, <1>7, <1>9, <1>13, <1>16 DEF RestFacts

LEMMA DequeueKeeps ==
    ASSUME NEW s, NEW w \in Ids, NEW es \in Seq(MeshEdge), SearchOK(s, w, es), s.queue # <<>>,
           NEW x, x = Dequeue(s, es)
    PROVE  SearchOK(x, w, es) /\ Turns(x, es) <= Turns(s, es) - 1
<1>1. s \in Searches /\ RoutesOK(s, w, es)
    BY DEF SearchOK, RoutesOK
<1>2. PICK p, c : p = Head(s.queue) /\ c = Last(p)
    OBVIOUS
<1>3. PICK W : W = s.visited \cup {c}
    OBVIOUS
<1>4. PICK r : r = [visited |-> W, queue |-> Tail(s.queue), table |-> s.table]
    OBVIOUS
<1>5. /\ RoutesOK(r, w, es) /\ w \in W /\ Found(r, w) = Found(s, w)
      /\ PathOK(p, w, es, W) /\ Len(r.queue) = Len(s.queue) - 1 /\ c \in W
    <2>1. IsRest(r, s, p, W)
        BY <1>2, <1>3, <1>4 DEF IsRest
    <2>2. RestFacts(r, s, p, W, w, es)
        BY <2>1, RestOK
    <2> QED
        BY <1>2, <2>2 DEF RestFacts
<1>6. r \in Searches /\ r.visited = W /\ r.queue = Tail(s.queue) /\ r.table = s.table
    BY <1>4, <1>5 DEF RoutesOK
<1>7. CASE c \in s.visited
    <2>1. x = r
        <3>1. x = [visited |-> s.visited, queue |-> Tail(s.queue), table |-> s.table]
            BY <1>1, <1>2, <1>7, DequeueIs
        <3>2. W = s.visited
            BY <1>3, <1>7
        <3> QED
            BY <1>4, <3>1, <3>2
    <2>2. W = s.visited
        BY <1>3, <1>7
    <2>3. SearchOK(r, w, es)
        <3>1. ASSUME NEW j \in DOMAIN es, es[j].healthy, es[j].link[1] \in W PROVE es[j].link[2] \in Found(r, w)
            BY <1>5, <2>2, <3>1 DEF SearchOK
        <3> QED
            BY <1>5, <1>6, <3>1 DEF SearchOK
    <2>4. Turns(r, es) = Turns(s, es) - 1
        <3>1. Len(s.queue) \in Nat /\ Cardinality(Unseen(es, s.visited)) \in Nat
            BY <1>1, TurnsCounted
        <3> QED
            BY <1>5, <1>6, <2>2, <3>1 DEF Turns
    <2>5. Turns(s, es) \in Nat
        BY <1>1, TurnsCounted
    <2> QED
        BY <2>1, <2>3, <2>4, <2>5
<1>8. CASE c \notin s.visited
    <2>1. PICK m, n \in Nat : m = Len(es) /\ n = Len(r.queue)
        <3>1. Len(r.queue) \in Nat
            BY <1>6, TurnsCounted
        <3>2. Len(es) \in Nat
            OBVIOUS
        <3> QED
            BY <3>1, <3>2
    <2>2. PICK f : Follows(f, p, r, es) /\ x = f[m]
        <3>1. Last(p) \notin s.visited /\ p = Head(s.queue)
            BY <1>2, <1>8
        <3>2. \E f : /\ Follows(f, p, [visited |-> s.visited \cup {Last(p)}, queue |-> Tail(s.queue),
                                       table |-> s.table], es)
                     /\ x = f[Len(es)]
            BY <1>1, <3>1, DequeueIs
        <3>3. r = [visited |-> s.visited \cup {Last(p)}, queue |-> Tail(s.queue), table |-> s.table]
            BY <1>2, <1>3, <1>4
        <3> QED
            BY <2>1, <3>2, <3>3
    <2>3. DOMAIN es = 1 .. m
        BY <2>1
    <2>4. FollowOK(r, w, es, c, W, n, 0)
        <3>1. ASSUME NEW j \in DOMAIN es, es[j].healthy, es[j].link[1] \in W, es[j].link[1] = c => j <= 0
              PROVE  es[j].link[2] \in Found(r, w)
            <4>1. es[j].link[1] \in s.visited
                <5>1. j \in 1 .. m /\ ~ (j <= 0)
                    BY <2>3
                <5> QED
                    BY <1>3, <3>1, <5>1
            <4> QED
                BY <1>5, <3>1, <4>1 DEF SearchOK
        <3>2. Leaving(es, c, 0) = {}
            BY DEF Leaving
        <3>3. Len(r.queue) <= n + Cardinality(Leaving(es, c, 0))
            <4>1. Cardinality(Leaving(es, c, 0)) = 0
                BY <3>2, FS_EmptySet
            <4> QED
                BY ONLY m \in Nat, n \in Nat, <2>1, <4>1
        <3> QED
            BY <1>5, <1>6, <3>1, <3>3 DEF FollowOK
    <2> DEFINE G == {k \in 0 .. m : FollowOK(f[k], w, es, c, W, n, k)}
    <2>5. 0 \in G
        BY <2>2, <2>4 DEF Follows
    <2>6. ASSUME NEW k \in 1 .. m, k - 1 \in G PROVE k \in G
        <3>1. PICK y, z : y = f[k - 1] /\ z = f[k]
            OBVIOUS
        <3>2. z = Extend(p, y, es[k])
            BY <2>1, <2>2, <3>1 DEF Follows
        <3>3. FollowOK(y, w, es, c, W, n, k - 1)
            BY <2>6, <3>1
        <3>4. k \in DOMAIN es
            BY <2>3
        <3>5. FollowOK(z, w, es, c, W, n, k)
            BY <1>2, <1>5, <2>1, <3>2, <3>3, <3>4, FollowKeeps
        <3> QED
            BY <3>1, <3>5
    <2> HIDE DEF G
    <2>7. m \in G
        <3>1. \A k \in 0 .. m : k \in G
            BY <2>5, <2>6, EveryTurn
        <3> QED
            BY <3>1
    <2>8. FollowOK(x, w, es, c, W, n, m)
        BY <2>2, <2>7 DEF G
    <2>9. SearchOK(x, w, es)
        <3>1. ASSUME NEW j \in DOMAIN es, es[j].healthy, es[j].link[1] \in W PROVE es[j].link[2] \in Found(x, w)
            <4>1. j <= m
                BY <2>3
            <4> QED
                BY <2>8, <3>1, <4>1 DEF FollowOK
        <3> QED
            BY <2>8, <3>1 DEF FollowOK, SearchOK
    <2>10. x \in Searches /\ x.visited = W /\ Len(x.queue) <= n + Cardinality(Leaving(es, c, m))
        BY <2>8 DEF FollowOK, RoutesOK
    <2>11. Cardinality(Unseen(es, s.visited)) = Cardinality(Leaving(es, c, m)) + Cardinality(Unseen(es, W))
        <3>1. Unseen(es, s.visited) = Leaving(es, c, m) \cup Unseen(es, W)
            BY <1>3, <1>8, <2>3 DEF Unseen, Leaving
        <3>2. Leaving(es, c, m) \cap Unseen(es, W) = {}
            BY <1>3 DEF Unseen, Leaving
        <3>3. IsFiniteSet(Leaving(es, c, m)) /\ IsFiniteSet(Unseen(es, W))
            <4>1. IsFiniteSet(1 .. m)
                BY <2>1, FS_Interval
            <4>2. Leaving(es, c, m) \subseteq 1 .. m /\ Unseen(es, W) \subseteq 1 .. m
                BY <2>3 DEF Unseen, Leaving
            <4> QED
                BY <4>1, <4>2, FS_Subset
        <3>4. Cardinality(Leaving(es, c, m)) \in Nat /\ Cardinality(Unseen(es, W)) \in Nat /\ Cardinality({}) = 0
            BY <3>3, FS_CardinalityType, FS_EmptySet
        <3>5. Cardinality(Leaving(es, c, m) \cup Unseen(es, W))
                 = Cardinality(Leaving(es, c, m)) + Cardinality(Unseen(es, W)) - Cardinality({})
            BY <3>2, <3>3, FS_Union
        <3> QED
            BY <3>1, <3>4, <3>5
    <2>12. Turns(x, es) <= Turns(s, es) - 1
        <3>1. /\ Len(s.queue) \in Nat /\ Len(x.queue) \in Nat
              /\ Cardinality(Unseen(es, s.visited)) \in Nat /\ Cardinality(Unseen(es, W)) \in Nat
            BY <1>1, <2>10, TurnsCounted
        <3>2. Cardinality(Leaving(es, c, m)) \in Nat
            <4>1. IsFiniteSet(1 .. m) /\ Leaving(es, c, m) \subseteq 1 .. m
                BY <2>1, FS_Interval DEF Leaving
            <4> QED
                BY <4>1, FS_Subset, FS_CardinalityType
        <3>3. PICK a, b, u, v, y : /\ a = Len(s.queue) /\ b = Len(x.queue) /\ y = Cardinality(Leaving(es, c, m))
                                   /\ u = Cardinality(Unseen(es, s.visited)) /\ v = Cardinality(Unseen(es, W))
            OBVIOUS
        <3>4. /\ a \in Nat /\ b \in Nat /\ u \in Nat /\ v \in Nat /\ y \in Nat
              /\ n = a - 1 /\ b <= n + y /\ u = y + v
            BY <1>5, <2>1, <2>10, <2>11, <3>1, <3>2, <3>3
        <3>5. b + v <= (a + u) - 1
            BY ONLY n \in Nat, <3>4
        <3>6. Turns(x, es) = b + v /\ Turns(s, es) = a + u
            BY <2>10, <3>3 DEF Turns
        <3> QED
            BY <3>5, <3>6
    <2> QED
        BY <2>9, <2>12
<1> QED
    BY <1>7, <1>8

Empty(w) == [visited |-> {}, queue |-> <<<<w>>>>, table |-> [d \in {} |-> <<>>]]

LEMMA EmptyOK ==
    ASSUME NEW w \in Ids, NEW es \in Seq(MeshEdge)
    PROVE  SearchOK(Empty(w), w, es) /\ Turns(Empty(w), es) = Len(es) + 1
<1>1. PICK s, p : s = Empty(w) /\ p = <<w>>
    OBVIOUS
<1>2. /\ p \in Paths /\ Len(p) = 1 /\ DOMAIN p = {1} /\ p[1] = w /\ Last(p) = w
    <2>1. p \in Seq(Ids) /\ Len(p) = 1 /\ p[1] = w /\ DOMAIN p = 1 .. 1
        BY <1>1
    <2>2. p # <<>>
        BY <2>1
    <2> QED
        BY <2>1, <2>2 DEF Paths, Last
<1>3. s.visited = {} /\ s.queue = <<p>> /\ s.table = [d \in {} |-> <<>>]
    BY <1>1 DEF Empty
<1>4. /\ <<p>> \in Seq(Paths) /\ Len(<<p>>) = 1 /\ DOMAIN <<p>> = {1} /\ <<p>>[1] = p
    BY <1>2
<1>5. DOMAIN s.table = {} /\ s.table \in [{} -> Paths]
    BY <1>3
<1>6. s \in Searches
    <2>1. PICK t, q : t = s.table /\ q = <<p>>
        OBVIOUS
    <2>2. s = [visited |-> {}, queue |-> q, table |-> t]
        BY <1>1, <1>3, <2>1 DEF Empty
    <2>3. t \in UNION {[D -> Paths] : D \in SUBSET Ids} /\ q \in Seq(Paths)
        BY <1>4, <1>5, <2>1
    <2> QED
        BY ONLY <2>2, <2>3 DEF Searches
<1>7. Found(s, w) = {w}
    BY <1>5 DEF Found
<1>8. PathOK(p, w, es, s.visited)
    BY <1>2 DEF PathOK
<1>9. RoutesOK(s, w, es)
    BY <1>2, <1>3, <1>4, <1>5, <1>6, <1>7, <1>8 DEF RoutesOK
<1>10. SearchOK(s, w, es)
    BY <1>1, <1>3, <1>5, <1>9 DEF SearchOK
<1>11. Turns(s, es) = Len(es) + 1
    <2>1. PICK m \in Nat : m = Len(es) /\ DOMAIN es = 1 .. m
        OBVIOUS
    <2>2. Unseen(es, {}) = 1 .. m
        BY <2>1 DEF Unseen
    <2>3. Cardinality(1 .. m) = m
        BY FS_Interval
    <2>4. Len(s.queue) = 1
        BY <1>3, <1>4
    <2> QED
        BY <1>3, <2>1, <2>2, <2>3, <2>4 DEF Turns
<1> QED
    BY <1>1, <1>10, <1>11

\* What the turn k makes of the turns before it.
SearchTurn(g, k, w, es) ==
    IF k = 0 THEN Empty(w) ELSE IF g[k - 1].queue = <<>> THEN g[k - 1] ELSE Dequeue(g[k - 1], es)

\* The search ends with an empty queue within as many turns as the model gives it.
LEMMA SearchEnds ==
    ASSUME NEW w \in Ids, NEW es \in Seq(MeshEdge)
    PROVE  \E s : SearchOK(s, w, es) /\ s.queue = <<>> /\ s.table = Routes(w, es)
<1> DEFINE S == {s \in Searches : SearchOK(s, w, es)}
           step == [s \in S |-> IF s.queue = <<>> THEN s ELSE Dequeue(s, es)]
           Turn(g) == [k \in 0 .. Len(es) + 1 |-> SearchTurn(g, k, w, es)]
           F == CHOOSE g : g = Turn(g)
<1>1. PICK n \in Nat \ {0} : n = Len(es) + 1
    OBVIOUS
<1>2. PICK b : b = Empty(w)
    OBVIOUS
<1>3. b \in S
    BY <1>2, EmptyOK DEF SearchOK, RoutesOK
<1>4. step \in [S -> S]
    <2>1. ASSUME NEW s \in S, s.queue # <<>> PROVE Dequeue(s, es) \in S
        <3>1. PICK x : x = Dequeue(s, es)
            OBVIOUS
        <3>2. SearchOK(x, w, es)
            BY <2>1, <3>1, DequeueKeeps
        <3> QED
            BY <3>1, <3>2 DEF SearchOK, RoutesOK
    <2> HIDE DEF S
    <2> QED
        BY <2>1
<1>5. \A s \in S : step[s] = IF s.queue = <<>> THEN s ELSE Dequeue(s, es)
    OBVIOUS
<1>6. \A s \in S : s \in Searches /\ SearchOK(s, w, es)
    OBVIOUS
<1> HIDE DEF step, S
<1>7. PICK f : IsIteration(f, S, b, step, n)
    BY <1>3, <1>4, IterationExists
<1>8. f = Turn(f)
    <2>1. f = [k \in 0 .. n |-> f[k]] /\ f[0] = b
        BY <1>7 DEF IsIteration
    <2>2. ASSUME NEW k \in 1 .. n
          PROVE  f[k] = IF f[k - 1].queue = <<>> THEN f[k - 1] ELSE Dequeue(f[k - 1], es)
        <3>1. k - 1 \in 0 .. n
            OBVIOUS
        <3>2. f[k - 1] \in S /\ f[k] = step[f[k - 1]]
            BY <1>7, <3>1 DEF IsIteration
        <3> QED
            BY <1>5, <3>2
    <2>3. ASSUME NEW k \in 0 .. n PROVE f[k] = SearchTurn(f, k, w, es)
        <3>1. CASE k = 0
            BY <1>2, <2>1, <3>1 DEF SearchTurn
        <3>2. CASE k # 0
            <4>1. k \in 1 .. n
                BY <3>2
            <4> QED
                BY <2>2, <3>2, <4>1 DEF SearchTurn
        <3> QED
            BY <3>1, <3>2
    <2> QED
        BY <1>1, <2>1, <2>3
<1>9. Routes(w, es) = F[n].table
    BY <1>1 DEF Routes, SearchTurn, Empty
<1>10. F = Turn(F)
    <2> HIDE DEF Turn
    <2> QED
        BY <1>8
<1> HIDE DEF F
<1>11. F[0] = b
    <2>1. 0 \in 0 .. Len(es) + 1
        BY <1>1
    <2>2. F[0] = SearchTurn(F, 0, w, es)
        BY <1>10, <2>1
    <2> QED
        BY <1>2, <2>2 DEF SearchTurn
<1>12. ASSUME NEW k \in 1 .. n
       PROVE  F[k] = IF F[k - 1].queue = <<>> THEN F[k - 1] ELSE Dequeue(F[k - 1], es)
    <2>1. k \in 0 .. Len(es) + 1 /\ k # 0
        BY <1>1
    <2>2. F[k] = SearchTurn(F, k, w, es)
        BY <1>10, <2>1
    <2> QED
        BY <2>1, <2>2 DEF SearchTurn
<1> HIDE DEF Turn
<1>13. \A k \in 0 .. n : F[k] \in S
    <2>1. ASSUME NEW k \in 1 .. n, F[k - 1] \in S PROVE F[k] \in S
        <3>1. F[k] = step[F[k - 1]]
            BY <1>5, <1>12, <2>1
        <3> QED
            BY <1>4, <2>1, <3>1
    <2> QED
        BY <1>3, <1>11, <2>1, LoopKeeps
<1> DEFINE G == {k \in 0 .. n : F[k].queue = <<>> \/ Turns(F[k], es) <= n - k}
<1>14. 0 \in G
    <2>1. Turns(b, es) = n
        BY <1>1, <1>2, EmptyOK
    <2> QED
        BY <1>11, <2>1
<1>15. ASSUME NEW k \in 1 .. n, k - 1 \in G PROVE k \in G
    <2>1. PICK y, z : y = F[k - 1] /\ z = F[k]
        OBVIOUS
    <2>2. y \in Searches /\ z \in Searches /\ SearchOK(y, w, es)
        <3>1. k - 1 \in 0 .. n /\ k \in 0 .. n
            OBVIOUS
        <3> QED
            BY <1>6, <1>13, <2>1, <3>1
    <2>3. CASE y.queue = <<>>
        BY <1>12, <2>1, <2>3
    <2>4. CASE y.queue # <<>>
        <3>1. z = Dequeue(y, es) /\ Turns(y, es) <= n - (k - 1)
            BY <1>12, <1>15, <2>1, <2>4
        <3>2. Turns(z, es) <= Turns(y, es) - 1
            BY <2>2, <2>4, <3>1, DequeueKeeps
        <3>3. Turns(y, es) \in Nat /\ Turns(z, es) \in Nat
            BY <2>2, TurnsCounted
        <3>4. PICK i, j \in Nat : i = Turns(y, es) /\ j = Turns(z, es)
            BY <3>3
        <3>5. j <= n - k
            BY <3>1, <3>2, <3>4
        <3> QED
            BY <2>1, <3>4, <3>5
    <2> QED
        BY <2>3, <2>4
<1>16. n \in G
    <2> HIDE DEF G
    <2>1. \A k \in 0 .. n : k \in G
        BY <1>14, <1>15, EveryTurn
    <2> QED
        BY <2>1
<1>17. F[n] \in Searches /\ SearchOK(F[n], w, es)
    BY <1>6, <1>13
<1>18. F[n].queue = <<>>
    <2> SUFFICES ASSUME F[n].queue # <<>> PROVE FALSE
        OBVIOUS
    <2>1. Turns(F[n], es) <= 0
        BY <1>16
    <2>2. Len(F[n].queue) \in Nat /\ Cardinality(Unseen(es, F[n].visited)) \in Nat
        BY <1>17, TurnsCounted
    <2>3. Len(F[n].queue) = 0
        BY <2>1, <2>2 DEF Turns
    <2>4. F[n].queue \in Seq(Paths)
        BY <1>17 DEF Searches
    <2> QED
        BY <2>3, <2>4
<1> QED
    BY <1>9, <1>17, <1>18

-----------------------------------------------------------------------------
(* Where healthy edges lead *)

Neighbours(X) == {link[2] : link \in {l \in Healthy : l[1] \in X}}
WithNeighbours == [X \in SUBSET Ids |-> X \cup Neighbours(X)]

LEMMA HealthyLinks ==
    ASSUME edges \in Seq(MeshEdge)
    PROVE  Healthy = Leads(edges) /\ \A l \in Healthy : l[1] \in Ids /\ l[2] \in Ids /\ l = <<l[1], l[2]>>
<1>1. \A i \in DOMAIN edges : edges[i].link \in Ids \X Ids
    <2>1. \A i \in DOMAIN edges : edges[i] \in MeshEdge
        OBVIOUS
    <2> QED
        BY <2>1, MeshAssumption DEF MeshEdge
<1> QED
    BY <1>1 DEF Healthy, Leads

LEMMA Withins ==
    ASSUME edges \in Seq(MeshEdge), worldDomainId \in Ids
    PROVE  IsIteration(Within, SUBSET Ids, {worldDomainId}, WithNeighbours, Cardinality(Ids))
<1>1. WithNeighbours \in [SUBSET Ids -> SUBSET Ids]
    BY HealthyLinks DEF WithNeighbours, Neighbours
<1>2. PICK f : IsIteration(f, SUBSET Ids, {worldDomainId}, WithNeighbours, Cardinality(Ids))
    BY <1>1, IdsCount, IterationExists
<1> DEFINE Turn(g) == [k \in 0 .. Cardinality(Ids) |->
               IF k = 0 THEN {worldDomainId}
               ELSE g[k - 1] \cup Neighbours(g[k - 1])]
<1>3. f = Turn(f)
    <2>1. ASSUME NEW k \in 1 .. Cardinality(Ids)
          PROVE  f[k] = f[k - 1] \cup Neighbours(f[k - 1])
        <3>1. k - 1 \in 0 .. Cardinality(Ids)
            BY IdsCount
        <3> QED
            BY <1>2, <3>1 DEF IsIteration, WithNeighbours
    <2>2. PICK n \in Nat : n = Cardinality(Ids)
        BY IdsCount
    <2>3. f = [k \in 0 .. n |-> f[k]] /\ f[0] = {worldDomainId}
        BY <1>2, <2>2 DEF IsIteration
    <2>4. ASSUME NEW k \in 0 .. n
          PROVE  f[k] = IF k = 0 THEN {worldDomainId}
                        ELSE f[k - 1] \cup Neighbours(f[k - 1])
        <3>1. CASE k = 0
            BY <2>3, <3>1
        <3>2. CASE k # 0
            <4>1. k \in 1 .. Cardinality(Ids)
                BY <2>2, <3>2
            <4> QED
                BY <2>1, <3>2, <4>1
        <3> QED
            BY <3>1, <3>2
    <2> QED
        BY <2>2, <2>3, <2>4
<1>4. Within = CHOOSE g : g = Turn(g)
    BY DEF Within, Neighbours
<1>5. Within = Turn(Within)
    <2> HIDE DEF Turn
    <2> QED
        BY <1>3, <1>4
<1>6. Within[0] = {worldDomainId}
    BY <1>5, IdsCount
<1>7. ASSUME NEW k \in 1 .. Cardinality(Ids), Within[k - 1] \in SUBSET Ids
      PROVE  Within[k] = WithNeighbours[Within[k - 1]] /\ Within[k] \in SUBSET Ids
    <2>1. Within[k] = Within[k - 1] \cup Neighbours(Within[k - 1])
        BY <1>5, IdsCount
    <2>2. Within[k] = WithNeighbours[Within[k - 1]]
        BY <1>7, <2>1 DEF WithNeighbours
    <2> QED
        BY <1>1, <1>7, <2>2
<1>8. \A k \in 0 .. Cardinality(Ids) : Within[k] \in SUBSET Ids
    <2>1. PICK n \in Nat : n = Cardinality(Ids)
        BY IdsCount
    <2>2. PICK S, g : S = SUBSET Ids /\ g = Within
        OBVIOUS
    <2>3. g[0] \in S
        BY <1>6, <2>2
    <2>4. \A k \in 1 .. n : g[k - 1] \in S => g[k] \in S
        BY <1>7, <2>1, <2>2
    <2>5. \A k \in 0 .. n : g[k] \in S
        BY ONLY <2>3, <2>4, n \in Nat, LoopKeeps
    <2> QED
        BY <2>1, <2>2, <2>5
<1>9. DOMAIN Within = 0 .. Cardinality(Ids) /\ Within = [k \in 0 .. Cardinality(Ids) |-> Within[k]]
    BY <1>5
<1>10. \A k \in 1 .. Cardinality(Ids) : Within[k] = WithNeighbours[Within[k - 1]]
    BY <1>7, <1>8, IdsCount
<1> QED
    BY <1>6, <1>8, <1>9, <1>10 DEF IsIteration

\* Reachable is the smallest set with the world that healthy edges do not leave.
LEMMA ReachableIs ==
    ASSUME edges \in Seq(MeshEdge), worldDomainId \in Ids
    PROVE  /\ worldDomainId \in Reachable
           /\ \A l \in Healthy : l[1] \in Reachable => l[2] \in Reachable
           /\ \A V : worldDomainId \in V /\ (\A l \in Healthy : l[1] \in V => l[2] \in V)
                         => Reachable \subseteq V
<1>1. PICK n \in Nat : n = Cardinality(Ids) /\ IsFiniteSet(Ids)
    BY IdsCount
<1>2. PICK W : W = Within
    OBVIOUS
<1>3. /\ W[0] = {worldDomainId} /\ \A k \in 0 .. n : W[k] \in SUBSET Ids
      /\ \A k \in 1 .. n : W[k] = W[k - 1] \cup {link[2] : link \in {l \in Healthy : l[1] \in W[k - 1]}}
    <2>1. IsIteration(W, SUBSET Ids, {worldDomainId}, WithNeighbours, n)
        BY <1>1, <1>2, Withins
    <2>2. ASSUME NEW k \in 1 .. n PROVE k - 1 \in 0 .. n
        OBVIOUS
    <2> QED
        BY <2>1, <2>2 DEF IsIteration, WithNeighbours, Neighbours
<1>4. Reachable = W[n]
    BY <1>1, <1>2 DEF Reachable
<1>5. n \in Nat \ {0} /\ W[n] = W[n - 1]
    <2>1. W[0] # {} /\ \A k \in 0 .. n : W[k] \subseteq Ids
        BY <1>3
    <2>2. \A k \in 1 .. n : W[k - 1] \subseteq W[k]
        BY <1>3
    <2>3. ASSUME NEW k \in 1 .. n - 1, W[k] = W[k - 1] PROVE W[k + 1] = W[k]
        <3>1. k \in 1 .. n /\ k + 1 \in 1 .. n /\ (k + 1) - 1 = k
            OBVIOUS
        <3>2. /\ W[k + 1] = W[k] \cup {link[2] : link \in {l \in Healthy : l[1] \in W[k]}}
              /\ W[k] = W[k - 1] \cup {link[2] : link \in {l \in Healthy : l[1] \in W[k - 1]}}
            BY <1>3, <3>1
        <3> QED
            BY <2>3, <3>2
    <2> QED
        BY <1>1, <2>1, <2>2, <2>3, Saturates
<1>6. n \in 0 .. n /\ n \in 1 .. n
    BY <1>5
<1>7. worldDomainId \in W[n]
    <2> DEFINE G == {k \in 0 .. n : worldDomainId \in W[k]}
    <2>1. 0 \in G
        BY <1>3
    <2>2. \A k \in 1 .. n : k - 1 \in G => k \in G
        BY <1>3
    <2> HIDE DEF G
    <2>3. n \in G
        BY <1>6, <2>1, <2>2, EveryTurn
    <2> QED
        BY <2>3 DEF G
<1>8. ASSUME NEW l \in Healthy, l[1] \in W[n] PROVE l[2] \in W[n]
    BY <1>3, <1>5, <1>6, <1>8
<1>9. ASSUME NEW V, worldDomainId \in V, \A l \in Healthy : l[1] \in V => l[2] \in V
      PROVE  W[n] \subseteq V
    <2>1. W[0] \in SUBSET V
        BY <1>3, <1>9
    <2>2. \A k \in 1 .. n : W[k - 1] \in SUBSET V => W[k] \in SUBSET V
        BY <1>3, <1>9
    <2>3. W[n] \in SUBSET V
        BY <1>6, <2>1, <2>2, LoopKeeps
    <2> QED
        BY <2>3
<1> QED
    BY <1>4, <1>7, <1>8, <1>9

\* The table that a search for routes leaves is exact.
LEMMA TableExact ==
    ASSUME edges \in Seq(MeshEdge), worldDomainId \in Ids, rebuilt,
           routingTable = Routes(worldDomainId, edges)
    PROVE  RoutesExact
<1>1. PICK w : w = worldDomainId
    OBVIOUS
<1>2. PICK s : SearchOK(s, w, edges) /\ s.queue = <<>> /\ s.table = routingTable
    BY <1>1, SearchEnds
<1>3. RoutesOK(s, w, edges)
    BY <1>2 DEF SearchOK
<1>4. DOMAIN s.queue = {}
    BY <1>2
<1>5. s.visited = Found(s, w)
    BY <1>3, <1>4 DEF RoutesOK
<1>6. w \in s.visited /\ w \notin DOMAIN s.table /\ s.visited = {w} \cup DOMAIN s.table
    BY <1>3, <1>5 DEF Found, RoutesOK
<1>7. ASSUME NEW l \in Healthy, l[1] \in s.visited PROVE l[2] \in s.visited
    <2>1. PICK i \in DOMAIN edges : edges[i].healthy /\ edges[i].link = l
        BY DEF Healthy
    <2> QED
        BY <1>2, <1>5, <1>7, <2>1 DEF SearchOK
<1>8. Reachable \subseteq s.visited
    BY <1>1, <1>6, <1>7, ReachableIs
<1>9. ASSUME NEW d \in DOMAIN s.table, NEW p, p = s.table[d]
      PROVE  /\ d \in Reachable /\ Head(p) = w /\ Last(p) = d /\ IsInjective(p)
             /\ \A i \in 1 .. Len(p) - 1 : <<p[i], p[i + 1]>> \in Healthy
    <2>1. PathOK(p, w, edges, s.visited) /\ Last(p) = d
        BY <1>3, <1>9 DEF RoutesOK
    <2>2. /\ p \in Paths /\ p[1] = w /\ \A i, j \in DOMAIN p : p[i] = p[j] => i = j
          /\ \A i \in 1 .. Len(p) - 1 : <<p[i], p[i + 1]>> \in Healthy
        BY <2>1, HealthyLinks DEF PathOK
    <2>3. PICK m \in Nat : m + 1 = Len(p) /\ Last(p) = p[m + 1]
        <3>1. Len(p) \in Nat \ {0} /\ Last(p) = p[Len(p)]
            BY <2>2, PathFacts
        <3>2. Len(p) - 1 \in Nat /\ (Len(p) - 1) + 1 = Len(p)
            BY <3>1
        <3> QED
            BY <3>1, <3>2
    <2>4. Head(p) = w
        BY <2>2 DEF Paths
    <2> DEFINE G == {k \in 0 .. m : p[k + 1] \in Reachable}
    <2>5. 0 \in G
        BY <1>1, <2>2, ReachableIs
    <2>6. ASSUME NEW k \in 1 .. m, k - 1 \in G PROVE k \in G
        <3>1. p[k] \in Reachable
            <4>1. (k - 1) + 1 = k
                OBVIOUS
            <4> QED
                BY <2>6, <4>1
        <3>2. PICK l \in Healthy : l = <<p[k], p[k + 1]>>
            <4>1. k \in 1 .. Len(p) - 1
                BY <2>3
            <4> QED
                BY <2>2, <4>1
        <3>3. l[1] = p[k] /\ l[2] = p[k + 1]
            BY <3>2
        <3>4. p[k + 1] \in Reachable
            BY <1>1, <3>1, <3>2, <3>3, ReachableIs
        <3> QED
            BY <3>4
    <2> HIDE DEF G
    <2>7. m \in G
        <3>1. \A k \in 0 .. m : k \in G
            BY <2>5, <2>6, EveryTurn
        <3> QED
            BY <3>1
    <2>8. d \in Reachable
        BY <2>1, <2>3, <2>7 DEF G
    <2> QED
        BY <2>1, <2>2, <2>4, <2>8 DEF IsInjective
<1>10. DOMAIN routingTable = Reachable \ {worldDomainId}
    BY <1>1, <1>2, <1>6, <1>8, <1>9
<1>11. ASSUME NEW d \in DOMAIN routingTable
       PROVE  /\ Head(routingTable[d]) = worldDomainId /\ Last(routingTable[d]) = d
              /\ IsInjective(routingTable[d])
              /\ \A i \in 1 .. Len(routingTable[d]) - 1 :
                    <<routingTable[d][i], routingTable[d][i + 1]>> \in Healthy
    BY <1>1, <1>2, <1>9
<1> QED
    BY <1>10, <1>11 DEF RoutesExact

\* The table is that of the edges as they are, once it was built.
TableInv ==
    IF rebuilt THEN worldDomainId # None /\ routingTable = Routes(worldDomainId, edges)
    ELSE DOMAIN routingTable = {}

LEMMA TableKept == IInv /\ TableInv /\ [Next]_vars => TableInv'
<1> SUFFICES ASSUME IInv, TableInv, [Next]_vars PROVE TableInv'
    OBVIOUS
<1>1. ASSUME UNCHANGED mesh, worldDomainId # None => worldDomainId' = worldDomainId PROVE TableInv'
    BY <1>1 DEF TableInv, mesh
<1>2. CASE UNCHANGED vars
    BY <1>1, <1>2 DEF vars, registry
<1>3. CASE Registry
    BY <1>1, <1>3 DEF Registry, RegisterDomain, UpdateDomainState, UnregisterDomain
<1>4. CASE Mesh
    <2>1. PICK es : Changed(es)
        BY <1>4 DEF Mesh, EstablishConnection, Disconnect, MarkEdge
    <2>2. edges' = es /\ worldDomainId' = worldDomainId
        BY <2>1 DEF Changed, registry
    <2>3. CASE worldDomainId = None
        <3>1. rebuilt' = rebuilt /\ routingTable' = routingTable
            BY <2>1, <2>3 DEF Changed, RebuildRoutingTable
        <3> QED
            BY <2>3, <3>1 DEF TableInv
    <2>4. CASE worldDomainId # None
        <3>1. rebuilt' = TRUE /\ routingTable' = Routes(worldDomainId, es)
            BY <2>1, <2>4 DEF Changed, RebuildRoutingTable
        <3> QED
            BY <2>2, <2>4, <3>1 DEF TableInv
    <2> QED
        BY <2>3, <2>4
<1>5. CASE Lifecycle
    BY <1>1, <1>5 DEF Lifecycle, RegisterHook, Enter, Return, CallbackRaises, registry
<1> QED
    BY <1>2, <1>3, <1>4, <1>5 DEF Next

LEMMA TableIsExact == IInv /\ RestTyped /\ TableInv => RoutesExact
<1> SUFFICES ASSUME IInv, RestTyped, TableInv PROVE RoutesExact
    OBVIOUS
<1>1. CASE rebuilt
    <2>1. worldDomainId \in Ids /\ edges \in Seq(MeshEdge) /\ routingTable = Routes(worldDomainId, edges)
        BY <1>1 DEF IInv, Types, RestTyped, TableInv
    <2> QED
        BY <1>1, <2>1, TableExact
<1>2. CASE ~ rebuilt
    BY <1>2 DEF TableInv, RoutesExact
<1> QED
    BY <1>1, <1>2

LEMMA RegistryAndMesh == Spec => [](TreeIsWhole /\ RoutesExact)
<1>1. Init => RestTyped
    <2>1. <<>> \in Seq(MeshEdge)
        OBVIOUS
    <2> QED
        BY <2>1 DEF Init, RestTyped
<1>2. Init => Ranked /\ TableInv
    <2> SUFFICES ASSUME Init PROVE Ranked /\ TableInv
        OBVIOUS
    <2>1. PICK rank : rank = [d \in {} |-> 0]
        OBVIOUS
    <2>2. rank \in [issued -> Nat] /\ DOMAIN domains = {}
        BY <2>1 DEF Init
    <2> QED
        BY <2>2 DEF Init, Ranked, TableInv
<1>3. IInv => Types
    BY DEF IInv
<1>4. IInv /\ Ranked => TreeIsWhole
    BY TreeWhole
<1> QED
    BY <1>1, <1>2, <1>3, <1>4, Invariance, RestKept, RankedStep, TableKept, TableIsExact, PTL DEF Spec

\* get_domain_tree: whatever is registered and removed, the recursion from the world ends,
\* meets no removed domain and none twice, and shows every domain below the world, for
\* any number of domains.
THEOREM TreeShown == MCSpec => []TreeIsWhole
    BY PartsKept, RegistryAndMesh, PTL

\* _rebuild_routing_table: whatever edges are added, removed or marked and in whatever
\* order they are kept, the table routes exactly the domains that healthy edges reach
\* from the world, each along such edges without a loop.
THEOREM RoutesKept == MCSpec => []RoutesExact
    BY PartsKept, RegistryAndMesh, PTL

=============================================================================
