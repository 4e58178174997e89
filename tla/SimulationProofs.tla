--------------------------- MODULE SimulationProofs ---------------------------
(***************************************************************************)
(* Proofs about MCWorldSimulation: the runtime with its entities and       *)
(* events, what agents learn from feedback and the collisions of a step,   *)
(* for any entities, agents, events, colliding objects, machines of        *)
(* entities and bounds.                                                    *)
(*                                                                         *)
(* User code may do anything in the middle of a step, so the invariants    *)
(* speak of the step in progress.  EventsInv gives each event one place,   *)
(* and says of the batch in progress that what is left of it is sorted and *)
(* follows what was logged of it.  Collisions need that the sum over all   *)
(* objects changes by what the pair changes (the lemmas about sums), and   *)
(* that an exchange neither gains energy nor changes the momentum.         *)
(***************************************************************************)
EXTENDS MCWorldSimulation, TLAPS, FiniteSetTheorems, WellFoundedInduction

LEMMA LeastElement ==
    ASSUME NEW T \in SUBSET Nat, T # {}
    PROVE  \E n \in T : \A m \in T : n <= m
<1> DEFINE R == {ss \in Nat \X Nat : ss[1] < ss[2]}
<1>1. R = OpToRel(<, Nat)
    BY DEF OpToRel
<1>2. IsWellFoundedOn(R, Nat)
    BY <1>1, NatLessThanWellFounded
<1>3. PICK n \in T : \A m \in T : ~ (<<m, n>> \in R)
    BY <1>2, WFMin
<1>4. ASSUME NEW m \in T PROVE n <= m
    <2>1. ~ (<<m, n>> \in R) /\ m \in Nat /\ n \in Nat
        BY <1>3
    <2> QED
        BY <2>1
<1> QED
    BY <1>4

LEMMA GreatestElement ==
    ASSUME NEW n \in Nat, NEW T \in SUBSET (1 .. n), T # {}
    PROVE  Max(T) \in T /\ \A m \in T : m <= Max(T)
<1> DEFINE B == {m \in Nat : \E k \in T : m = n - k}
<1>0. \A k \in T : k \in 1 .. n /\ n - k \in Nat
    OBVIOUS
<1>1. PICK k \in T : n - k \in Nat
    BY <1>0
<1>2. PICK b \in B : \A m \in B : b <= m
    <2>1. B \in SUBSET Nat /\ n - k \in B
        BY <1>1
    <2> HIDE DEF B
    <2> QED
        BY <2>1, LeastElement
<1>3. PICK l \in T : b = n - l
    OBVIOUS
<1>4. ASSUME NEW m \in T PROVE l >= m
    <2>1. n - m \in B /\ m \in 1 .. n
        OBVIOUS
    <2>2. b <= n - m
        BY <1>2, <2>1
    <2> HIDE DEF B
    <2> QED
        BY <1>3, <2>1, <2>2
<1>5. \E x \in T : \A y \in T : x >= y
    BY <1>4
<1>6. Max(T) \in T /\ \A y \in T : Max(T) >= y
    BY <1>5 DEF Max
<1> QED
    BY <1>6

LEMMA AppendFacts ==
    ASSUME NEW S, NEW s \in Seq(S), NEW x \in S
    PROVE  /\ Append(s, x) \in Seq(S) /\ Len(Append(s, x)) = Len(s) + 1
           /\ DOMAIN Append(s, x) = 1 .. Len(s) + 1
           /\ Append(s, x)[Len(s) + 1] = x /\ \A k \in 1 .. Len(s) : Append(s, x)[k] = s[k]
           /\ DOMAIN s = 1 .. Len(s) /\ Len(s) \in Nat
    OBVIOUS

-----------------------------------------------------------------------------
(* Feedback: the queue holds what has not been processed yet, in the order in which it *)
(* was received, and all of it was received after what has been processed.             *)

Queued(f) == \E k \in DOMAIN feedbackQueue : feedbackQueue[k] = f

FeedbackTypes ==
    /\ Cognition!TypeOK
    /\ round \in Nat /\ registered \in [Agents -> Nat]
    /\ processed \in Seq(Nat) /\ Len(processed) = Len(feedback)

\* Rounds are counted up.
RoundsOK ==
    /\ \A a \in Agents : registered[a] <= round /\ (registered[a] # 0 <=> a \in agents)
    /\ \A f \in DOMAIN feedback : processed[f] <= round

QueueOK ==
    /\ \A f \in DOMAIN feedback : processed[f] = 0 <=> Queued(f)
    /\ \A j, k \in DOMAIN feedbackQueue : j < k => feedbackQueue[j] < feedbackQueue[k]
    /\ \A f, g \in DOMAIN feedback : processed[f] = 0 /\ processed[g] # 0 => g < f

FeedbackInv == FeedbackTypes /\ RoundsOK /\ QueueOK /\ LearnsTheLatest

\* LearnsTheLatest for one agent and topic.
Heeded(a, t) == {f \in Cognition!Heard(a) : t \in feedback[f].learning}
Learned(a, t) ==
    IF Heeded(a, t) = {} THEN model[a][t] = 0
    ELSE model[a][t] \in Heeded(a, t) /\ \A f \in Heeded(a, t) : f <= model[a][t]

LEMMA LearnedEach == LearnsTheLatest <=> \A a \in Agents, t \in Topics : Learned(a, t)
BY DEF LearnsTheLatest, Cognition!LearnsTheLatest, Learned, Heeded

LEMMA FeedbackTypesFacts ==
    ASSUME FeedbackTypes
    PROVE  /\ agents \subseteq Agents /\ feedback \in Seq(Cognition!CognitionFeedback)
           /\ feedbackQueue \in Seq(DOMAIN feedback) /\ model \in [Agents -> [Topics -> 0 .. Len(feedback)]]
           /\ Len(feedback) \in Nat /\ DOMAIN feedback = 1 .. Len(feedback)
           /\ Len(feedbackQueue) \in Nat /\ DOMAIN feedbackQueue = 1 .. Len(feedbackQueue)
           /\ processed \in Seq(Nat) /\ DOMAIN processed = 1 .. Len(feedback) /\ Len(processed) = Len(feedback)
           /\ \A k \in DOMAIN feedbackQueue : feedbackQueue[k] \in DOMAIN feedback
           /\ \A f \in DOMAIN feedback :
                 /\ feedback[f].agent \in Agents /\ feedback[f].learning \subseteq Topics
                 /\ processed[f] \in Nat
<1>1. /\ agents \subseteq Agents /\ feedback \in Seq(Cognition!CognitionFeedback)
      /\ feedbackQueue \in Seq(DOMAIN feedback) /\ model \in [Agents -> [Topics -> 0 .. Len(feedback)]]
      /\ processed \in Seq(Nat) /\ Len(processed) = Len(feedback)
    BY DEF FeedbackTypes, Cognition!TypeOK
<1>2. \A f \in DOMAIN feedback : feedback[f] \in Cognition!CognitionFeedback
    BY <1>1
<1>3. \A f \in DOMAIN feedback : feedback[f].agent \in Agents /\ feedback[f].learning \subseteq Topics
    BY <1>2 DEF Cognition!CognitionFeedback
<1> QED
    BY <1>1, <1>3

LEMMA FeedbackBegins == ASSUME Cognition!Init PROVE FeedbackInv
<1>1. FeedbackTypes
    BY CognitionAssumption DEF FeedbackTypes, Cognition!Init, Cognition!TypeOK, Cognition!ConstantsOK
<1>2. RoundsOK /\ QueueOK
    BY DEF Cognition!Init, RoundsOK, QueueOK, Queued
<1>3. LearnsTheLatest
    BY DEF LearnsTheLatest, Cognition!LearnsTheLatest, Cognition!Heard, Cognition!Init
<1> QED
    BY <1>1, <1>2, <1>3 DEF FeedbackInv

\* What is learned depends on these parts of the state only.
LEMMA LearnedStays ==
    ASSUME FeedbackInv, NEW a \in Agents, NEW t \in Topics, registered'[a] = registered[a],
           model'[a][t] = model[a][t], Cognition!Heard(a)' = Cognition!Heard(a),
           \A f \in Cognition!Heard(a) : feedback'[f].learning = feedback[f].learning
    PROVE  Learned(a, t)'
<1>1. Learned(a, t)
    BY LearnedEach DEF FeedbackInv
<1>2. Heeded(a, t)' = Heeded(a, t)
    BY DEF Heeded
<1> QED
    BY <1>1, <1>2 DEF Learned

LEMMA ObservationsKeepFeedback ==
    ASSUME FeedbackInv,
           Cognition!SendObservation \/ Cognition!ProcessObservations \/ Cognition!DetectEmergentBehavior
    PROVE  FeedbackInv'
<1>1. UNCHANGED <<agents, feedbackQueue, feedback, model, processed, registered, round>>
    BY DEF Cognition!SendObservation, Cognition!ProcessObservations, Cognition!DetectEmergentBehavior
<1>2. observations' \in Seq(Cognition!CognitionObservation) /\ sent' \in 0 .. MaxFeedback
    <2>1. MaxFeedback \in Nat /\ observations \in Seq(Cognition!CognitionObservation) /\ sent \in 0 .. MaxFeedback
        BY CognitionAssumption DEF Cognition!ConstantsOK, FeedbackInv, FeedbackTypes, Cognition!TypeOK
    <2>2. CASE Cognition!SendObservation
        <3>1. sent' \in 1 .. MaxFeedback /\ observations' = Append(observations, sent')
            BY <2>1, <2>2 DEF Cognition!SendObservation
        <3> QED
            BY <2>1, <3>1, AppendFacts DEF Cognition!CognitionObservation
    <2>3. CASE Cognition!ProcessObservations
        BY <2>1, <2>3 DEF Cognition!ProcessObservations
    <2>4. CASE Cognition!DetectEmergentBehavior
        BY <2>1, <2>4 DEF Cognition!DetectEmergentBehavior
    <2> QED
        BY <2>2, <2>3, <2>4
<1>3. FeedbackTypes'
    BY <1>1, <1>2 DEF FeedbackInv, FeedbackTypes, Cognition!TypeOK
<1>4. RoundsOK' /\ QueueOK'
    BY <1>1 DEF FeedbackInv, RoundsOK, QueueOK, Queued
<1>5. LearnsTheLatest'
    BY <1>1 DEF FeedbackInv, LearnsTheLatest, Cognition!LearnsTheLatest, Cognition!Heard
<1> QED
    BY <1>3, <1>4, <1>5 DEF FeedbackInv

\* What was processed before is forgotten.
LEMMA RegisterKeeps ==
    ASSUME FeedbackInv, NEW a \in Agents, Cognition!Register(a)
    PROVE  FeedbackInv'
<1>1. /\ round \in Nat /\ round' = round + 1 /\ registered \in [Agents -> Nat]
      /\ registered' = [registered EXCEPT ![a] = round + 1] /\ agents' = agents \cup {a}
      /\ model' = [model EXCEPT ![a] = [t \in Topics |-> 0]]
      /\ UNCHANGED <<observations, feedbackQueue, feedback, sent, emergence, processed>>
    BY DEF Cognition!Register, FeedbackInv, FeedbackTypes
<1>2. FeedbackTypes
    BY DEF FeedbackInv
<1>3. FeedbackTypes'
    <2>1. model' \in [Agents -> [Topics -> 0 .. Len(feedback)]]
        BY <1>1, <1>2, FeedbackTypesFacts
    <2> QED
        BY <1>1, <1>2, <2>1 DEF FeedbackTypes, Cognition!TypeOK
<1>4. RoundsOK'
    <2>1. ASSUME NEW b \in Agents PROVE registered'[b] <= round' /\ (registered'[b] # 0 <=> b \in agents')
        BY <1>1 DEF FeedbackInv, RoundsOK
    <2>2. ASSUME NEW f \in DOMAIN feedback PROVE processed[f] <= round'
        <3>1. processed[f] \in Nat /\ processed[f] <= round
            BY <1>2, FeedbackTypesFacts DEF FeedbackInv, RoundsOK
        <3> QED
            BY <1>1, <3>1
    <2> QED
        BY <1>1, <2>1, <2>2 DEF RoundsOK
<1>5. QueueOK'
    BY <1>1 DEF FeedbackInv, QueueOK, Queued
<1>6. ASSUME NEW b \in Agents, NEW t \in Topics PROVE Learned(b, t)'
    <2>1. CASE b = a
        <3>1. model'[b][t] = 0 /\ registered'[b] = round + 1
            BY <1>1, <1>2, <2>1, FeedbackTypesFacts
        <3>2. \A f \in DOMAIN feedback : ~ (processed[f] > round + 1)
            <4>1. \A f \in DOMAIN feedback : processed[f] \in Nat /\ processed[f] <= round
                BY <1>2, FeedbackTypesFacts DEF FeedbackInv, RoundsOK
            <4> QED
                BY <1>1, <4>1
        <3>3. Heeded(b, t)' = {}
            BY <1>1, <3>1, <3>2 DEF Heeded, Cognition!Heard
        <3> QED
            BY <3>1, <3>3 DEF Learned
    <2>2. CASE b # a
        <3>1. registered'[b] = registered[b] /\ model'[b][t] = model[b][t]
            BY <1>1, <1>2, <2>2, FeedbackTypesFacts
        <3>2. Cognition!Heard(b)' = Cognition!Heard(b)
            BY <1>1, <3>1 DEF Cognition!Heard
        <3> QED
            BY <1>1, <3>1, <3>2, LearnedStays
    <2> QED
        BY <2>1, <2>2
<1>7. LearnsTheLatest'
    BY <1>6 DEF LearnsTheLatest, Cognition!LearnsTheLatest, Learned, Heeded
<1> QED
    BY <1>3, <1>4, <1>5, <1>7 DEF FeedbackInv

LEMMA ReceiveKeeps ==
    ASSUME FeedbackInv, NEW a \in Agents, NEW learning \in SUBSET Topics, Cognition!ReceiveFeedback(a, learning)
    PROVE  FeedbackInv'
<1>0. FeedbackTypes
    BY DEF FeedbackInv
<1>1. PICK N : N = Len(feedback)
    OBVIOUS
<1>2. PICK K : K = Len(feedbackQueue)
    OBVIOUS
<1>3. PICK x : x = [agent |-> a, learning |-> learning]
    OBVIOUS
<1>4. /\ feedback' = Append(feedback, x) /\ processed' = Append(processed, 0)
      /\ feedbackQueue' = Append(feedbackQueue, Len(feedback'))
      /\ UNCHANGED <<agents, observations, model, sent, emergence, registered, round>>
    BY <1>3 DEF Cognition!ReceiveFeedback
<1>5. /\ N \in Nat /\ K \in Nat /\ N + 1 \in 1 .. N + 1 /\ N + 1 \notin 1 .. N /\ 1 .. N \subseteq 1 .. N + 1
      /\ DOMAIN feedback = 1 .. N /\ DOMAIN feedbackQueue = 1 .. K /\ DOMAIN processed = 1 .. N
      /\ Len(processed) = N
      /\ \A f \in 1 .. N + 1 : f = N + 1 \/ f \in 1 .. N
      /\ \A k \in 1 .. K + 1 : k = K + 1 \/ k \in 1 .. K
    BY <1>0, <1>1, <1>2, FeedbackTypesFacts
<1>6. /\ feedback' \in Seq(Cognition!CognitionFeedback) /\ Len(feedback') = N + 1 /\ DOMAIN feedback' = 1 .. N + 1
      /\ feedback'[N + 1] = x /\ \A f \in 1 .. N : feedback'[f] = feedback[f]
    <2>1. x \in Cognition!CognitionFeedback
        BY <1>3 DEF Cognition!CognitionFeedback
    <2> QED
        BY <1>0, <1>1, <1>4, <2>1, FeedbackTypesFacts, AppendFacts
<1>7. /\ processed' \in Seq(Nat) /\ Len(processed') = N + 1
      /\ processed'[N + 1] = 0 /\ \A f \in 1 .. N : processed'[f] = processed[f]
    BY <1>0, <1>4, <1>5, FeedbackTypesFacts, AppendFacts
<1>8. /\ feedbackQueue' \in Seq(1 .. N + 1) /\ DOMAIN feedbackQueue' = 1 .. K + 1
      /\ feedbackQueue'[K + 1] = N + 1 /\ \A k \in 1 .. K : feedbackQueue'[k] = feedbackQueue[k]
    <2>1. feedbackQueue \in Seq(1 .. N + 1)
        <3>1. feedbackQueue \in [1 .. K -> 1 .. N + 1]
            BY <1>0, <1>2, <1>5, FeedbackTypesFacts
        <3> QED
            BY <1>5, <3>1
    <2> QED
        BY <1>2, <1>4, <1>5, <1>6, <2>1, AppendFacts
<1>9. \A k \in 1 .. K : feedbackQueue[k] \in 1 .. N
    BY <1>0, <1>5, FeedbackTypesFacts
<1>10. FeedbackTypes'
    <2>1. \A b \in Agents, t \in Topics : model[b][t] \in 0 .. N + 1
        BY <1>0, <1>1, <1>5, FeedbackTypesFacts
    <2>2. model \in [Agents -> [Topics -> 0 .. N + 1]]
        BY <1>0, <2>1, FeedbackTypesFacts
    <2> QED
        BY <1>0, <1>4, <1>6, <1>7, <1>8, <2>2 DEF FeedbackTypes, Cognition!TypeOK
<1>11. RoundsOK'
    <2>1. round \in Nat
        BY <1>0 DEF FeedbackTypes
    <2> QED
        BY <1>4, <1>5, <1>6, <1>7, <2>1 DEF FeedbackInv, RoundsOK
<1>12. \A f \in 1 .. N + 1 : Queued(f)' <=> f = N + 1 \/ Queued(f)
    <2>1. K + 1 \in 1 .. K + 1 /\ 1 .. K \subseteq 1 .. K + 1
        BY <1>5
    <2> QED
        BY <1>5, <1>8, <2>1 DEF Queued
<1>13. QueueOK'
    <2>1. ASSUME NEW f \in 1 .. N + 1 PROVE processed'[f] = 0 <=> Queued(f)'
        <3>1. CASE f = N + 1
            BY <1>7, <1>12, <3>1
        <3>2. CASE f \in 1 .. N
            <4>1. f # N + 1 /\ (processed[f] = 0 <=> Queued(f))
                BY <1>5, <3>2 DEF FeedbackInv, QueueOK
            <4> QED
                BY <1>7, <1>12, <3>2, <4>1
        <3> QED
            BY <1>5, <3>1, <3>2
    <2>2. ASSUME NEW j \in 1 .. K + 1, NEW k \in 1 .. K + 1, j < k PROVE feedbackQueue'[j] < feedbackQueue'[k]
        <3>1. j \in 1 .. K
            BY <1>5, <2>2
        <3>2. CASE k = K + 1
            <4>1. feedbackQueue[j] \in 1 .. N
                BY <1>9, <3>1
            <4> QED
                BY <1>5, <1>8, <3>1, <3>2, <4>1
        <3>3. CASE k \in 1 .. K
            BY <1>5, <1>8, <2>2, <3>1, <3>3 DEF FeedbackInv, QueueOK
        <3> QED
            BY <1>5, <3>2, <3>3
    <2>3. ASSUME NEW f \in 1 .. N + 1, NEW g \in 1 .. N + 1, processed'[f] = 0, processed'[g] # 0 PROVE g < f
        <3>1. g \in 1 .. N /\ processed[g] # 0
            BY <1>5, <1>7, <2>3
        <3>2. CASE f = N + 1
            BY <1>5, <3>1, <3>2
        <3>3. CASE f \in 1 .. N
            BY <1>5, <1>7, <2>3, <3>1, <3>3 DEF FeedbackInv, QueueOK
        <3> QED
            BY <1>5, <3>2, <3>3
    <2> QED
        BY <1>6, <1>8, <2>1, <2>2, <2>3 DEF QueueOK
<1>14. ASSUME NEW b \in Agents, NEW t \in Topics PROVE Learned(b, t)'
    <2>1. Cognition!Heard(b)' = Cognition!Heard(b)
        <3>1. registered[b] \in Nat
            BY <1>0 DEF FeedbackTypes
        <3>2. ASSUME NEW f PROVE f \in Cognition!Heard(b)' <=> f \in Cognition!Heard(b)
            <4>1. CASE f = N + 1
                BY <1>4, <1>5, <1>6, <1>7, <3>1, <4>1 DEF Cognition!Heard
            <4>2. CASE f \in 1 .. N
                BY <1>4, <1>5, <1>6, <1>7, <4>2 DEF Cognition!Heard
            <4>3. CASE f \notin 1 .. N + 1
                BY <1>5, <1>6, <4>3 DEF Cognition!Heard
            <4> QED
                BY <1>5, <4>1, <4>2, <4>3
        <3> QED
            BY <3>2
    <2>2. \A f \in Cognition!Heard(b) : feedback'[f].learning = feedback[f].learning
        BY <1>5, <1>6 DEF Cognition!Heard
    <2> QED
        BY <1>4, <2>1, <2>2, LearnedStays
<1>15. LearnsTheLatest'
    BY <1>14 DEF LearnsTheLatest, Cognition!LearnsTheLatest, Learned, Heeded
<1> QED
    BY <1>10, <1>11, <1>13, <1>15 DEF FeedbackInv

\* What was queued is later than all that was processed before, the last lesson of the
\* queue is later than the others.
LEMMA ProcessKeeps ==
    ASSUME FeedbackInv, Cognition!ProcessFeedback
    PROVE  FeedbackInv'
<1>0. FeedbackTypes
    BY DEF FeedbackInv
<1>1. PICK r : r = round + 1
    OBVIOUS
<1>2. /\ round' = r /\ feedbackQueue' = <<>>
      /\ processed' = [f \in DOMAIN processed |-> IF Cognition!Contains(feedbackQueue, f) THEN r ELSE processed[f]]
      /\ model' = [a \in Agents |-> [t \in Topics |-> Cognition!Updated(a, t)]]
      /\ UNCHANGED <<agents, observations, feedback, sent, emergence, registered>>
    BY <1>1 DEF Cognition!ProcessFeedback
<1>3. round \in Nat /\ r \in Nat \ {0} /\ round < r
    BY <1>0, <1>1 DEF FeedbackTypes
<1>4. /\ DOMAIN processed' = DOMAIN feedback /\ Len(processed') = Len(feedback) /\ processed' \in Seq(Nat)
      /\ \A f \in DOMAIN feedback : processed'[f] = IF Queued(f) THEN r ELSE processed[f]
    <2>1. \A f \in DOMAIN feedback : Cognition!Contains(feedbackQueue, f) <=> Queued(f)
        BY <1>0, FeedbackTypesFacts DEF Cognition!Contains, Queued
    <2>2. processed' \in [1 .. Len(feedback) -> Nat]
        BY <1>0, <1>2, <1>3, FeedbackTypesFacts
    <2>3. Len(feedback) \in Nat
        BY <1>0, FeedbackTypesFacts
    <2>4. Len(processed') = Len(feedback) /\ processed' \in Seq(Nat)
        BY ONLY <2>2, <2>3
    <2> QED
        BY <1>0, <1>2, <2>1, <2>2, <2>4, FeedbackTypesFacts
<1>5. \A f \in DOMAIN feedback : processed'[f] # 0 /\ processed'[f] <= r
    <2> SUFFICES ASSUME NEW f \in DOMAIN feedback PROVE processed'[f] # 0 /\ processed'[f] <= r
        OBVIOUS
    <2>1. processed[f] \in Nat /\ processed[f] <= round /\ (processed[f] = 0 <=> Queued(f))
        BY <1>0, FeedbackTypesFacts DEF FeedbackInv, RoundsOK, QueueOK
    <2> QED
        BY <1>3, <1>4, <2>1
<1>6. ASSUME NEW a \in Agents, NEW t \in Topics
      PROVE  /\ model'[a][t] \in 0 .. Len(feedback)
             /\ Learned(a, t)'
    <2>1. PICK L : L = Cognition!Lessons(a, t)
        OBVIOUS
    <2>2. model'[a][t] = IF L = {} THEN model[a][t] ELSE feedbackQueue[Max(L)]
        BY <1>2, <2>1 DEF Cognition!Updated, Cognition!Max, Max
    <2>3. /\ model[a][t] \in 0 .. Len(feedback) /\ registered[a] \in Nat /\ registered[a] <= round
          /\ (registered[a] # 0 <=> a \in agents) /\ Learned(a, t)
        BY <1>0, FeedbackTypesFacts, LearnedEach DEF FeedbackTypes, FeedbackInv, RoundsOK
    <2>4. \A k \in DOMAIN feedbackQueue : k \in L <=> a \in agents /\ feedbackQueue[k] \in DOMAIN feedback
                   /\ feedback[feedbackQueue[k]].agent = a /\ t \in feedback[feedbackQueue[k]].learning
        BY <1>0, <2>1, FeedbackTypesFacts DEF Cognition!Lessons, Cognition!Teaches
    <2>5. L \subseteq DOMAIN feedbackQueue
        BY <2>1 DEF Cognition!Lessons
    <2>6. ASSUME NEW f
          PROVE  f \in Heeded(a, t)' <=> f \in Heeded(a, t) \/ \E k \in L : feedbackQueue[k] = f
        <3>1. CASE f \in DOMAIN feedback
            <4>1. processed[f] \in Nat /\ (processed[f] = 0 <=> Queued(f))
                BY <1>0, <3>1, FeedbackTypesFacts DEF FeedbackInv, QueueOK
            <4>2. CASE Queued(f)
                <5>1. f \notin Heeded(a, t)
                    BY <2>3, <4>1, <4>2 DEF Heeded, Cognition!Heard
                <5>2. (\E k \in L : feedbackQueue[k] = f)
                        <=> a \in agents /\ feedback[f].agent = a /\ t \in feedback[f].learning
                    BY <2>4, <2>5, <3>1, <4>2 DEF Queued
                <5>3. processed'[f] > registered[a]
                    BY <1>3, <1>4, <2>3, <3>1, <4>2
                <5> QED
                    BY <1>2, <2>3, <3>1, <5>1, <5>2, <5>3 DEF Heeded, Cognition!Heard
            <4>3. CASE ~ Queued(f)
                <5>1. processed'[f] = processed[f]
                    BY <1>4, <3>1, <4>3
                <5>2. ~ \E k \in L : feedbackQueue[k] = f
                    BY <2>5, <4>3 DEF Queued
                <5> QED
                    BY <1>2, <5>1, <5>2 DEF Heeded, Cognition!Heard
            <4> QED
                BY <4>2, <4>3
        <3>2. CASE f \notin DOMAIN feedback
            BY <1>0, <1>2, <2>5, <3>2, FeedbackTypesFacts DEF Heeded, Cognition!Heard
        <3> QED
            BY <3>1, <3>2
    <2>7. CASE L = {}
        <3>1. Heeded(a, t)' = Heeded(a, t) /\ model'[a][t] = model[a][t]
            BY <2>2, <2>6, <2>7
        <3> QED
            BY <2>3, <3>1 DEF Learned
    <2>8. CASE L # {}
        <3>1. PICK m : m = Max(L)
            OBVIOUS
        <3>2. m \in L /\ \A k \in L : k <= m
            <4>1. Len(feedbackQueue) \in Nat /\ L \subseteq 1 .. Len(feedbackQueue)
                BY <1>0, <2>5, FeedbackTypesFacts
            <4> QED
                BY <2>8, <3>1, <4>1, GreatestElement
        <3>3. m \in DOMAIN feedbackQueue /\ feedbackQueue[m] \in DOMAIN feedback /\ model'[a][t] = feedbackQueue[m]
            BY <1>0, <2>2, <2>5, <2>8, <3>1, <3>2, FeedbackTypesFacts
        <3>4. ASSUME NEW k \in L PROVE feedbackQueue[k] <= feedbackQueue[m]
            <4>1. k \in DOMAIN feedbackQueue /\ k \in Nat /\ m \in Nat /\ k <= m
                BY <1>0, <2>5, <3>2, <3>3, FeedbackTypesFacts
            <4>2. feedbackQueue[k] \in Nat /\ feedbackQueue[m] \in Nat
                BY <1>0, <3>3, <4>1, FeedbackTypesFacts
            <4>3. k < m => feedbackQueue[k] < feedbackQueue[m]
                BY <3>3, <4>1 DEF FeedbackInv, QueueOK
            <4> QED
                BY <4>1, <4>2, <4>3
        <3>5. ASSUME NEW f \in Heeded(a, t) PROVE f <= feedbackQueue[m]
            <4>1. f \in DOMAIN feedback /\ processed[f] > registered[a]
                BY DEF Heeded, Cognition!Heard
            <4>2. processed[f] # 0 /\ processed[feedbackQueue[m]] = 0
                BY <1>0, <2>3, <3>3, <4>1, FeedbackTypesFacts, SMTT(30) DEF FeedbackInv, QueueOK, Queued
            <4>3. f < feedbackQueue[m]
                BY <3>3, <4>1, <4>2 DEF FeedbackInv, QueueOK
            <4> QED
                BY <1>0, <3>3, <4>1, <4>3, FeedbackTypesFacts
        <3>6. model'[a][t] \in Heeded(a, t)' /\ \A f \in Heeded(a, t)' : f <= model'[a][t]
            BY <2>6, <3>2, <3>3, <3>4, <3>5
        <3>7. model'[a][t] \in 0 .. Len(feedback)
            BY <1>0, <3>3, FeedbackTypesFacts
        <3> QED
            BY <3>6, <3>7 DEF Learned
    <2> QED
        BY <2>7, <2>8
<1>7. FeedbackTypes'
    <2>1. model' \in [Agents -> [Topics -> 0 .. Len(feedback)]]
        BY <1>2, <1>6
    <2> QED
        BY <1>0, <1>2, <1>3, <1>4, <2>1 DEF FeedbackTypes, Cognition!TypeOK
<1>8. RoundsOK'
    <2>1. \A a \in Agents : registered[a] <= r
        BY <1>0, <1>3 DEF FeedbackTypes, FeedbackInv, RoundsOK
    <2> QED
        BY <1>2, <1>5, <2>1 DEF FeedbackInv, RoundsOK
<1>9. QueueOK'
    <2>1. \A f : ~ Queued(f)'
        BY <1>2 DEF Queued
    <2>2. \A f \in DOMAIN feedback' : processed'[f] # 0
        BY <1>2, <1>5
    <2>3. DOMAIN feedbackQueue' = {}
        BY <1>2
    <2> QED
        BY <2>1, <2>2, <2>3 DEF QueueOK
<1>10. LearnsTheLatest'
    BY <1>6 DEF LearnsTheLatest, Cognition!LearnsTheLatest, Learned, Heeded
<1> QED
    BY <1>7, <1>8, <1>9, <1>10 DEF FeedbackInv

-----------------------------------------------------------------------------
(* The parts of the composition each take their own steps.                 *)

LEMMA SimulationSteps == [MCNext]_MCVars => [Next]_vars
BY DEF MCNext, MCVars, Simulating, Next, Control, vars

LEMMA FeedbackSteps == [MCNext]_MCVars => [Cognition!Next]_(Cognition!vars)
BY DEF MCNext, MCVars, Simulating, cognitionVars, Cognition!vars

LEMMA CollisionSteps == [MCNext]_MCVars => [Collisions!CheckPair]_(Collisions!vars)
BY DEF MCNext, MCVars, Simulating, collisionVars, Collisions!vars

LEMMA FeedbackKept == FeedbackInv /\ [Cognition!Next]_(Cognition!vars) => FeedbackInv'
<1> SUFFICES ASSUME FeedbackInv, [Cognition!Next]_(Cognition!vars) PROVE FeedbackInv'
    OBVIOUS
<1>1. CASE UNCHANGED Cognition!vars
    BY <1>1 DEF Cognition!vars, FeedbackInv, FeedbackTypes, RoundsOK, QueueOK, Queued, LearnsTheLatest,
        Cognition!LearnsTheLatest, Cognition!Heard, Cognition!TypeOK
<1>2. CASE Cognition!SendObservation \/ Cognition!ProcessObservations \/ Cognition!DetectEmergentBehavior
    BY <1>2, ObservationsKeepFeedback
<1>3. CASE Cognition!ProcessFeedback
    BY <1>3, ProcessKeeps
<1>4. ASSUME NEW a \in Agents, Cognition!Register(a) PROVE FeedbackInv'
    BY <1>4, RegisterKeeps
<1>5. ASSUME NEW a \in Agents, NEW l \in SUBSET Topics, Cognition!ReceiveFeedback(a, l) PROVE FeedbackInv'
    BY <1>5, ReceiveKeeps
<1> QED
    BY <1>1, <1>2, <1>3, <1>4, <1>5 DEF Cognition!Next

\* CognitionIntegrator: what an agent's model says of a topic is the latest feedback on
\* it that was processed since the agent was last registered, whenever it was received
\* and however often the agent is registered anew, for any agents and topics.
THEOREM AgentsLearnTheLatest == MCSpec => []LearnsTheLatest
<1>1. MCInit => FeedbackInv
    BY FeedbackBegins DEF MCInit
<1>2. FeedbackInv /\ [MCNext]_MCVars => FeedbackInv'
    BY FeedbackSteps, FeedbackKept
<1>3. FeedbackInv => LearnsTheLatest
    BY DEF FeedbackInv
<1> QED
    BY <1>1, <1>2, <1>3, PTL DEF MCSpec

-----------------------------------------------------------------------------
(* The entities and the clocks, which no other part of the state is needed for. *)

WorldTypes ==
    /\ entities \subseteq Entities /\ destroyed \subseteq Entities /\ todo \subseteq Entities
    /\ entityState \in [Entities -> EntityState] /\ behaviors \in [Entities -> 0 .. Behaviors]

WorldInv == WorldTypes /\ ActiveExists

ClockTypes ==
    /\ state \in SimulationState
    /\ simTime \in Nat /\ steps \in Nat /\ target \in Nat /\ restores \in Nat /\ aborted \in Nat
    /\ checkpoints \subseteq SimulationCheckpoint
    /\ pc \in {"idle", "entities", "events", "callbacks"}

PhysicsTypes == objects \subseteq Objects /\ forces \in [Objects -> Forces] /\ physTime \in Nat

ClockInv == ClockTypes /\ PhysicsTypes /\ ClocksAgree

LEMMA WorldKept == WorldInv /\ [Next]_vars => WorldInv'
<1> SUFFICES ASSUME WorldInv, [Next]_vars PROVE WorldInv'
    OBVIOUS
<1> USE DEF WorldInv, WorldTypes, ActiveExists
<1>1. CASE UNCHANGED <<world, todo>>
    BY <1>1 DEF world
<1>2. CASE StepBegins
    BY <1>2 DEF StepBegins, world
<1>3. CASE EntityTurn
    BY <1>3 DEF EntityTurn, world
<1>4. CASE ConditionRaises \/ EventRaises
    BY <1>4 DEF ConditionRaises, EventRaises, Aborts, Resting, world
<1>5. ASSUME NEW e \in Entities, CreateEntity(e) PROVE WorldInv'
    BY <1>5 DEF CreateEntity, control
<1>6. ASSUME NEW e \in Entities, DestroyEntity(e) PROVE WorldInv'
    <2>1. EntityState = EntityState \cup {"destroyed"}
        BY DEF EntityState
    <2> QED
        BY <1>6, <2>1 DEF DestroyEntity, control, Deactivated
<1>7. ASSUME NEW e \in Entities, ActivateEntity(e) PROVE WorldInv'
    <2>1. EntityState = EntityState \cup {"active"}
        BY DEF EntityState
    <2> QED
        BY <1>7, <2>1 DEF ActivateEntity, control
<1>8. ASSUME NEW e \in Entities, AddBehavior(e) PROVE WorldInv'
    <2>1. Behaviors \in Nat /\ behaviors[e] \in 0 .. Behaviors
        BY SimulationAssumption
    <2>2. behaviors[e] + 1 \in 0 .. Behaviors
        BY <1>8, <2>1 DEF AddBehavior
    <2>3. behaviors' \in [Entities -> 0 .. Behaviors]
        BY <1>8, <2>2 DEF AddBehavior
    <2> QED
        BY <1>8, <2>3 DEF AddBehavior, control
<1>9. ASSUME NEW e \in Entities, NEW new, TransitionTo(e, new) PROVE WorldInv'
    <2>1. new \in EntityState
        BY <1>9, SimulationAssumption DEF TransitionTo
    <2> QED
        BY <1>9, <2>1 DEF TransitionTo, control
<1>10. ASSUME BehaviorEnds \/ EventsBegin \/ EventTurn \/ EventEnds \/ EventsEnd \/ StepEnds \/ RunUntilReturns
       PROVE  UNCHANGED <<world, todo>>
    BY <1>10 DEF BehaviorEnds, EventsBegin, EventTurn, EventEnds, EventsEnd, StepEnds, RunUntilReturns, world, control
<1>11. ASSUME Control PROVE UNCHANGED <<world, todo>>
    BY <1>11 DEF Control, SetState, CreateCheckpoint, RestoreCheckpoint, RunUntil, world, control
<1>12. ASSUME ActOnObjects \/ ActOnEvents PROVE UNCHANGED <<world, todo>>
    BY <1>12 DEF ActOnObjects, AddObject, RemoveObject, ApplyForce, ActOnEvents, CreateEvent, world, control
<1>13. ASSUME UNCHANGED vars PROVE UNCHANGED <<world, todo>>
    BY <1>13 DEF vars, world, control
<1> QED
    BY <1>1, <1>2, <1>3, <1>4, <1>5, <1>6, <1>7, <1>8, <1>9, <1>10, <1>11, <1>12, <1>13
        DEF Next, Step, ActOnEntities

\* Steps that neither begin nor end one of the runtime.
LEMMA ClocksStay ==
    ASSUME ClockInv, UNCHANGED <<simTime, steps, restores, aborted, checkpoints, physTime>>,
           state' \in SimulationState, target' \in Nat,
           pc' = pc \/ (pc = "entities" /\ pc' = "events") \/ (pc = "callbacks" /\ pc' = "idle"),
           objects' \subseteq Objects, forces' \in [Objects -> Forces]
    PROVE  ClockInv'
BY DEF ClockInv, ClockTypes, PhysicsTypes, ClocksAgree

LEMMA ClocksTyped ==
    ASSUME ClockInv
    PROVE  state \in SimulationState /\ target \in Nat /\ objects \subseteq Objects /\ forces \in [Objects -> Forces]
BY DEF ClockInv, ClockTypes, PhysicsTypes

LEMMA ControlKeepsClocks == ASSUME ClockInv, Control PROVE ClockInv'
<1>1. ASSUME NEW from, NEW to \in SimulationState, SetState(from, to) PROVE ClockInv'
    <2>1. /\ UNCHANGED <<simTime, steps, restores, aborted, checkpoints, physTime, target, pc, objects, forces>>
          /\ state' \in SimulationState
        BY <1>1 DEF SetState, physics, control
    <2>2. /\ UNCHANGED <<simTime, steps, restores, aborted, checkpoints, physTime>>
          /\ state' \in SimulationState /\ target' \in Nat /\ objects' \subseteq Objects /\ forces' \in [Objects -> Forces]
          /\ pc' = pc \/ (pc = "entities" /\ pc' = "events") \/ (pc = "callbacks" /\ pc' = "idle")
        BY <2>1, ClocksTyped
    <2> QED
        BY ONLY <2>2, ClockInv, ClocksStay
<1>2. CASE CreateCheckpoint
    <2>1. checkpoints' \subseteq SimulationCheckpoint
        BY <1>2 DEF CreateCheckpoint, ClockInv, ClockTypes, SimulationCheckpoint
    <2> QED
        BY <1>2, <2>1 DEF CreateCheckpoint, physics, control, ClockInv, ClockTypes, PhysicsTypes, ClocksAgree
<1>3. ASSUME NEW c \in checkpoints, RestoreCheckpoint(c) PROVE ClockInv'
    <2>1. c.timestamp \in Nat
        BY DEF ClockInv, ClockTypes, SimulationCheckpoint
    <2>2. restores' \in Nat \ {0} /\ simTime' \in Nat
        BY <1>3, <2>1 DEF RestoreCheckpoint, ClockInv, ClockTypes
    <2> QED
        BY <1>3, <2>2 DEF RestoreCheckpoint, physics, control, ClockInv, ClockTypes, PhysicsTypes, ClocksAgree
<1>4. ASSUME NEW t \in 1 .. MaxSteps, RunUntil(t) PROVE ClockInv'
    <2>1. t \in Nat
        BY SimulationAssumption
    <2>2. state' \in SimulationState
        BY <1>4 DEF RunUntil, ClockInv, ClockTypes, SimulationState
    <2>3. /\ UNCHANGED <<simTime, steps, restores, aborted, checkpoints, physTime, pc, objects, forces>>
          /\ target' = t
        BY <1>4 DEF RunUntil, physics, control
    <2>4. /\ UNCHANGED <<simTime, steps, restores, aborted, checkpoints, physTime>>
          /\ state' \in SimulationState /\ target' \in Nat /\ objects' \subseteq Objects /\ forces' \in [Objects -> Forces]
          /\ pc' = pc \/ (pc = "entities" /\ pc' = "events") \/ (pc = "callbacks" /\ pc' = "idle")
        BY <2>1, <2>2, <2>3, ClocksTyped
    <2> QED
        BY ONLY <2>4, ClockInv, ClocksStay
<1>5. {"running", "paused", "stopped"} \subseteq SimulationState
    BY DEF SimulationState
<1> QED
    BY <1>1, <1>2, <1>3, <1>4, <1>5 DEF Control

LEMMA ObjectsKeepClocks == ASSUME ClockInv, ActOnObjects PROVE ClockInv'
<1>1. PICK o \in Objects : AddObject(o) \/ RemoveObject(o) \/ \E duration \in 0 .. 1 : ApplyForce(o, duration)
    BY DEF ActOnObjects
<1>2. objects \subseteq Objects /\ forces \in [Objects -> Forces]
    BY DEF ClockInv, PhysicsTypes
<1>3. UNCHANGED <<runtime, physTime, control>>
    BY <1>1 DEF AddObject, RemoveObject, ApplyForce
<1>4. objects' \subseteq Objects
    BY <1>1, <1>2 DEF AddObject, RemoveObject, ApplyForce
<1>5. forces' \in [Objects -> Forces]
    <2>1. PICK f : f = forces[o]
        OBVIOUS
    <2>2. f \in Forces
        BY <1>2, <2>1
    <2>3. [f EXCEPT !.permanent = @ + 1] \in Forces /\ [f EXCEPT !.timed = @ + 1] \in Forces
        BY <2>2 DEF Forces
    <2>4. \/ forces' = [forces EXCEPT ![o] = [f EXCEPT !.permanent = @ + 1]]
          \/ forces' = [forces EXCEPT ![o] = [f EXCEPT !.timed = @ + 1]]
          \/ forces' = forces
        BY <1>1, <1>2, <2>1 DEF AddObject, RemoveObject, ApplyForce
    <2> QED
        BY <1>2, <2>3, <2>4
<1>6. UNCHANGED <<simTime, steps, restores, aborted, checkpoints, physTime, state, target, pc>>
    BY <1>3 DEF runtime, control
<1>7. /\ UNCHANGED <<simTime, steps, restores, aborted, checkpoints, physTime>>
      /\ state' \in SimulationState /\ target' \in Nat /\ objects' \subseteq Objects /\ forces' \in [Objects -> Forces]
      /\ pc' = pc \/ (pc = "entities" /\ pc' = "events") \/ (pc = "callbacks" /\ pc' = "idle")
    BY <1>4, <1>5, <1>6, ClocksTyped
<1> QED
    BY ONLY <1>7, ClockInv, ClocksStay

LEMMA StepKeepsClocks == ASSUME ClockInv, Step \/ ConditionRaises PROVE ClockInv'
<1>1. CASE StepBegins
    <2>1. PICK left \in [objects -> 0 .. MaxForces] :
              forces' = [o \in Objects |-> IF o \in objects THEN Stepped(forces[o], left[o]) ELSE forces[o]]
        BY <1>1 DEF StepBegins, StepPhysics
    <2>2. objects \subseteq Objects /\ forces \in [Objects -> Forces]
        BY DEF ClockInv, PhysicsTypes
    <2>3. ASSUME NEW o \in objects PROVE Stepped(forces[o], left[o]) \in Forces
        <3>1. forces[o] \in Forces /\ left[o] \in Nat
            BY <2>2, SimulationAssumption
        <3> QED
            BY <3>1 DEF Stepped, Forces
    <2>4. forces' \in [Objects -> Forces]
        BY <2>1, <2>2, <2>3
    <2> QED
        BY <1>1, <2>4 DEF StepBegins, StepPhysics, runtime, ClockInv, ClockTypes, PhysicsTypes, ClocksAgree
<1>2. CASE EntityTurn \/ BehaviorEnds \/ EventsBegin \/ EventTurn \/ EventEnds \/ StepEnds
    <2>1. UNCHANGED <<simTime, steps, restores, aborted, checkpoints, physTime, state, target, objects, forces>>
        BY <1>2 DEF EntityTurn, BehaviorEnds, EventsBegin, EventTurn, EventEnds, StepEnds, runtime, physics
    <2>2. pc' = pc \/ (pc = "entities" /\ pc' = "events") \/ (pc = "callbacks" /\ pc' = "idle")
        BY <1>2 DEF EntityTurn, BehaviorEnds, EventsBegin, EventTurn, EventEnds, StepEnds
    <2>3. /\ UNCHANGED <<simTime, steps, restores, aborted, checkpoints, physTime>>
          /\ state' \in SimulationState /\ target' \in Nat /\ objects' \subseteq Objects /\ forces' \in [Objects -> Forces]
          /\ pc' = pc \/ (pc = "entities" /\ pc' = "events") \/ (pc = "callbacks" /\ pc' = "idle")
        BY <2>1, <2>2, ClocksTyped
    <2> QED
        BY ONLY <2>3, ClockInv, ClocksStay
<1>3. CASE EventRaises \/ ConditionRaises
    BY <1>3 DEF EventRaises, ConditionRaises, Aborts, Resting, runtime, physics,
        ClockInv, ClockTypes, PhysicsTypes, ClocksAgree
<1>4. CASE EventsEnd
    BY <1>4 DEF EventsEnd, runtime, physics, ClockInv, ClockTypes, PhysicsTypes, ClocksAgree
<1>5. CASE RunUntilReturns
    <2>1. UNCHANGED <<simTime, steps, restores, aborted, checkpoints, physTime, state, pc, objects, forces>> /\ target' = 0
        BY <1>5 DEF RunUntilReturns, physics, control
    <2>2. /\ UNCHANGED <<simTime, steps, restores, aborted, checkpoints, physTime>>
          /\ state' \in SimulationState /\ target' \in Nat /\ objects' \subseteq Objects /\ forces' \in [Objects -> Forces]
          /\ pc' = pc \/ (pc = "entities" /\ pc' = "events") \/ (pc = "callbacks" /\ pc' = "idle")
        BY <2>1, ClocksTyped
    <2> QED
        BY ONLY <2>2, ClockInv, ClocksStay
<1> QED
    BY <1>1, <1>2, <1>3, <1>4, <1>5 DEF Step

LEMMA ClocksKept == ClockInv /\ [Next]_vars => ClockInv'
<1> SUFFICES ASSUME ClockInv, [Next]_vars PROVE ClockInv'
    OBVIOUS
<1>1. CASE Step \/ ConditionRaises
    BY <1>1, StepKeepsClocks
<1>2. CASE Control
    BY <1>2, ControlKeepsClocks
<1>3. CASE ActOnObjects
    BY <1>3, ObjectsKeepClocks
<1>4. CASE UNCHANGED <<runtime, physics, pc, aborted>>
    <2>1. UNCHANGED <<simTime, steps, restores, aborted, checkpoints, physTime, state, target, pc, objects, forces>>
        BY <1>4 DEF runtime, physics
    <2>2. /\ UNCHANGED <<simTime, steps, restores, aborted, checkpoints, physTime>>
          /\ state' \in SimulationState /\ target' \in Nat /\ objects' \subseteq Objects /\ forces' \in [Objects -> Forces]
          /\ pc' = pc \/ (pc = "entities" /\ pc' = "events") \/ (pc = "callbacks" /\ pc' = "idle")
        BY <2>1, ClocksTyped
    <2> QED
        BY ONLY <2>2, ClockInv, ClocksStay
<1>5. ASSUME ActOnEntities, ~ ConditionRaises PROVE UNCHANGED <<runtime, physics, pc, aborted>>
    BY <1>5 DEF ActOnEntities, CreateEntity, DestroyEntity, ActivateEntity, AddBehavior, TransitionTo, control
<1>6. ASSUME ActOnEvents PROVE UNCHANGED <<runtime, physics, pc, aborted>>
    BY <1>6 DEF ActOnEvents, CreateEvent, control
<1>7. ASSUME UNCHANGED vars PROVE UNCHANGED <<runtime, physics, pc, aborted>>
    BY <1>7 DEF vars, control
<1> QED
    BY <1>1, <1>2, <1>3, <1>4, <1>5, <1>6, <1>7 DEF Next

-----------------------------------------------------------------------------
(* The sort of the queue: every place of it has its own rank, all ranks are taken, and  *)
(* a lower rank has no lower priority.                                                  *)

LEMMA SortFacts ==
    ASSUME ev \in Seq(SimulationEvent), queue \in Seq(DOMAIN ev)
    PROVE  /\ ByPriority \in Seq(DOMAIN ev) /\ DOMAIN ByPriority = DOMAIN queue
           /\ \A i : (\E n \in DOMAIN ByPriority : ByPriority[n] = i) <=> \E k \in DOMAIN queue : queue[k] = i
           /\ (\A j, k \in DOMAIN queue : queue[j] = queue[k] => j = k)
                 => \A m, n \in DOMAIN ByPriority : ByPriority[m] = ByPriority[n] => m = n
           /\ \A m, n \in DOMAIN ByPriority :
                 m < n => ev[ByPriority[m]].priority <= ev[ByPriority[n]].priority
<1>1. PICK L : L = Len(queue)
    OBVIOUS
<1>2. PICK D : D = 1 .. L
    OBVIOUS
<1>3. L \in Nat /\ DOMAIN queue = D /\ IsFiniteSet(D) /\ Cardinality(D) = L
    <2>1. L \in Nat /\ DOMAIN queue = D
        BY <1>1, <1>2
    <2>2. IsFiniteSet(1 .. L) /\ Cardinality(1 .. L) = IF 1 > L THEN 0 ELSE L - 1 + 1
        BY <2>1, FS_Interval
    <2> QED
        BY <1>2, <2>1, <2>2
<1>4. PICK p : p = [k \in D |-> ev[queue[k]].priority]
    OBVIOUS
<1>5. p \in [D -> 0 .. 3] /\ \A k \in D : p[k] = ev[queue[k]].priority /\ queue[k] \in DOMAIN ev
    <2> SUFFICES ASSUME NEW k \in D PROVE ev[queue[k]].priority \in 0 .. 3 /\ queue[k] \in DOMAIN ev
        BY <1>4
    <2>1. queue[k] \in DOMAIN ev
        BY <1>3
    <2>2. ev[queue[k]] \in SimulationEvent
        BY <2>1
    <2> QED
        BY <2>1, <2>2 DEF SimulationEvent, EventPriority
<1>6. \A k \in D : Before(k) = {j \in D : p[j] < p[k] \/ (p[j] = p[k] /\ j < k)}
    BY <1>3, <1>5 DEF Before
<1>7. \A k \in D : p[k] \in Nat /\ k \in Nat
    <2> SUFFICES ASSUME NEW k \in D PROVE p[k] \in Nat /\ k \in Nat
        OBVIOUS
    <2>1. p[k] \in 0 .. 3
        BY <1>5
    <2> QED
        BY <1>2, <2>1
<1>8. ASSUME NEW k \in D
      PROVE  IsFiniteSet(Before(k)) /\ Cardinality(Before(k)) \in 0 .. L - 1 /\ k \notin Before(k)
    <2>1. k \notin Before(k) /\ Before(k) \in SUBSET (D \ {k})
        BY <1>6, <1>7
    <2>2. IsFiniteSet(D \ {k}) /\ Cardinality(D \ {k}) = L - 1
        BY <1>3, FS_RemoveElement
    <2>3. IsFiniteSet(Before(k)) /\ Cardinality(Before(k)) <= L - 1
        BY <2>1, <2>2, FS_Subset
    <2>4. Cardinality(Before(k)) \in Nat
        BY <2>3, FS_CardinalityType
    <2> QED
        BY <1>3, <2>1, <2>3, <2>4
<1>9. ASSUME NEW k \in D, NEW j \in Before(k)
      PROVE  Cardinality(Before(j)) < Cardinality(Before(k))
    <2>1. j \in D
        BY <1>6
    <2>2. Before(j) \in SUBSET Before(k)
        BY <1>6, <1>7, <2>1
    <2>3. j \notin Before(j)
        BY <1>8, <2>1
    <2>4. /\ Cardinality(Before(j)) <= Cardinality(Before(k))
          /\ Cardinality(Before(k)) = Cardinality(Before(j)) => Before(k) = Before(j)
        BY <1>8, <2>2, FS_Subset
    <2>5. Cardinality(Before(j)) \in Nat /\ Cardinality(Before(k)) \in Nat
        BY <1>8, <2>1
    <2> QED
        BY <2>3, <2>4, <2>5
<1>10. \A j, k \in D : j = k \/ j \in Before(k) \/ k \in Before(j)
    BY <1>6, <1>7
<1>11. PICK r : r = [k \in D |-> Cardinality(Before(k)) + 1]
    OBVIOUS
<1>12. r \in Surjection(D, D)
    <2>1. \A k \in D : r[k] \in D
        BY <1>2, <1>3, <1>8, <1>11
    <2>2. ASSUME NEW j \in D, NEW k \in D, r[j] = r[k] PROVE j = k
        <3>1. Cardinality(Before(j)) \in Nat /\ Cardinality(Before(k)) \in Nat
            BY <1>8
        <3>2. Cardinality(Before(j)) = Cardinality(Before(k))
            BY <1>11, <2>2, <3>1
        <3> QED
            BY <1>9, <1>10, <3>1, <3>2
    <2>3. r \in Injection(D, D)
        BY <1>11, <2>1, <2>2 DEF Injection, IsInjective
    <2> QED
        BY <1>3, <2>3, FS_Injection
<1>13. PICK at : at = [n \in D |-> CHOOSE k \in D : Cardinality(Before(k)) = n - 1]
    OBVIOUS
<1>14. ASSUME NEW n \in D PROVE at[n] \in D /\ Cardinality(Before(at[n])) = n - 1
    <2>1. PICK k \in D : r[k] = n
        BY <1>12 DEF Surjection
    <2>2. Cardinality(Before(k)) = n - 1
        BY <1>8, <1>11, <2>1
    <2> QED
        BY <1>13, <2>2
<1>15. ByPriority = [n \in D |-> queue[at[n]]]
    BY <1>3, <1>13 DEF ByPriority
<1>16. PICK s : s = ByPriority
    OBVIOUS
<1>17. DOMAIN s = D /\ \A n \in D : s[n] = queue[at[n]] /\ s[n] \in DOMAIN ev
    BY <1>5, <1>14, <1>15, <1>16
<1>18. s \in Seq(DOMAIN ev)
    <2>1. s \in [1 .. L -> DOMAIN ev]
        BY <1>2, <1>14, <1>15, <1>16, <1>17
    <2> QED
        BY <1>3, <2>1
<1>19. ASSUME NEW k \in D PROVE \E n \in D : at[n] = k
    <2>1. r[k] \in D /\ r[k] - 1 = Cardinality(Before(k))
        BY <1>8, <1>11, <1>12 DEF Surjection
    <2>2. PICK j \in D : j = at[r[k]] /\ Cardinality(Before(j)) = Cardinality(Before(k))
        BY <1>14, <2>1
    <2>3. j = k
        BY <1>8, <1>9, <1>10, <2>2
    <2> QED
        BY <2>1, <2>2, <2>3
<1>20. \A i : (\E n \in D : s[n] = i) <=> \E k \in D : queue[k] = i
    BY <1>14, <1>17, <1>19, SMTT(30)
<1>21. ASSUME NEW m \in D, NEW n \in D, at[m] = at[n] PROVE m = n
    BY <1>2, <1>3, <1>14, <1>21
<1>22. ASSUME NEW m \in D, NEW n \in D, m < n PROVE p[at[m]] <= p[at[n]]
    <2>1. /\ at[m] \in D /\ at[n] \in D /\ m \in Nat /\ n \in Nat
          /\ Cardinality(Before(at[m])) = m - 1 /\ Cardinality(Before(at[n])) = n - 1
        BY <1>7, <1>14
    <2>2. at[n] \notin Before(at[m])
        <3> SUFFICES ASSUME at[n] \in Before(at[m]) PROVE FALSE
            OBVIOUS
        <3>1. n - 1 < m - 1
            BY <1>9, <2>1
        <3> QED
            BY <1>22, <2>1, <3>1
    <2>3. at[m] \in Before(at[n]) \/ at[m] = at[n]
        BY <1>10, <2>1, <2>2
    <2>4. p[at[m]] \in Nat /\ p[at[n]] \in Nat
        BY <1>7, <2>1
    <2>5. CASE at[m] \in Before(at[n])
        <3>1. p[at[m]] < p[at[n]] \/ p[at[m]] = p[at[n]]
            BY <1>6, <2>1, <2>5
        <3> QED
            BY <2>4, <3>1
    <2>6. CASE at[m] = at[n]
        BY <2>4, <2>6
    <2> QED
        BY <2>3, <2>5, <2>6
<1>23. \A m, n \in D : m < n => ev[s[m]].priority <= ev[s[n]].priority
    BY <1>5, <1>14, <1>17, <1>22, SMTT(30)
<1>24. (\A j, k \in D : queue[j] = queue[k] => j = k) => \A m, n \in D : s[m] = s[n] => m = n
    BY <1>14, <1>17, <1>21
<1> QED
    BY <1>3, <1>16, <1>17, <1>18, <1>20, <1>23, <1>24

-----------------------------------------------------------------------------
(* Where an event is: in one place at a time, whatever steps are left by exceptions. *)

Waiting(i) == \E k \in DOMAIN queue : queue[k] = i
IsLogged(i) == \E k \in DOMAIN log : log[k] = i
Handled(i) == pc = "events" /\ Busy /\ current.id = i

EventTypes ==
    /\ ev \in Seq(SimulationEvent) /\ queue \in Seq(DOMAIN ev) /\ log \in Seq(DOMAIN ev)
    /\ lost \subseteq DOMAIN ev /\ IsFiniteSet(lost)
    /\ depth \in 0 .. MaxCascadeDepth /\ depth = Cardinality(lost)
    /\ \A i : Handled(i) => i \in DOMAIN ev

OnePlace(i) ==
    /\ Waiting(i) \/ IsLogged(i) \/ i \in lost \/ Handled(i)
    /\ Waiting(i) => ~ IsLogged(i) /\ i \notin lost /\ ~ Handled(i)
    /\ IsLogged(i) => i \notin lost /\ ~ Handled(i)
    /\ i \in lost => ~ Handled(i)

PlacesOK ==
    /\ \A j, k \in DOMAIN queue : queue[j] = queue[k] => j = k
    /\ \A j, k \in DOMAIN log : log[j] = log[k] => j = k
    /\ \A i \in DOMAIN ev : OnePlace(i)

\* An event has its children, all of them at once, when it is logged.
Caused(i) == {j \in DOMAIN ev : ev[j].parent = i}
SettledCause(i) ==
    /\ ev[i].parent # 0 =>
          /\ ev[i].parent \in DOMAIN ev /\ Known(ev[i].parent) /\ IsLogged(ev[i].parent)
          /\ ~ ev[i].cascade
    /\ Cardinality(Caused(i)) \in {0, ev[i].affected}
CascadesOK == \A i \in DOMAIN ev : SettledCause(i)

\* Batches are numbered by the steps of the physics; the one of a step begins after its
\* update of the entities.
BatchesOK == \A i \in DOMAIN ev : ev[i].batch <= physTime /\ (pc = "entities" => ev[i].batch < physTime)

\* Of the events of one batch those logged, under way and waiting follow each other.
InOrder(i, j) == ev[i].batch = ev[j].batch /\ ev[i].batch > 0 => ev[i].priority <= ev[j].priority
OrderOK ==
    /\ \A j, k \in DOMAIN log : j < k => InOrder(log[j], log[k])
    /\ \A j, k \in DOMAIN queue : j < k => InOrder(queue[j], queue[k])
    /\ \A j \in DOMAIN log, k \in DOMAIN queue : InOrder(log[j], queue[k])
    /\ \A i : Handled(i) => /\ \A j \in DOMAIN log : InOrder(log[j], i)
                            /\ \A k \in DOMAIN queue : InOrder(i, queue[k])

EventsInv == EventTypes /\ PlacesOK /\ CascadesOK /\ BatchesOK /\ OrderOK

LEMMA EventTypesFacts ==
    ASSUME EventTypes
    PROVE  /\ ev \in Seq(SimulationEvent) /\ Len(ev) \in Nat /\ DOMAIN ev = 1 .. Len(ev)
           /\ queue \in Seq(DOMAIN ev) /\ Len(queue) \in Nat /\ DOMAIN queue = 1 .. Len(queue)
           /\ log \in Seq(DOMAIN ev) /\ Len(log) \in Nat /\ DOMAIN log = 1 .. Len(log)
           /\ \A k \in DOMAIN queue : queue[k] \in DOMAIN ev
           /\ \A k \in DOMAIN log : log[k] \in DOMAIN ev
           /\ \A i \in DOMAIN ev :
                 /\ ev[i] \in SimulationEvent /\ ev[i].priority \in 0 .. 3 /\ ev[i].cascade \in BOOLEAN
                 /\ ev[i].affected \in Nat /\ ev[i].parent \in Nat /\ ev[i].batch \in Nat
<1>1. ev \in Seq(SimulationEvent) /\ queue \in Seq(DOMAIN ev) /\ log \in Seq(DOMAIN ev)
    BY DEF EventTypes
<1>2. ASSUME NEW i \in DOMAIN ev
      PROVE  /\ ev[i] \in SimulationEvent /\ ev[i].priority \in 0 .. 3 /\ ev[i].cascade \in BOOLEAN
             /\ ev[i].affected \in Nat /\ ev[i].parent \in Nat /\ ev[i].batch \in Nat
    <2>1. ev[i] \in SimulationEvent
        BY <1>1
    <2> QED
        BY <2>1 DEF SimulationEvent, EventPriority
<1> QED
    BY <1>1, <1>2

\* Steps that do not touch the events.
LEMMA EventsStay ==
    ASSUME EventsInv, UNCHANGED <<ev, queue, log, depth, lost>>, \A i : Handled(i)' <=> Handled(i), BatchesOK'
    PROVE  EventsInv'
<1>1. EventTypes'
    BY DEF EventsInv, EventTypes
<1>2. PlacesOK'
    BY DEF EventsInv, PlacesOK, OnePlace, Waiting, IsLogged
<1>3. CascadesOK'
    BY DEF EventsInv, CascadesOK, SettledCause, Caused, Known, IsLogged
<1>4. OrderOK'
    BY DEF EventsInv, OrderOK, InOrder
<1> QED
    BY <1>1, <1>2, <1>3, <1>4 DEF EventsInv

LEMMA EventTurnKeeps == ASSUME EventsInv, EventTurn PROVE EventsInv'
<1>0. EventTypes
    BY DEF EventsInv
<1>1. PICK K : K = Len(queue)
    OBVIOUS
<1>2. PICK h : h = queue[1]
    OBVIOUS
<1>3. /\ K \in Nat \ {0} /\ DOMAIN queue = 1 .. K /\ h \in DOMAIN ev
      /\ queue' \in Seq(DOMAIN ev) /\ DOMAIN queue' = 1 .. K - 1
      /\ \A k \in 1 .. K - 1 : queue'[k] = queue[k + 1] /\ k + 1 \in 1 .. K
    <2>1. queue \in Seq(DOMAIN ev) /\ queue # <<>> /\ queue' = Tail(queue)
        BY <1>0, EventTypesFacts DEF EventTurn
    <2>2. K \in Nat \ {0} /\ DOMAIN queue = 1 .. K
        BY <1>1, <2>1
    <2>3. h \in DOMAIN ev
        BY <1>2, <2>1, <2>2
    <2> QED
        BY <1>1, <2>1, <2>2, <2>3
<1>4. /\ UNCHANGED <<ev, log, depth, lost, pc, physTime>> /\ pc = "events" /\ ~ Busy
      /\ current' = [id |-> h, left |-> 1]
    <2>1. Head(queue) = h
        BY <1>2 DEF EventTurn
    <2> QED
        BY <2>1 DEF EventTurn, physics
<1>5. /\ \A i : Handled(i)' <=> i = h
      /\ \A i : ~ Handled(i)
    BY <1>4 DEF Handled, Busy
<1>6. \A j, k \in 1 .. K : queue[j] = queue[k] => j = k
    BY <1>3 DEF EventsInv, PlacesOK
<1>7. \A i : Waiting(i)' <=> Waiting(i) /\ i # h
    <2> SUFFICES ASSUME NEW i PROVE Waiting(i)' <=> Waiting(i) /\ i # h
        OBVIOUS
    <2>1. ASSUME Waiting(i)' PROVE Waiting(i) /\ i # h
        <3>1. PICK k \in 1 .. K - 1 : queue'[k] = i
            BY <1>3, <2>1 DEF Waiting
        <3>2. k + 1 \in 1 .. K /\ queue[k + 1] = i /\ k + 1 # 1 /\ 1 \in 1 .. K
            BY <1>3, <3>1
        <3> QED
            BY <1>2, <1>3, <1>6, <3>2 DEF Waiting
    <2>2. ASSUME Waiting(i), i # h PROVE Waiting(i)'
        <3>1. PICK k \in 1 .. K : queue[k] = i
            BY <1>3, <2>2 DEF Waiting
        <3>2. k # 1
            BY <1>2, <2>2, <3>1
        <3>3. k - 1 \in 1 .. K - 1 /\ k - 1 + 1 = k
            BY <1>3, <3>2
        <3> QED
            BY <1>3, <3>1, <3>3 DEF Waiting
    <2> QED
        BY <2>1, <2>2
<1>8. Waiting(h)
    BY <1>2, <1>3 DEF Waiting
<1>9. EventTypes'
    BY <1>0, <1>3, <1>4, <1>5 DEF EventTypes
<1>10. PlacesOK'
    <2>1. \A j, k \in 1 .. K - 1 : queue'[j] = queue'[k] => j = k
        <3> SUFFICES ASSUME NEW j \in 1 .. K - 1, NEW k \in 1 .. K - 1, queue'[j] = queue'[k] PROVE j = k
            OBVIOUS
        <3>1. queue[j + 1] = queue[k + 1] /\ j + 1 \in 1 .. K /\ k + 1 \in 1 .. K
            BY <1>3
        <3>2. j + 1 = k + 1
            BY <1>6, <3>1
        <3> QED
            BY <1>3, <3>2
    <2>2. ASSUME NEW i \in DOMAIN ev PROVE OnePlace(i)'
        <3>1. OnePlace(i) /\ (IsLogged(i)' <=> IsLogged(i))
            BY <1>4 DEF EventsInv, PlacesOK, IsLogged
        <3> QED
            BY <1>4, <1>5, <1>7, <1>8, <3>1 DEF OnePlace
    <2> QED
        BY <1>3, <1>4, <2>1, <2>2 DEF EventsInv, PlacesOK
<1>11. CascadesOK' /\ BatchesOK'
    BY <1>4 DEF EventsInv, CascadesOK, SettledCause, Caused, Known, IsLogged, BatchesOK
<1>12. OrderOK'
    <2>1. \A i, j : InOrder(i, j)' <=> InOrder(i, j)
        BY <1>4 DEF InOrder
    <2>2. \A j, k \in 1 .. K - 1 : j < k => InOrder(queue'[j], queue'[k])
        <3> SUFFICES ASSUME NEW j \in 1 .. K - 1, NEW k \in 1 .. K - 1, j < k PROVE InOrder(queue[j + 1], queue[k + 1])
            BY <1>3
        <3>1. j + 1 < k + 1 /\ j + 1 \in 1 .. K /\ k + 1 \in 1 .. K
            BY <1>3
        <3> QED
            BY <1>3, <3>1 DEF EventsInv, OrderOK
    <2>3. \A j \in DOMAIN log, k \in 1 .. K - 1 : InOrder(log[j], queue'[k])
        BY <1>3 DEF EventsInv, OrderOK
    <2>4. \A j \in DOMAIN log : InOrder(log[j], h)
        BY <1>2, <1>3 DEF EventsInv, OrderOK
    <2>5. \A k \in 1 .. K - 1 : InOrder(h, queue'[k])
        <3> SUFFICES ASSUME NEW k \in 1 .. K - 1 PROVE InOrder(queue[1], queue[k + 1])
            BY <1>2, <1>3
        <3>1. 1 < k + 1 /\ 1 \in 1 .. K /\ k + 1 \in 1 .. K
            BY <1>3
        <3> QED
            BY <1>3, <3>1 DEF EventsInv, OrderOK
    <2>6. \A j, k \in DOMAIN log : j < k => InOrder(log[j], log[k])
        BY DEF EventsInv, OrderOK
    <2> QED
        BY <1>3, <1>4, <1>5, <2>1, <2>2, <2>3, <2>4, <2>5, <2>6 DEF OrderOK
<1> QED
    BY <1>9, <1>10, <1>11, <1>12 DEF EventsInv

\* The event whose cascade raises keeps one level of depth.
LEMMA EventRaisesKeeps == ASSUME EventsInv, EventRaises PROVE EventsInv'
<1>0. EventTypes
    BY DEF EventsInv
<1>1. PICK c : c = current.id
    OBVIOUS
<1>2. /\ Handled(c) /\ \A i : Handled(i) <=> i = c
      /\ UNCHANGED <<ev, queue, log, physTime>> /\ pc' = "idle" /\ \A i : ~ Handled(i)'
      /\ depth' = depth + 1 /\ lost' = lost \cup {c} /\ depth < MaxCascadeDepth
    BY <1>1 DEF EventRaises, Handled, Aborts, Resting, physics, DepthAfterRaise, CascadeRaises, Cascades
<1>3. c \in DOMAIN ev /\ c \notin lost /\ ~ Waiting(c) /\ ~ IsLogged(c)
    BY <1>0, <1>2 DEF EventTypes, EventsInv, PlacesOK, OnePlace
<1>4. EventTypes'
    <2>1. IsFiniteSet(lost') /\ Cardinality(lost') = Cardinality(lost) + 1
        BY <1>0, <1>2, <1>3, FS_AddElement DEF EventTypes
    <2>2. depth' = Cardinality(lost') /\ depth' \in 0 .. MaxCascadeDepth
        BY <1>0, <1>2, <2>1, SimulationAssumption DEF EventTypes
    <2> QED
        BY <1>0, <1>2, <1>3, <2>1, <2>2 DEF EventTypes
<1>5. PlacesOK'
    <2>1. \A i : (Waiting(i)' <=> Waiting(i)) /\ (IsLogged(i)' <=> IsLogged(i))
        BY <1>2 DEF Waiting, IsLogged
    <2>2. ASSUME NEW i \in DOMAIN ev PROVE OnePlace(i)'
        <3>1. OnePlace(i)
            BY DEF EventsInv, PlacesOK
        <3> QED
            BY <1>2, <1>3, <2>1, <3>1 DEF OnePlace
    <2> QED
        BY <1>2, <2>2 DEF EventsInv, PlacesOK
<1>6. CascadesOK' /\ BatchesOK'
    BY <1>2 DEF EventsInv, CascadesOK, SettledCause, Caused, Known, IsLogged, BatchesOK
<1>7. OrderOK'
    BY <1>2 DEF EventsInv, OrderOK, InOrder
<1> QED
    BY <1>4, <1>5, <1>6, <1>7 DEF EventsInv

\* The waiting events become a batch, later than those of all others.
LEMMA EventsBeginKeeps ==
    ASSUME EventsInv, EventsBegin, physTime \in Nat
    PROVE  EventsInv'
<1>0. EventTypes
    BY DEF EventsInv
<1>1. PICK q : q = queue'
    OBVIOUS
<1>2. /\ pc = "entities" /\ pc' = "events" /\ ~ Busy /\ q = ByPriority
      /\ ev' = [i \in DOMAIN ev |-> IF Contains(queue, i) THEN [ev[i] EXCEPT !.batch = physTime] ELSE ev[i]]
      /\ UNCHANGED <<log, depth, lost, physTime, current>>
    BY <1>1 DEF EventsBegin, physics
<1>3. /\ q \in Seq(DOMAIN ev) /\ DOMAIN q = DOMAIN queue
      /\ \A i : (\E n \in DOMAIN q : q[n] = i) <=> Waiting(i)
      /\ \A m, n \in DOMAIN q : q[m] = q[n] => m = n
      /\ \A m, n \in DOMAIN q : m < n => ev[q[m]].priority <= ev[q[n]].priority
    <2>1. \A j, k \in DOMAIN queue : queue[j] = queue[k] => j = k
        BY DEF EventsInv, PlacesOK
    <2> QED
        BY <1>0, <1>2, <2>1, EventTypesFacts, SortFacts DEF Waiting
<1>4. \A i : ~ Handled(i) /\ ~ Handled(i)'
    BY <1>2 DEF Handled, Busy
<1>5. \A i : (Waiting(i)' <=> Waiting(i)) /\ (IsLogged(i)' <=> IsLogged(i))
    BY <1>1, <1>2, <1>3 DEF Waiting, IsLogged
<1>6. /\ DOMAIN ev' = DOMAIN ev
      /\ \A i \in DOMAIN ev : ev'[i] = IF Waiting(i) THEN [ev[i] EXCEPT !.batch = physTime] ELSE ev[i]
    <2>1. \A i : Contains(queue, i) <=> Waiting(i)
        BY <1>0, EventTypesFacts DEF Contains, Waiting
    <2> QED
        BY <1>2, <2>1
<1>7. ASSUME NEW i \in DOMAIN ev
      PROVE  /\ ev'[i] \in SimulationEvent
             /\ ev'[i].priority = ev[i].priority /\ ev'[i].cascade = ev[i].cascade
             /\ ev'[i].affected = ev[i].affected /\ ev'[i].parent = ev[i].parent
             /\ ev'[i].batch = IF Waiting(i) THEN physTime ELSE ev[i].batch
    <2>1. PICK x : x = ev[i]
        OBVIOUS
    <2>2. x \in SimulationEvent
        BY <1>0, <2>1, EventTypesFacts
    <2>3. /\ [x EXCEPT !.batch = physTime] \in SimulationEvent
          /\ [x EXCEPT !.batch = physTime].priority = x.priority /\ [x EXCEPT !.batch = physTime].cascade = x.cascade
          /\ [x EXCEPT !.batch = physTime].affected = x.affected /\ [x EXCEPT !.batch = physTime].parent = x.parent
          /\ [x EXCEPT !.batch = physTime].batch = physTime
        BY <2>2 DEF SimulationEvent
    <2> QED
        BY <1>6, <2>1, <2>2, <2>3
<1>8. EventTypes'
    <2>1. ev' \in Seq(SimulationEvent)
        <3>1. ev' \in [1 .. Len(ev) -> SimulationEvent] /\ Len(ev) \in Nat
            BY <1>0, <1>2, <1>6, <1>7, EventTypesFacts
        <3> QED
            BY <3>1
    <2> QED
        BY <1>0, <1>1, <1>2, <1>3, <1>4, <1>6, <2>1 DEF EventTypes
<1>9. PlacesOK'
    <2>1. ASSUME NEW i \in DOMAIN ev PROVE OnePlace(i)'
        <3>1. OnePlace(i)
            BY DEF EventsInv, PlacesOK
        <3> QED
            BY <1>2, <1>4, <1>5, <3>1 DEF OnePlace
    <2> QED
        BY <1>1, <1>2, <1>3, <1>6, <2>1 DEF EventsInv, PlacesOK
<1>10. CascadesOK'
    <2>1. ASSUME NEW i \in DOMAIN ev PROVE Caused(i)' = Caused(i)
        BY <1>6, <1>7 DEF Caused
    <2>2. \A i \in DOMAIN ev : Known(i)' <=> Known(i)
        BY <1>7 DEF Known
    <2> QED
        BY <1>5, <1>6, <1>7, <2>1, <2>2 DEF EventsInv, CascadesOK, SettledCause
<1>11. BatchesOK'
    <2> SUFFICES ASSUME NEW i \in DOMAIN ev PROVE ev'[i].batch <= physTime
        BY <1>2, <1>6 DEF BatchesOK
    <2>1. ev[i].batch <= physTime
        BY DEF EventsInv, BatchesOK
    <2> QED
        BY <1>7, <2>1
<1>12. OrderOK'
    <2>1. ASSUME NEW k \in DOMAIN log
          PROVE  log[k] \in DOMAIN ev /\ ev'[log[k]] = ev[log[k]] /\ ev[log[k]].batch \in Nat /\ ev[log[k]].batch < physTime
        <3>1. log[k] \in DOMAIN ev /\ IsLogged(log[k])
            BY <1>0, EventTypesFacts DEF IsLogged
        <3>2. ~ Waiting(log[k])
            BY <3>1 DEF EventsInv, PlacesOK, OnePlace
        <3> QED
            BY <1>0, <1>2, <1>6, <3>1, <3>2, EventTypesFacts DEF EventsInv, BatchesOK
    <2>2. ASSUME NEW j \in DOMAIN log, NEW k \in DOMAIN log, j < k PROVE InOrder(log[j], log[k])'
        <3>1. InOrder(log[j], log[k])
            BY <2>2 DEF EventsInv, OrderOK
        <3> QED
            BY <1>2, <2>1, <3>1 DEF InOrder
    <2>3. ASSUME NEW k \in DOMAIN q PROVE q[k] \in DOMAIN ev /\ ev'[q[k]].batch = physTime /\ ev'[q[k]].priority = ev[q[k]].priority
        BY <1>3, <1>7
    <2>4. ASSUME NEW j \in DOMAIN log, NEW k \in DOMAIN q PROVE InOrder(log[j], q[k])'
        <3>1. ev'[log[j]].batch # ev'[q[k]].batch
            BY <2>1, <2>3
        <3> QED
            BY <1>1, <1>2, <3>1 DEF InOrder
    <2>5. ASSUME NEW j \in DOMAIN q, NEW k \in DOMAIN q, j < k PROVE InOrder(q[j], q[k])'
        <3>1. ev[q[j]].priority <= ev[q[k]].priority
            BY <1>3, <2>5
        <3> QED
            BY <1>1, <2>3, <3>1 DEF InOrder
    <2> QED
        BY <1>1, <1>2, <1>4, <2>2, <2>4, <2>5 DEF OrderOK
<1> QED
    BY <1>8, <1>9, <1>10, <1>11, <1>12 DEF EventsInv

\* Events join the queue and the one under way, if it ends, joins the log.
Ends(c) == Handled(c) /\ log' = Append(log, c) /\ \A i : ~ Handled(i)'
GoesOn == log' = log /\ \A i : Handled(i)' <=> Handled(i)
Joins(n) ==
    /\ ev' \in Seq(SimulationEvent) /\ Len(ev') = Len(ev) + n
    /\ \A i \in 1 .. Len(ev) : ev'[i] = ev[i]
    /\ \A i \in Len(ev) + 1 .. Len(ev) + n : ev'[i].batch = 0
    /\ queue' \in Seq(DOMAIN ev') /\ Len(queue') = Len(queue) + n
    /\ \A k \in 1 .. Len(queue) : queue'[k] = queue[k]
    /\ \A k \in Len(queue) + 1 .. Len(queue) + n : queue'[k] = Len(ev) + (k - Len(queue))
    /\ UNCHANGED <<depth, lost, pc, physTime>>

LEMMA JoinPlaces ==
    ASSUME EventsInv, NEW n \in Nat, Joins(n), GoesOn \/ \E c : Ends(c)
    PROVE  /\ \A i : Waiting(i)' <=> Waiting(i) \/ i \in Len(ev) + 1 .. Len(ev) + n
           /\ \A i : IsLogged(i)' <=> IsLogged(i) \/ (Handled(i) /\ ~ Handled(i)')
           /\ \A i : Handled(i)' => Handled(i)
           /\ log' \in Seq(DOMAIN ev)
<1>0. EventTypes
    BY DEF EventsInv
<1>1. PICK N : N = Len(ev)
    OBVIOUS
<1>2. PICK K : K = Len(queue)
    OBVIOUS
<1>3. /\ N \in Nat /\ K \in Nat /\ DOMAIN ev = 1 .. N /\ DOMAIN queue = 1 .. K /\ DOMAIN queue' = 1 .. K + n
      /\ \A k \in 1 .. K : queue'[k] = queue[k]
      /\ \A k \in K + 1 .. K + n : queue'[k] = N + (k - K)
    BY <1>0, <1>1, <1>2, EventTypesFacts DEF Joins
<1>4. ASSUME NEW i PROVE Waiting(i)' <=> Waiting(i) \/ i \in N + 1 .. N + n
    <2>1. ASSUME Waiting(i)' PROVE Waiting(i) \/ i \in N + 1 .. N + n
        <3>1. PICK k \in 1 .. K + n : queue'[k] = i
            BY <1>3, <2>1 DEF Waiting
        <3>2. CASE k \in 1 .. K
            BY <1>3, <3>1, <3>2 DEF Waiting
        <3>3. CASE k \in K + 1 .. K + n
            BY <1>3, <3>1, <3>3
        <3> QED
            BY <1>3, <3>2, <3>3
    <2>2. ASSUME Waiting(i) PROVE Waiting(i)'
        BY <1>3, <2>2 DEF Waiting
    <2>3. ASSUME i \in N + 1 .. N + n PROVE Waiting(i)'
        <3>1. PICK k : k = K + (i - N)
            OBVIOUS
        <3>2. k \in K + 1 .. K + n /\ k \in 1 .. K + n /\ N + (k - K) = i
            BY <1>3, <2>3, <3>1
        <3> QED
            BY <1>3, <3>2 DEF Waiting
    <2> QED
        BY <2>1, <2>2, <2>3
<1>5. /\ \A i : IsLogged(i)' <=> IsLogged(i) \/ (Handled(i) /\ ~ Handled(i)')
      /\ \A i : Handled(i)' => Handled(i)
      /\ log' \in Seq(DOMAIN ev)
    <2>1. CASE GoesOn
        BY <1>0, <2>1, EventTypesFacts DEF GoesOn, IsLogged
    <2>2. CASE \E c : Ends(c)
        <3>1. PICK c : Ends(c)
            BY <2>2
        <3>2. c \in DOMAIN ev /\ \A i : Handled(i) <=> i = c
            BY <1>0, <3>1 DEF Ends, EventTypes, Handled
        <3>3. log \in Seq(DOMAIN ev)
            BY <1>0, EventTypesFacts
        <3>4. /\ log' \in Seq(DOMAIN ev) /\ Len(log) \in Nat /\ DOMAIN log' = 1 .. Len(log) + 1
              /\ DOMAIN log = 1 .. Len(log)
              /\ log'[Len(log) + 1] = c /\ \A k \in 1 .. Len(log) : log'[k] = log[k]
            BY <3>1, <3>2, <3>3, AppendFacts DEF Ends
        <3>5. ASSUME NEW i PROVE IsLogged(i)' <=> IsLogged(i) \/ i = c
            <4>1. \A k \in DOMAIN log' : k = Len(log) + 1 \/ k \in DOMAIN log
                BY <3>4
            <4>2. Len(log) + 1 \in DOMAIN log' /\ DOMAIN log \subseteq DOMAIN log'
                BY <3>4
            <4> QED
                BY <3>4, <4>1, <4>2 DEF IsLogged
        <3> QED
            BY <3>1, <3>2, <3>4, <3>5 DEF Ends
    <2> QED
        BY <2>1, <2>2
<1> QED
    BY <1>1, <1>4, <1>5

LEMMA JoinKeeps ==
    ASSUME EventsInv, NEW n \in Nat, Joins(n), GoesOn \/ \E c : Ends(c), physTime \in Nat,
           pc = "entities" => physTime > 0
    PROVE  EventTypes' /\ PlacesOK' /\ BatchesOK' /\ OrderOK'
<1>0. EventTypes
    BY DEF EventsInv
<1>1. PICK N : N = Len(ev)
    OBVIOUS
<1>2. PICK K : K = Len(queue)
    OBVIOUS
<1>3. /\ N \in Nat /\ K \in Nat /\ DOMAIN ev = 1 .. N /\ DOMAIN queue = 1 .. K
      /\ DOMAIN queue' = 1 .. K + n /\ DOMAIN ev' = 1 .. N + n
      /\ \A k \in 1 .. K : queue'[k] = queue[k]
      /\ \A k \in K + 1 .. K + n : queue'[k] = N + (k - K)
      /\ \A i \in 1 .. N : ev'[i] = ev[i]
      /\ \A i \in N + 1 .. N + n : ev'[i].batch = 0
      /\ ev' \in Seq(SimulationEvent) /\ queue' \in Seq(DOMAIN ev')
      /\ UNCHANGED <<depth, lost, pc, physTime>>
    BY <1>0, <1>1, <1>2, EventTypesFacts DEF Joins
<1>4. /\ 1 .. N \subseteq 1 .. N + n /\ 1 .. K \subseteq 1 .. K + n
      /\ \A i \in 1 .. N + n : i \in 1 .. N \/ i \in N + 1 .. N + n
      /\ \A k \in 1 .. K + n : k \in 1 .. K \/ k \in K + 1 .. K + n
      /\ \A i \in N + 1 .. N + n : i \notin 1 .. N
    BY <1>3
<1>5. /\ \A i : Waiting(i)' <=> Waiting(i) \/ i \in N + 1 .. N + n
      /\ \A i : IsLogged(i)' <=> IsLogged(i) \/ (Handled(i) /\ ~ Handled(i)')
      /\ \A i : Handled(i)' => Handled(i)
      /\ log' \in Seq(DOMAIN ev)
    BY <1>1, JoinPlaces
<1>6. \A i : Waiting(i) \/ IsLogged(i) \/ i \in lost \/ Handled(i) => i \in 1 .. N
    BY <1>0, <1>3, EventTypesFacts DEF Waiting, IsLogged, EventTypes
<1>7. EventTypes'
    <2>1. log' \in Seq(DOMAIN ev')
        <3>1. log' \in [1 .. Len(log') -> DOMAIN ev] /\ Len(log') \in Nat
            BY <1>5
        <3>2. log' \in [1 .. Len(log') -> DOMAIN ev']
            BY <1>3, <1>4, <3>1
        <3> QED
            BY <3>1, <3>2
    <2>2. \A i : Handled(i)' => i \in DOMAIN ev'
        BY <1>3, <1>4, <1>5, <1>6
    <2> QED
        BY <1>0, <1>3, <1>4, <2>1, <2>2 DEF EventTypes
<1>8. PlacesOK'
    <2>1. ASSUME NEW j \in 1 .. K + n, NEW k \in 1 .. K + n, queue'[j] = queue'[k] PROVE j = k
        <3>1. \A m \in 1 .. K : queue[m] \in 1 .. N
            BY <1>0, <1>3, EventTypesFacts
        <3>2. CASE j \in 1 .. K /\ k \in 1 .. K
            BY <1>3, <2>1, <3>2 DEF EventsInv, PlacesOK
        <3>3. CASE j \in K + 1 .. K + n /\ k \in K + 1 .. K + n
            <4>1. N + (j - K) = N + (k - K)
                BY <1>3, <2>1, <3>3
            <4> QED
                BY <1>3, <4>1
        <3>4. CASE j \in 1 .. K /\ k \in K + 1 .. K + n
            <4>1. queue'[j] \in 1 .. N /\ queue'[k] = N + (k - K)
                BY <1>3, <3>1, <3>4
            <4> QED
                BY <1>3, <2>1, <3>4, <4>1
        <3>5. CASE k \in 1 .. K /\ j \in K + 1 .. K + n
            <4>1. queue'[k] \in 1 .. N /\ queue'[j] = N + (j - K)
                BY <1>3, <3>1, <3>5
            <4> QED
                BY <1>3, <2>1, <3>5, <4>1
        <3> QED
            BY <1>4, <3>2, <3>3, <3>4, <3>5
    <2>2. ASSUME NEW i \in 1 .. N + n PROVE OnePlace(i)'
        <3>1. CASE i \in 1 .. N
            <4>1. OnePlace(i)
                BY <1>3, <3>1 DEF EventsInv, PlacesOK
            <4> QED
                BY <1>3, <1>4, <1>5, <3>1, <4>1 DEF OnePlace
        <3>2. CASE i \in N + 1 .. N + n
            BY <1>3, <1>4, <1>5, <1>6, <3>2 DEF OnePlace
        <3> QED
            BY <1>4, <3>1, <3>2
    <2>3. \A j, k \in DOMAIN log' : log'[j] = log'[k] => j = k
        <3>1. CASE GoesOn
            BY <3>1 DEF GoesOn, EventsInv, PlacesOK
        <3>2. CASE \E c : Ends(c)
            <4>1. PICK c : Ends(c)
                BY <3>2
            <4>2. c \in DOMAIN ev /\ ~ IsLogged(c)
                BY <1>0, <4>1 DEF Ends, EventTypes, EventsInv, PlacesOK, OnePlace
            <4>3. /\ Len(log) \in Nat /\ DOMAIN log' = 1 .. Len(log) + 1 /\ DOMAIN log = 1 .. Len(log)
                  /\ log'[Len(log) + 1] = c /\ \A k \in 1 .. Len(log) : log'[k] = log[k]
                <5>1. log \in Seq(DOMAIN ev)
                    BY <1>0, EventTypesFacts
                <5> QED
                    BY <4>1, <4>2, <5>1, AppendFacts DEF Ends
            <4>4. \A k \in DOMAIN log' : k = Len(log) + 1 \/ k \in DOMAIN log
                BY <4>3
            <4>5. \A k \in DOMAIN log : log[k] # c
                BY <4>2 DEF IsLogged
            <4>6. \A j, k \in DOMAIN log : log[j] = log[k] => j = k
                BY DEF EventsInv, PlacesOK
            <4> QED
                BY <4>3, <4>4, <4>5, <4>6
        <3> QED
            BY <3>1, <3>2
    <2> QED
        BY <1>3, <2>1, <2>2, <2>3 DEF PlacesOK
<1>9. BatchesOK'
    <2> SUFFICES ASSUME NEW i \in 1 .. N + n
                 PROVE  ev'[i].batch <= physTime /\ (pc = "entities" => ev'[i].batch < physTime)
        BY <1>3 DEF BatchesOK
    <2>1. CASE i \in 1 .. N
        BY <1>3, <2>1 DEF EventsInv, BatchesOK
    <2>2. CASE i \in N + 1 .. N + n
        BY <1>3, <2>2
    <2> QED
        BY <1>4, <2>1, <2>2
<1>10. \A i, j \in 1 .. N : InOrder(i, j) => InOrder(i, j)'
    BY <1>3 DEF InOrder
<1>11. \A i, j : i \in N + 1 .. N + n \/ j \in N + 1 .. N + n => InOrder(i, j)'
    BY <1>3 DEF InOrder
<1>Q. PICK q : q = queue'
    OBVIOUS
<1>G. PICK g : g = log
    OBVIOUS
<1>12. \A k \in 1 .. K + n : queue'[k] \in N + 1 .. N + n \/ (k \in 1 .. K /\ queue'[k] = queue[k] /\ queue[k] \in 1 .. N)
    <2> SUFFICES ASSUME NEW k \in K + 1 .. K + n PROVE queue'[k] \in N + 1 .. N + n
        BY <1>0, <1>3, <1>4, EventTypesFacts
    <2>1. N \in Nat /\ K \in Nat
        BY <1>3
    <2>2. N + (k - K) \in N + 1 .. N + n
        BY ONLY <2>1, n \in Nat, k \in K + 1 .. K + n
    <2> QED
        BY <1>3, <2>1, SMTT(30)
<1>13. \A j, k \in 1 .. K + n : j < k => InOrder(q[j], q[k])'
    <2> SUFFICES ASSUME NEW j \in 1 .. K + n, NEW k \in 1 .. K + n, j < k PROVE InOrder(q[j], q[k])'
        OBVIOUS
    <2>1. CASE q[j] \in N + 1 .. N + n \/ q[k] \in N + 1 .. N + n
        BY <1>11, <2>1
    <2>2. CASE j \in 1 .. K /\ k \in 1 .. K
        <3>1. InOrder(queue[j], queue[k]) /\ queue[j] \in 1 .. N /\ queue[k] \in 1 .. N
            BY <1>0, <1>3, <2>2, EventTypesFacts DEF EventsInv, OrderOK
        <3> QED
            BY <1>3, <1>10, <1>Q, <2>2, <3>1
    <2> QED
        BY <1>12, <1>Q, <2>1, <2>2
\* What precedes the whole queue still does.
<1>14. ASSUME NEW i \in 1 .. N, \A k \in 1 .. K : InOrder(i, queue[k])
       PROVE  \A k \in 1 .. K + n : InOrder(i, q[k])'
    BY <1>10, <1>11, <1>12, <1>14, <1>Q
<1>15. \A k \in DOMAIN g : g[k] \in 1 .. N
    BY <1>0, <1>3, <1>G, EventTypesFacts
<1>16. \A j, k \in DOMAIN g : j < k => InOrder(g[j], g[k])'
    BY <1>10, <1>15, <1>G DEF EventsInv, OrderOK
<1>17. \A j \in DOMAIN g, k \in 1 .. K + n : InOrder(g[j], q[k])'
    <2> SUFFICES ASSUME NEW j \in DOMAIN g PROVE \A k \in 1 .. K + n : InOrder(g[j], q[k])'
        OBVIOUS
    <2>1. \A k \in 1 .. K : InOrder(g[j], queue[k])
        BY <1>3, <1>G DEF EventsInv, OrderOK
    <2> QED
        BY <1>14, <1>15, <2>1
<1>18. ASSUME NEW i, Handled(i)
       PROVE  /\ i \in 1 .. N /\ \A j \in DOMAIN g : InOrder(g[j], i)'
              /\ \A k \in 1 .. K + n : InOrder(i, q[k])'
    <2>1. i \in 1 .. N
        BY <1>6, <1>18
    <2>2. /\ \A j \in DOMAIN g : InOrder(g[j], i)
          /\ \A k \in 1 .. K : InOrder(i, queue[k])
        BY <1>3, <1>18, <1>G DEF EventsInv, OrderOK
    <2> QED
        BY <1>10, <1>14, <1>15, <2>1, <2>2
<1>19. OrderOK'
    <2>1. CASE GoesOn
        BY <1>3, <1>13, <1>16, <1>17, <1>18, <1>G, <1>Q, <2>1 DEF GoesOn, OrderOK
    <2>2. CASE \E c : Ends(c)
        <3>1. PICK c : Ends(c)
            BY <2>2
        <3>2. c \in DOMAIN ev
            BY <1>0, <3>1 DEF Ends, EventTypes
        <3>L. PICK l : l = log'
            OBVIOUS
        <3>3. /\ Len(log) \in Nat /\ DOMAIN l = 1 .. Len(log) + 1 /\ DOMAIN g = 1 .. Len(log)
              /\ l[Len(log) + 1] = c /\ \A k \in 1 .. Len(log) : l[k] = g[k]
            <4>1. log \in Seq(DOMAIN ev)
                BY <1>0, EventTypesFacts
            <4> QED
                BY <1>G, <3>1, <3>2, <3>L, <4>1, AppendFacts DEF Ends
        <3>4. \A k \in DOMAIN l : k = Len(log) + 1 \/ k \in DOMAIN g
            BY <3>3
        <3>5. /\ \A j \in DOMAIN g : InOrder(g[j], c)'
              /\ \A k \in 1 .. K + n : InOrder(c, q[k])'
            BY <1>18, <3>1 DEF Ends
        <3>6. \A j, k \in DOMAIN l : j < k => InOrder(l[j], l[k])'
            <4> SUFFICES ASSUME NEW j \in DOMAIN l, NEW k \in DOMAIN l, j < k PROVE InOrder(l[j], l[k])'
                OBVIOUS
            <4>1. j \in DOMAIN g
                BY <3>3
            <4>2. CASE k \in DOMAIN g
                BY <1>16, <3>3, <3>L, <4>1, <4>2
            <4>3. CASE k = Len(log) + 1
                BY <3>3, <3>5, <3>L, <4>1, <4>3
            <4> QED
                BY <3>4, <4>2, <4>3
        <3>7. \A j \in DOMAIN l, k \in 1 .. K + n : InOrder(l[j], q[k])'
            BY <1>17, <3>3, <3>4, <3>5, <3>L
        <3> QED
            BY <1>3, <1>13, <1>Q, <3>1, <3>6, <3>7, <3>L DEF Ends, OrderOK
    <2> QED
        BY <2>1, <2>2
<1> QED
    BY <1>7, <1>8, <1>9, <1>19

LEMMA CreateEventKeeps ==
    ASSUME EventsInv, ClockInv, NEW p \in Priorities, NEW cascade \in BOOLEAN, NEW m \in Affected,
           CreateEvent(p, cascade, m)
    PROVE  EventsInv'
<1>0. EventTypes /\ CascadesOK
    BY DEF EventsInv
<1>1. PICK N : N = Len(ev)
    OBVIOUS
<1>2. PICK K : K = Len(queue)
    OBVIOUS
<1>3. PICK x : x = [priority |-> p, cascade |-> cascade, affected |-> m, parent |-> 0, batch |-> 0]
    OBVIOUS
<1>4. /\ x \in SimulationEvent /\ x.parent = 0 /\ x.batch = 0 /\ m \in Nat
    BY <1>3, SimulationAssumption DEF SimulationEvent
<1>5. /\ ev' = Append(ev, x) /\ queue' = Append(queue, Len(ev'))
      /\ UNCHANGED <<log, depth, lost, pc, physTime, current>>
    BY <1>3 DEF CreateEvent, physics, control
<1>6. /\ N \in Nat /\ K \in Nat /\ DOMAIN ev = 1 .. N /\ DOMAIN queue = 1 .. K
      /\ ev \in Seq(SimulationEvent) /\ queue \in Seq(DOMAIN ev)
      /\ \A k \in 1 .. K : queue[k] \in 1 .. N
    BY <1>0, <1>1, <1>2, EventTypesFacts
<1>7. /\ ev' \in Seq(SimulationEvent) /\ Len(ev') = N + 1 /\ DOMAIN ev' = 1 .. N + 1
      /\ ev'[N + 1] = x /\ \A i \in 1 .. N : ev'[i] = ev[i]
    BY <1>1, <1>4, <1>5, <1>6, AppendFacts
<1>8. /\ queue' \in Seq(1 .. N + 1) /\ Len(queue') = K + 1
      /\ queue'[K + 1] = N + 1 /\ \A k \in 1 .. K : queue'[k] = queue[k]
    <2>1. queue \in Seq(1 .. N + 1)
        <3>1. queue \in [1 .. K -> 1 .. N + 1]
            BY <1>2, <1>6
        <3> QED
            BY <1>6, <3>1
    <2>2. N + 1 \in 1 .. N + 1
        BY <1>6
    <2> QED
        BY <1>2, <1>5, <1>7, <2>1, <2>2, AppendFacts
<1>9. Joins(1)
    <2>1. \A i \in N + 1 .. N + 1 : i = N + 1
        BY <1>6
    <2>2. \A k \in K + 1 .. K + 1 : k = K + 1 /\ N + (k - K) = N + 1
        BY <1>6
    <2>3. /\ \A i \in N + 1 .. N + 1 : ev'[i].batch = 0
          /\ \A k \in K + 1 .. K + 1 : queue'[k] = N + (k - K)
        BY <1>4, <1>7, <1>8, <2>1, <2>2
    <2> QED
        BY <1>1, <1>2, <1>5, <1>7, <1>8, <2>3 DEF Joins
<1>10. GoesOn
    BY <1>5 DEF GoesOn, Handled, Busy
<1>11. physTime \in Nat /\ (pc = "entities" => physTime > 0)
    BY DEF ClockInv, ClockTypes, ClocksAgree
<1>12. EventTypes' /\ PlacesOK' /\ BatchesOK' /\ OrderOK'
    BY <1>9, <1>10, <1>11, JoinKeeps
<1>13. \A i \in 1 .. N + 1 : i = N + 1 \/ i \in 1 .. N
    BY <1>6
<1>14. N + 1 \notin 1 .. N /\ N + 1 # 0 /\ N + 1 \in 1 .. N + 1 /\ 1 .. N \subseteq 1 .. N + 1 /\ 0 \notin 1 .. N + 1
    BY <1>6
<1>15. CascadesOK'
    <2>1. ASSUME NEW i \in 1 .. N PROVE SettledCause(i)'
        <3>1. Caused(i)' = Caused(i)
            BY <1>4, <1>6, <1>7, <1>13, <1>14 DEF Caused
        <3>2. PICK h : h = ev[i].parent
            OBVIOUS
        <3>3. /\ h # 0 => h \in 1 .. N /\ ev[h].parent = 0 /\ IsLogged(h) /\ ~ ev[i].cascade
              /\ Cardinality(Caused(i)) \in {0, ev[i].affected}
            BY <1>0, <1>6, <3>2 DEF CascadesOK, SettledCause, Known
        <3>4. h # 0 => h \in 1 .. N + 1 /\ ev'[h].parent = 0 /\ IsLogged(h)' /\ ~ ev[i].cascade
            BY <1>5, <1>7, <1>14, <3>3 DEF IsLogged
        <3>5. ev'[i] = ev[i]
            BY <1>7
        <3> QED
            BY <1>7, <3>1, <3>2, <3>3, <3>4, <3>5 DEF SettledCause, Known
    <2>2. Caused(N + 1)' = {}
        <3>1. \A j \in 1 .. N : ev[j].parent # N + 1
            BY <1>0, <1>6, <1>14 DEF CascadesOK, SettledCause
        <3> QED
            BY <1>4, <1>7, <1>13, <1>14, <3>1 DEF Caused
    <2>3. SettledCause(N + 1)'
        <3>1. Cardinality(Caused(N + 1)') = 0
            BY <2>2, FS_EmptySet
        <3> QED
            BY <1>4, <1>7, <3>1 DEF SettledCause
    <2> QED
        BY <1>7, <1>13, <2>1, <2>3 DEF CascadesOK
<1> QED
    BY <1>12, <1>15 DEF EventsInv

LEMMA ConcatFacts ==
    ASSUME NEW S, NEW s \in Seq(S), NEW t \in Seq(S)
    PROVE  /\ s \o t \in Seq(S) /\ Len(s \o t) = Len(s) + Len(t)
           /\ \A k \in 1 .. Len(s) : (s \o t)[k] = s[k]
           /\ \A k \in Len(s) + 1 .. Len(s) + Len(t) :
                 k - Len(s) \in 1 .. Len(t) /\ (s \o t)[k] = t[k - Len(s)]
           /\ DOMAIN (s \o t) = 1 .. Len(s) + Len(t)
    OBVIOUS

LEMMA ChildrenFacts ==
    ASSUME EventsInv, NEW c \in DOMAIN ev, ~ IsLogged(c), ~ CascadeRaises(c)
    PROVE  \E n \in Nat :
              /\ n \in {0, ev[c].affected} /\ Children(c) \in Seq(SimulationEvent)
              /\ Len(Children(c)) = n /\ DOMAIN Children(c) = 1 .. n
              /\ \A k \in 1 .. n :
                    /\ Children(c)[k].batch = 0 /\ Children(c)[k].parent = c
                    /\ Children(c)[k].cascade = FALSE
              /\ n # 0 => Known(c)
              /\ Caused(c) = {}
<1>0. EventTypes /\ CascadesOK
    BY DEF EventsInv
<1>1. PICK a : a = ev[c].affected
    OBVIOUS
<1>2. /\ a \in Nat /\ c # 0 /\ ev[c].priority \in 0 .. 3 /\ ev[c].parent \in Nat /\ ev[c].cascade \in BOOLEAN
    BY <1>0, <1>1, EventTypesFacts
<1>3. Caused(c) = {}
    <2>1. ASSUME NEW j \in DOMAIN ev PROVE ev[j].parent # c
        BY <1>0, <1>2 DEF CascadesOK, SettledCause
    <2> QED
        BY <2>1 DEF Caused
<1>4. CASE ~ Cascades(c)
    <2>1. Children(c) = <<>>
        BY <1>4 DEF Children
    <2> QED
        BY <1>3, <2>1
<1>5. CASE Cascades(c)
    <2>1. ev[c].cascade /\ (a = 0 \/ ev[c].priority # 3)
        BY <1>1, <1>2, <1>5 DEF CascadeRaises, Cascades, Low
    <2>2. Known(c)
        BY <1>0, <2>1 DEF CascadesOK, SettledCause, Known
    <2>3. PICK x : x = [priority |-> ev[c].priority + 1, cascade |-> FALSE, affected |-> a, parent |-> c, batch |-> 0]
        OBVIOUS
    <2>4. Children(c) = [k \in 1 .. a |-> x]
        BY <1>1, <1>5, <2>3 DEF Children
    <2>5. x.batch = 0 /\ x.parent = c /\ x.cascade = FALSE
        BY <2>3
    <2>6. a = 0 \/ x \in SimulationEvent
        <3>1. a = 0 \/ ev[c].priority + 1 \in 0 .. 3
            BY <1>2, <2>1
        <3>2. c \in Nat
            BY <1>0, EventTypesFacts
        <3>3. CASE a = 0
            BY <3>3
        <3>4. CASE a # 0
            <4>1. ev[c].priority + 1 \in EventPriority /\ FALSE \in BOOLEAN /\ 0 \in Nat
                BY <3>1, <3>4 DEF EventPriority
            <4> QED
                BY <1>2, <2>3, <3>2, <4>1 DEF SimulationEvent
        <3> QED
            BY <3>3, <3>4
    <2>7. Children(c) \in Seq(SimulationEvent) /\ Len(Children(c)) = a /\ DOMAIN Children(c) = 1 .. a
        <3>1. \A k \in 1 .. a : x \in SimulationEvent
            BY <1>2, <2>6
        <3> QED
            BY <1>2, <2>4, <3>1
    <2> QED
        BY <1>1, <1>2, <1>3, <2>2, <2>4, <2>5, <2>7
<1> QED
    BY <1>4, <1>5

\* The event is logged with its children queued.
LEMMA EventEndsKeeps ==
    ASSUME EventsInv, ClockInv, EventEnds
    PROVE  EventsInv'
<1>0. EventTypes /\ CascadesOK
    BY DEF EventsInv
<1>1. PICK N : N = Len(ev)
    OBVIOUS
<1>2. PICK K : K = Len(queue)
    OBVIOUS
<1>3. PICK c : c = current.id
    OBVIOUS
<1>4. PICK x : x = Children(c)
    OBVIOUS
<1>5. /\ ev' = ev \o x /\ queue' = queue \o [k \in DOMAIN x |-> N + k] /\ log' = Append(log, c)
      /\ pc = "events" /\ Busy /\ ~ CascadeRaises(c) /\ ~ Busy'
      /\ UNCHANGED <<depth, lost, pc, physTime>>
    BY <1>1, <1>3, <1>4 DEF EventEnds, Logged, physics, NoTurn, Busy
<1>6. Handled(c) /\ \A i : ~ Handled(i)'
    BY <1>3, <1>5 DEF Handled
<1>7. Ends(c)
    BY <1>5, <1>6 DEF Ends
<1>8. /\ N \in Nat /\ K \in Nat /\ DOMAIN ev = 1 .. N /\ DOMAIN queue = 1 .. K
      /\ ev \in Seq(SimulationEvent) /\ queue \in Seq(1 .. N) /\ \A k \in 1 .. K : queue[k] \in 1 .. N
    BY <1>0, <1>1, <1>2, EventTypesFacts
<1>9. c \in 1 .. N /\ ~ IsLogged(c)
    BY <1>0, <1>6, <1>8 DEF EventsInv, EventTypes, PlacesOK, OnePlace
<1>10. PICK n \in Nat :
          /\ n \in {0, ev[c].affected} /\ x \in Seq(SimulationEvent) /\ Len(x) = n /\ DOMAIN x = 1 .. n
          /\ \A k \in 1 .. n : x[k].batch = 0 /\ x[k].parent = c /\ x[k].cascade = FALSE
          /\ n # 0 => Known(c)
          /\ Caused(c) = {}
    <2>1. c \in DOMAIN ev /\ ~ IsLogged(c) /\ ~ CascadeRaises(c)
        BY <1>5, <1>8, <1>9
    <2>2. PICK n \in Nat :
              /\ n \in {0, ev[c].affected} /\ Children(c) \in Seq(SimulationEvent)
              /\ Len(Children(c)) = n /\ DOMAIN Children(c) = 1 .. n
              /\ \A k \in 1 .. n :
                    /\ Children(c)[k].batch = 0 /\ Children(c)[k].parent = c
                    /\ Children(c)[k].cascade = FALSE
              /\ n # 0 => Known(c)
              /\ Caused(c) = {}
        BY <2>1, ChildrenFacts
    <2> QED
        BY <1>4, <2>2
<1>11. /\ ev' \in Seq(SimulationEvent) /\ Len(ev') = N + n /\ DOMAIN ev' = 1 .. N + n
       /\ \A i \in 1 .. N : ev'[i] = ev[i]
       /\ \A i \in N + 1 .. N + n : i - N \in 1 .. n /\ ev'[i] = x[i - N]
    <2>1. ev \in Seq(SimulationEvent) /\ x \in Seq(SimulationEvent) /\ ev' = ev \o x
        BY <1>5, <1>8, <1>10
    <2>2. /\ ev \o x \in Seq(SimulationEvent) /\ Len(ev \o x) = Len(ev) + Len(x)
          /\ \A k \in 1 .. Len(ev) : (ev \o x)[k] = ev[k]
          /\ \A k \in Len(ev) + 1 .. Len(ev) + Len(x) :
                k - Len(ev) \in 1 .. Len(x) /\ (ev \o x)[k] = x[k - Len(ev)]
          /\ DOMAIN (ev \o x) = 1 .. Len(ev) + Len(x)
        BY ONLY <2>1, ConcatFacts
    <2> QED
        BY <1>1, <1>10, <2>1, <2>2
<1>12. PICK y : y = [k \in 1 .. n |-> N + k]
    OBVIOUS
<1>13. /\ y \in Seq(1 .. N + n) /\ Len(y) = n /\ DOMAIN y = 1 .. n /\ \A k \in 1 .. n : y[k] = N + k
    <2>1. \A k \in 1 .. n : N + k \in 1 .. N + n
        BY <1>8
    <2>2. y \in [1 .. n -> 1 .. N + n]
        BY <1>12, <2>1
    <2> QED
        BY <1>12, <2>2
<1>14. queue \in Seq(1 .. N + n)
    <2>1. \A k \in 1 .. K : queue[k] \in 1 .. N + n
        BY <1>8
    <2>2. queue \in [1 .. K -> 1 .. N + n]
        BY <1>2, <1>8, <2>1
    <2> QED
        BY <1>8, <2>2
<1>15. /\ queue' \in Seq(1 .. N + n) /\ Len(queue') = K + n
       /\ \A k \in 1 .. K : queue'[k] = queue[k]
       /\ \A k \in K + 1 .. K + n : k - K \in 1 .. n /\ queue'[k] = y[k - K]
    <2>1. queue' = queue \o y
        BY <1>5, <1>10, <1>12
    <2>2. PICK q : q = queue
        OBVIOUS
    <2>3. q \in Seq(1 .. N + n) /\ y \in Seq(1 .. N + n) /\ Len(q) = K /\ Len(y) = n
        BY <1>2, <1>13, <1>14, <2>2
    <2>4. /\ q \o y \in Seq(1 .. N + n) /\ Len(q \o y) = Len(q) + Len(y)
          /\ \A k \in 1 .. Len(q) : (q \o y)[k] = q[k]
          /\ \A k \in Len(q) + 1 .. Len(q) + Len(y) :
                k - Len(q) \in 1 .. Len(y) /\ (q \o y)[k] = y[k - Len(q)]
        <3>1. PICK S : S = 1 .. N + n
            OBVIOUS
        <3>2. q \in Seq(S) /\ y \in Seq(S)
            BY ONLY <2>3, <3>1
        <3>3. /\ q \o y \in Seq(S) /\ Len(q \o y) = Len(q) + Len(y)
              /\ \A k \in 1 .. Len(q) : (q \o y)[k] = q[k]
              /\ \A k \in Len(q) + 1 .. Len(q) + Len(y) :
                    k - Len(q) \in 1 .. Len(y) /\ (q \o y)[k] = y[k - Len(q)]
            BY ONLY <3>2, ConcatFacts
        <3> QED
            BY ONLY <3>1, <3>3
    <2>5. PICK z : z = q \o y
        OBVIOUS
    <2>6. /\ z \in Seq(1 .. N + n) /\ Len(z) = K + n
          /\ \A k \in 1 .. K : z[k] = q[k]
          /\ \A k \in K + 1 .. K + n : k - K \in 1 .. n /\ z[k] = y[k - K]
        BY ONLY <2>3, <2>4, <2>5
    <2>7. z = queue'
        BY ONLY <2>1, <2>2, <2>5
    <2> QED
        BY ONLY <2>2, <2>6, <2>7
<1>16. Joins(n)
    <2>1. \A i \in N + 1 .. N + n : ev'[i].batch = 0
        BY <1>10, <1>11
    <2>2. \A k \in K + 1 .. K + n : queue'[k] = N + (k - K)
        BY <1>13, <1>15
    <2> QED
        BY <1>1, <1>2, <1>5, <1>11, <1>15, <2>1, <2>2 DEF Joins
<1>17. physTime \in Nat /\ (pc = "entities" => physTime > 0)
    BY DEF ClockInv, ClockTypes, ClocksAgree
<1>18. EventTypes' /\ PlacesOK' /\ BatchesOK' /\ OrderOK'
    BY <1>7, <1>16, <1>17, JoinKeeps
<1>19. /\ \A i : IsLogged(i) => IsLogged(i)'
       /\ IsLogged(c)'
    <2>1. \A i : IsLogged(i)' <=> IsLogged(i) \/ (Handled(i) /\ ~ Handled(i)')
        BY <1>7, <1>16, JoinPlaces
    <2> QED
        BY <1>6, <2>1
<1>20. /\ \A i \in 1 .. N + n : i \in 1 .. N \/ i \in N + 1 .. N + n
       /\ 1 .. N \subseteq 1 .. N + n /\ N + 1 .. N + n \subseteq 1 .. N + n
       /\ \A i \in N + 1 .. N + n : i \notin 1 .. N /\ i # 0
    BY <1>8
<1>21. \A i \in N + 1 .. N + n : ev'[i].parent = c /\ ev'[i].cascade = FALSE
    BY <1>10, <1>11
<1>22. \A j \in 1 .. N : ev[j].parent \in 1 .. N \/ ev[j].parent = 0
    BY <1>0, <1>8 DEF CascadesOK, SettledCause
<1>23. CascadesOK'
    <2>1. ASSUME NEW i \in 1 .. N + n, i # c
          PROVE  Caused(i)' = IF i \in 1 .. N THEN Caused(i) ELSE {}
        <3>1. CASE i \in 1 .. N
            BY <1>8, <1>11, <1>20, <1>21, <2>1, <3>1 DEF Caused
        <3>2. CASE i \in N + 1 .. N + n
            BY <1>11, <1>20, <1>21, <1>22, <2>1, <3>2 DEF Caused
        <3> QED
            BY <1>20, <3>1, <3>2
    <2>2. Cardinality(Caused(c)') = n
        <3>1. Caused(c)' = N + 1 .. N + n
            <4>1. \A j \in 1 .. N : ev[j].parent # c
                BY <1>8, <1>10 DEF Caused
            <4> QED
                BY <1>11, <1>20, <1>21, <4>1 DEF Caused
        <3>2. Cardinality(N + 1 .. N + n) = IF N + 1 > N + n THEN 0 ELSE (N + n) - (N + 1) + 1
            BY <1>8, FS_Interval
        <3> QED
            BY <1>8, <3>1, <3>2
    <2>3. ASSUME NEW i \in 1 .. N + n PROVE Cardinality(Caused(i)') \in {0, ev'[i].affected}
        <3>1. CASE i = c
            BY <1>9, <1>10, <1>11, <2>2, <3>1
        <3>2. CASE i # c /\ i \in 1 .. N
            <4>1. Cardinality(Caused(i)) \in {0, ev[i].affected}
                BY <1>0, <1>8, <3>2 DEF CascadesOK, SettledCause
            <4> QED
                BY <1>11, <2>1, <3>2, <4>1
        <3>3. CASE i # c /\ i \notin 1 .. N
            <4>1. Caused(i)' = {}
                BY <2>1, <3>3
            <4> QED
                BY <4>1, FS_EmptySet
        <3> QED
            BY <3>1, <3>2, <3>3
    <2>4. ASSUME NEW i \in 1 .. N + n, NEW h, h = ev'[i].parent, h # 0
          PROVE  h \in 1 .. N + n /\ ev'[h].parent = 0 /\ IsLogged(h)' /\ ~ ev'[i].cascade
        <3>1. CASE i \in 1 .. N
            <4>1. ev[i].parent = h /\ ev'[i] = ev[i]
                BY <1>11, <2>4, <3>1
            <4>2. h \in 1 .. N /\ ev[h].parent = 0 /\ IsLogged(h) /\ ~ ev[i].cascade
                BY <1>0, <1>8, <2>4, <3>1, <4>1 DEF CascadesOK, SettledCause, Known
            <4> QED
                BY <1>11, <1>19, <1>20, <4>1, <4>2
        <3>2. CASE i \in N + 1 .. N + n
            <4>1. h = c /\ n # 0
                BY <1>8, <1>21, <2>4, <3>2
            <4>2. ev[c].parent = 0
                BY <1>10, <4>1 DEF Known
            <4> QED
                BY <1>9, <1>11, <1>19, <1>20, <1>21, <3>2, <4>1, <4>2
        <3> QED
            BY <1>20, <3>1, <3>2
    <2>5. ASSUME NEW i \in 1 .. N + n PROVE SettledCause(i)'
        <3>1. PICK h : h = ev'[i].parent
            OBVIOUS
        <3>2. h # 0 => h \in 1 .. N + n /\ ev'[h].parent = 0 /\ IsLogged(h)' /\ ~ ev'[i].cascade
            BY <2>4, <3>1
        <3> QED
            BY <1>11, <2>3, <3>1, <3>2 DEF SettledCause, Known
    <2> QED
        BY <1>11, <2>5 DEF CascadesOK
<1> QED
    BY <1>18, <1>23 DEF EventsInv

\* A step of any other kind.
LEMMA EventsElsewhere ==
    ASSUME EventsInv, UNCHANGED <<ev, queue, log, depth, lost>>,
           \/ UNCHANGED <<pc, physTime, current>>
           \/ pc \in {"idle", "entities", "callbacks"} /\ pc' \in {"idle", "entities", "callbacks"}
                 /\ physTime' = physTime /\ (pc' = "entities" => pc = "entities")
           \/ pc = "events" /\ ~ Busy /\ pc' = "callbacks" /\ physTime' = physTime
           \/ pc = "idle" /\ physTime \in Nat /\ physTime' = physTime + 1 /\ pc' = "entities"
    PROVE  EventsInv'
<1>1. \A i : Handled(i)' <=> Handled(i)
    BY DEF Handled, Busy
<1>2. BatchesOK'
    <2>1. BatchesOK
        BY DEF EventsInv
    <2>2. CASE physTime' = physTime /\ (pc' = "entities" => pc = "entities")
        BY <2>1, <2>2 DEF BatchesOK
    <2>3. CASE physTime \in Nat /\ physTime' = physTime + 1
        <3>1. \A i \in DOMAIN ev : ev[i].batch \in Nat /\ ev[i].batch <= physTime
            BY <2>1, EventTypesFacts DEF EventsInv, BatchesOK
        <3>2. \A i \in DOMAIN ev : ev[i].batch <= physTime + 1 /\ ev[i].batch < physTime + 1
            BY <2>3, <3>1
        <3> QED
            BY <2>3, <3>2 DEF BatchesOK
    <2> QED
        BY <2>2, <2>3
<1> QED
    BY <1>1, <1>2, EventsStay

LEMMA EventsKept == EventsInv /\ ClockInv /\ [Next]_vars => EventsInv'
<1> SUFFICES ASSUME EventsInv, ClockInv, [Next]_vars PROVE EventsInv'
    OBVIOUS
<1>0. physTime \in Nat /\ pc \in {"idle", "entities", "events", "callbacks"}
    BY DEF ClockInv, ClockTypes, PhysicsTypes
<1>1. ASSUME UNCHANGED <<ev, queue, log, depth, lost, pc, physTime, current>> PROVE EventsInv'
    BY <1>1, EventsElsewhere
<1>2. CASE StepBegins
    <2>1. /\ UNCHANGED <<ev, queue, log, depth, lost>> /\ pc = "idle" /\ physTime' = physTime + 1 /\ pc' = "entities"
        BY <1>2 DEF StepBegins, StepPhysics, events
    <2> QED
        BY <1>0, <2>1, EventsElsewhere
<1>3. CASE EntityTurn \/ BehaviorEnds \/ ConditionRaises \/ StepEnds
    <2>1. /\ UNCHANGED <<ev, queue, log, depth, lost>>
          /\ pc \in {"idle", "entities", "callbacks"} /\ pc' \in {"idle", "entities", "callbacks"}
          /\ physTime' = physTime /\ (pc' = "entities" => pc = "entities")
        BY <1>3 DEF EntityTurn, BehaviorEnds, ConditionRaises, Aborts, Resting, StepEnds, events, physics
    <2> QED
        BY <2>1, EventsElsewhere
<1>4. CASE EventsBegin
    BY <1>0, <1>4, EventsBeginKeeps
<1>5. CASE EventTurn
    BY <1>5, EventTurnKeeps
<1>6. CASE EventEnds
    BY <1>6, EventEndsKeeps
<1>7. CASE EventRaises
    BY <1>7, EventRaisesKeeps
<1>8. CASE EventsEnd
    <2>1. /\ UNCHANGED <<ev, queue, log, depth, lost>> /\ pc = "events" /\ ~ Busy /\ pc' = "callbacks"
          /\ physTime' = physTime
        BY <1>8 DEF EventsEnd, events, physics
    <2> QED
        BY <2>1, EventsElsewhere
<1>9. CASE RunUntilReturns \/ Control
    BY <1>1, <1>9 DEF RunUntilReturns, Control, SetState, CreateCheckpoint, RestoreCheckpoint, RunUntil,
        events, control, physics
<1>10. CASE ActOnObjects
    BY <1>1, <1>10 DEF ActOnObjects, AddObject, RemoveObject, ApplyForce, events, control
<1>11. ASSUME ActOnEntities, ~ ConditionRaises PROVE EventsInv'
    BY <1>1, <1>11 DEF ActOnEntities, CreateEntity, DestroyEntity, ActivateEntity, AddBehavior, TransitionTo,
        events, control, physics
<1>12. CASE ActOnEvents
    BY <1>12, CreateEventKeeps DEF ActOnEvents
<1>13. CASE UNCHANGED vars
    BY <1>1, <1>13 DEF vars, events, control, physics
<1> QED
    BY <1>2, <1>3, <1>4, <1>5, <1>6, <1>7, <1>8, <1>9, <1>10, <1>11, <1>12, <1>13 DEF Next, Step

-----------------------------------------------------------------------------
(* What the invariants say.                                                *)

LEMMA WorldBegins == ASSUME Init PROVE WorldInv
<1>1. "inactive" \in EntityState /\ 0 \in 0 .. Behaviors
    BY SimulationAssumption DEF EntityState
<1> QED
    BY <1>1 DEF Init, EntitiesInit, WorldInv, WorldTypes, ActiveExists

LEMMA ClocksBegin == ASSUME Init PROVE ClockInv
BY DEF Init, PhysicsInit, ClockInv, ClockTypes, PhysicsTypes, ClocksAgree, SimulationState, Forces

LEMMA EventsInitially == ASSUME Init PROVE EventsInv
<1>1. ev = <<>> /\ queue = <<>> /\ log = <<>> /\ depth = 0 /\ lost = {} /\ pc = "idle"
    BY DEF Init, EventsInit
<1>2. EventTypes
    BY <1>1, SimulationAssumption, FS_EmptySet DEF EventTypes, Handled
<1>3. PlacesOK /\ CascadesOK /\ BatchesOK /\ OrderOK
    BY <1>1 DEF PlacesOK, CascadesOK, BatchesOK, OrderOK, Handled
<1> QED
    BY <1>2, <1>3 DEF EventsInv

\* Places of a sequence without repetitions that hold an element: one or none.
LEMMA PlacesCounted ==
    ASSUME NEW S, NEW s \in Seq(S), \A j, k \in DOMAIN s : s[j] = s[k] => j = k, NEW i
    PROVE  Cardinality({k \in DOMAIN s : s[k] = i}) = IF \E k \in DOMAIN s : s[k] = i THEN 1 ELSE 0
<1>1. CASE \E k \in DOMAIN s : s[k] = i
    <2>1. PICK k \in DOMAIN s : s[k] = i
        BY <1>1
    <2>2. {m \in DOMAIN s : s[m] = i} = {k}
        BY <2>1
    <2> QED
        BY <1>1, <2>2, FS_Singleton
<1>2. CASE ~ \E k \in DOMAIN s : s[k] = i
    <2>1. {k \in DOMAIN s : s[k] = i} = {}
        BY <1>2
    <2> QED
        BY <1>2, <2>1, FS_EmptySet
<1> QED
    BY <1>1, <1>2

LEMMA EachInOnePlace == ASSUME EventsInv PROVE EventsAccounted
<1>1. EventTypes /\ PlacesOK
    BY DEF EventsInv
<1>2. ASSUME NEW i \in DOMAIN ev PROVE Occurrences(i) = 1
    <2>1. Cardinality({k \in DOMAIN queue : queue[k] = i}) = IF Waiting(i) THEN 1 ELSE 0
        <3>1. queue \in Seq(DOMAIN ev) /\ \A j, k \in DOMAIN queue : queue[j] = queue[k] => j = k
            BY <1>1 DEF EventTypes, PlacesOK
        <3> QED
            BY <3>1, PlacesCounted DEF Waiting
    <2>2. Cardinality({k \in DOMAIN log : log[k] = i}) = IF IsLogged(i) THEN 1 ELSE 0
        <3>1. log \in Seq(DOMAIN ev) /\ \A j, k \in DOMAIN log : log[j] = log[k] => j = k
            BY <1>1 DEF EventTypes, PlacesOK
        <3> QED
            BY <3>1, PlacesCounted DEF IsLogged
    <2>3. OnePlace(i)
        BY <1>1 DEF PlacesOK
    <2>4. PICK w \in 0 .. 1 : w = IF Waiting(i) THEN 1 ELSE 0
        OBVIOUS
    <2>5. PICK l \in 0 .. 1 : l = IF IsLogged(i) THEN 1 ELSE 0
        OBVIOUS
    <2>6. PICK o \in 0 .. 1 : o = IF i \in lost THEN 1 ELSE 0
        OBVIOUS
    <2>7. PICK h \in 0 .. 1 : h = IF Handled(i) THEN 1 ELSE 0
        OBVIOUS
    <2>8. Occurrences(i) = w + l + o + h
        BY <2>1, <2>2, <2>4, <2>5, <2>6, <2>7 DEF Occurrences, Handled
    <2>9. w + l + o + h = 1
        BY <2>3, <2>4, <2>5, <2>6, <2>7 DEF OnePlace
    <2> QED
        BY <2>8, <2>9
<1> QED
    BY <1>1, <1>2 DEF EventsAccounted, EventTypes

LEMMA LoggedInOrder == ASSUME EventsInv PROVE NoInversion
BY DEF EventsInv, OrderOK, InOrder, NoInversion

\* The recursion of get_event_causal_chain ends after one event.
LEMMA ChainsEnd ==
    ASSUME EventTypes
    PROVE  \A i \in DOMAIN ev : Len(CausalChain[i]) <= 1
<1>1. PICK P : P = 0 .. Len(ev)
    OBVIOUS
<1>2. 0 \in P /\ DOMAIN ev \subseteq P /\ \A i \in P : i = 0 \/ i \in DOMAIN ev
    BY <1>1, EventTypesFacts
<1> DEFINE Chain(f) ==
        [i \in 0 .. Len(ev) |->
            IF i = 0 THEN <<>> ELSE IF ~ Known(i) THEN <<>> ELSE Append(f[ev[i].parent], i)]
<1>3. \E f : f = Chain(f)
    <2>1. PICK f : f = [i \in P |-> IF i = 0 THEN <<>> ELSE IF ~ Known(i) THEN <<>> ELSE <<i>>]
        OBVIOUS
    <2>2. f[0] = <<>>
        BY <1>2, <2>1
    <2>3. ASSUME NEW i \in P
          PROVE  f[i] = IF i = 0 THEN <<>> ELSE IF ~ Known(i) THEN <<>> ELSE Append(f[ev[i].parent], i)
        <3>1. CASE i = 0
            BY <2>2, <3>1
        <3>2. CASE i # 0 /\ ~ Known(i)
            BY <2>1, <3>2
        <3>3. CASE i # 0 /\ Known(i)
            <4>1. f[i] = <<i>> /\ f[ev[i].parent] = <<>>
                BY <2>1, <2>2, <3>3 DEF Known
            <4>2. Append(<<>>, i) = <<i>>
                OBVIOUS
            <4> QED
                BY <3>3, <4>1, <4>2
        <3> QED
            BY <3>1, <3>2, <3>3
    <2>4. f = Chain(f)
        BY <1>1, <2>1, <2>3
    <2> QED
        BY <2>4
<1>4. CausalChain = CHOOSE f : f = Chain(f)
    BY DEF CausalChain
<1>5. CausalChain = Chain(CausalChain)
    <2> HIDE DEF Chain
    <2> QED
        BY <1>3, <1>4
<1>6. CausalChain[0] = <<>>
    BY <1>1, <1>2, <1>5
<1>7. ASSUME NEW i \in DOMAIN ev PROVE Len(CausalChain[i]) <= 1
    <2>1. i \in 0 .. Len(ev) /\ i # 0
        BY EventTypesFacts
    <2>2. CausalChain[i] = IF ~ Known(i) THEN <<>> ELSE Append(CausalChain[ev[i].parent], i)
        BY <1>5, <2>1
    <2>3. CausalChain[i] = <<>> \/ CausalChain[i] = <<i>>
        <3>1. Append(<<>>, i) = <<i>>
            OBVIOUS
        <3> QED
            BY <1>6, <2>2, <3>1 DEF Known
    <2>4. CASE CausalChain[i] = <<>>
        <3>1. Len(CausalChain[i]) = 0
            BY <2>4
        <3> QED
            BY <3>1
    <2>5. CASE CausalChain[i] = <<i>>
        <3>1. Len(CausalChain[i]) = 1
            BY <2>5
        <3> QED
            BY <3>1
    <2> QED
        BY <2>3, <2>4, <2>5
<1> QED
    BY <1>7

LEMMA CascadesEnd == ASSUME EventsInv PROVE CascadesAreShallow
<1>1. EventTypes /\ CascadesOK
    BY DEF EventsInv
<1>2. ASSUME NEW i \in DOMAIN ev PROVE \A j \in DOMAIN ev : ev[j].parent = i => Known(i)
    BY <1>1, EventTypesFacts DEF CascadesOK, SettledCause
<1>3. ASSUME NEW i \in DOMAIN ev PROVE Cardinality(CascadeTree(i)) \in {0, ev[i].affected}
    <2>1. CASE Known(i)
        BY <1>1, <2>1 DEF CascadeTree, CascadesOK, SettledCause, Caused
    <2>2. CASE ~ Known(i)
        BY <2>2, FS_EmptySet DEF CascadeTree
    <2> QED
        BY <2>1, <2>2
<1> QED
    BY <1>1, <1>2, <1>3, ChainsEnd DEF CascadesAreShallow

LEMMA AllTypes == ASSUME WorldInv, ClockInv, EventsInv PROVE TypeOK
BY DEF WorldInv, WorldTypes, ClockInv, ClockTypes, PhysicsTypes, EventsInv, EventTypes, TypeOK

\* The inductive invariant of the simulation.
RunInv == WorldInv /\ ClockInv /\ EventsInv

LEMMA RunBegins == MCInit => RunInv /\ FeedbackInv
BY WorldBegins, ClocksBegin, EventsInitially, FeedbackBegins DEF MCInit, RunInv

LEMMA RunKept == RunInv /\ FeedbackInv /\ [MCNext]_MCVars => (RunInv /\ FeedbackInv)'
BY SimulationSteps, FeedbackSteps, FeedbackKept, WorldKept, ClocksKept, EventsKept DEF RunInv

\* The state of a simulation keeps its types, and whatever behaviors, subscribers and
\* callbacks do in the middle of a step: only existing entities are active and none
\* destroyed ever exists again, the clocks of the physics and of the runtime differ by
\* the steps that exceptions left, and cascades are whole and one level deep.
THEOREM SimulationHolds == MCSpec => []RuntimeInv
<1>1. RunInv /\ FeedbackInv => RuntimeInv
    <2> SUFFICES ASSUME RunInv, FeedbackInv PROVE RuntimeInv
        OBVIOUS
    <2>1. TypeOK /\ CascadesAreShallow
        BY AllTypes, CascadesEnd DEF RunInv
    <2>2. ActiveExists /\ ClocksAgree
        BY DEF RunInv, WorldInv, ClockInv
    <2>3. Cognition!TypeOK
        BY DEF FeedbackInv, FeedbackTypes
    <2> QED
        BY <2>1, <2>2, <2>3 DEF RuntimeInv, SimulationInv
<1> QED
    BY <1>1, RunBegins, RunKept, PTL DEF MCSpec

\* Every event ever queued is waiting, under way, logged or lost, and in one of these
\* places only; what is missing of the cascade depth is the number of the events lost
\* by an exception, for any number of events and of exceptions.
THEOREM EventsAreAccounted == MCSpec => []EventsAccounted
<1>1. RunInv => EventsAccounted
    BY EachInOnePlace DEF RunInv
<1> QED
    BY <1>1, RunBegins, RunKept, PTL DEF MCSpec

\* process_events: of the events it sorted none is logged before one of a higher
\* priority, although others join the queue unsorted meanwhile.
THEOREM PrioritiesAreObeyed == MCSpec => []NoInversion
<1>1. RunInv => NoInversion
    BY LoggedInOrder DEF RunInv
<1> QED
    BY <1>1, RunBegins, RunKept, PTL DEF MCSpec

-----------------------------------------------------------------------------
(* Sums over a finite set, taken one element after another.                *)

LEMMA SmallestSubset ==
    ASSUME NEW K, IsFiniteSet(K), NEW Bad \in SUBSET (SUBSET K), Bad # {}
    PROVE  \E s \in Bad : \A t \in SUBSET s : t # s => t \notin Bad
<1> DEFINE T == {Cardinality(s) : s \in Bad}
<1>1. \A s \in SUBSET K : IsFiniteSet(s) /\ Cardinality(s) \in Nat
    BY FS_Subset, FS_CardinalityType
<1>2. T \in SUBSET Nat /\ T # {}
    BY <1>1
<1>3. PICK n \in T : \A m \in T : n <= m
    BY <1>2, LeastElement
<1>4. PICK s \in Bad : n = Cardinality(s)
    BY <1>3
<1>5. ASSUME NEW t \in SUBSET s, t # s PROVE t \notin Bad
    <2>1. Cardinality(t) < Cardinality(s)
        BY <1>1, <1>5, FS_Subset
    <2>2. Cardinality(t) \in Nat /\ Cardinality(s) \in Nat
        BY <1>1
    <2> QED
        BY <1>3, <1>4, <2>1, <2>2
<1> QED
    BY <1>5

\* g gives the sum of w over every subset of K.
One(s) == CHOOSE x \in s : TRUE
IsSum(g, w, K) ==
    g = [s \in SUBSET K |-> IF s = {} THEN 0 ELSE w[One(s)] + g[s \ {One(s)}]]

LEMMA SumExists ==
    ASSUME NEW K, IsFiniteSet(K), NEW w \in [K -> Int]
    PROVE  \E g : IsSum(g, w, K)
<1> DEFINE Small(n) == {s \in SUBSET K : Cardinality(s) <= n}
           Sums(g, n) == \A s \in Small(n) : g[s] = IF s = {} THEN 0 ELSE w[One(s)] + g[s \ {One(s)}]
           Good(n) == \E g \in [Small(n) -> Int] : Sums(g, n)
           Bad == {n \in Nat : ~ Good(n)}
<1>1. \A s \in SUBSET K : IsFiniteSet(s) /\ Cardinality(s) \in Nat /\ (Cardinality(s) = 0 <=> s = {})
    BY FS_Subset, FS_CardinalityType, FS_EmptySet
<1>2. ASSUME NEW s \in SUBSET K, s # {}
      PROVE  /\ One(s) \in s /\ s \ {One(s)} \in SUBSET K
             /\ Cardinality(s \ {One(s)}) = Cardinality(s) - 1
    BY <1>1, <1>2, FS_RemoveElement DEF One
<1>3. Good(0)
    <2> DEFINE g == [s \in Small(0) |-> 0]
    <2>1. \A s \in Small(0) : s = {}
        BY <1>1
    <2>2. Sums(g, 0) /\ g \in [Small(0) -> Int]
        BY <2>1
    <2> QED
        BY <2>2
<1>4. ASSUME NEW n \in Nat \ {0}, Good(n - 1) PROVE Good(n)
    <2>1. PICK g \in [Small(n - 1) -> Int] : Sums(g, n - 1)
        BY <1>4
    <2> DEFINE value(s) == IF s = {} THEN 0 ELSE w[One(s)] + g[s \ {One(s)}]
               h == [s \in Small(n) |-> value(s)]
    <2>2. \A s \in Small(n) : s # {} => s \ {One(s)} \in Small(n - 1)
        BY <1>1, <1>2
    <2>3. h \in [Small(n) -> Int]
        <3> SUFFICES ASSUME NEW s \in Small(n), s # {} PROVE w[One(s)] + g[s \ {One(s)}] \in Int
            OBVIOUS
        <3>1. g[s \ {One(s)}] \in Int
            BY <2>2
        <3>2. w[One(s)] \in Int
            BY <1>2
        <3> QED
            BY <3>1, <3>2
    <2>4. \A s \in Small(n - 1) : s \in Small(n) /\ g[s] = h[s]
        BY <1>1, <2>1
    <2>5. \A s \in Small(n) : h[s] = IF s = {} THEN 0 ELSE w[One(s)] + h[s \ {One(s)}]
        BY <2>2, <2>4
    <2> HIDE DEF h
    <2> QED
        BY <2>3, <2>5
<1> HIDE DEF Good
<1>5. Bad = {}
    <2> SUFFICES ASSUME Bad # {} PROVE FALSE
        OBVIOUS
    <2>1. PICK n \in Bad : \A m \in Bad : n <= m
        BY LeastElement
    <2>2. n \in Nat \ {0}
        BY <1>3
    <2>3. Good(n - 1)
        BY <2>1, <2>2
    <2> QED
        BY <1>4, <2>2, <2>3
<1> DEFINE N == Cardinality(K)
<1>6. N \in Nat /\ Good(N)
    BY <1>1, <1>5
<1>7. Small(N) = SUBSET K
    BY <1>1, FS_Subset
<1> HIDE DEF N
<1>8. PICK g \in [SUBSET K -> Int] : Sums(g, N)
    BY <1>6, <1>7 DEF Good
<1>9. IsSum(g, w, K)
    <2> HIDE DEF Small
    <2> QED
        BY <1>7, <1>8 DEF IsSum
<1> QED
    BY <1>9

Scaled(u, w, K, F) == \A x \in K : u[x] = F * w[x]

\* Both sums take the elements in the same order: where all terms but two are scaled by
\* a factor, the sum is scaled, up to what the two differ by.
ScaledSums(K, w, u, i, j, F, g, h) ==
    /\ IsFiniteSet(K) /\ w \in [K -> Int] /\ u \in [K -> Int] /\ i \in K /\ j \in K /\ i # j /\ F \in Int
    /\ Scaled(u, w, K \ {i, j}, F) /\ IsSum(g, w, K) /\ IsSum(h, u, K)

LEMMA SumScales ==
    ASSUME NEW K, NEW w, NEW u, NEW i, NEW j, NEW F, NEW g, NEW h, ScaledSums(K, w, u, i, j, F, g, h)
    PROVE  /\ g[K] \in Int /\ h[K] \in Int
           /\ h[K] = F * g[K] + (u[i] - F * w[i]) + (u[j] - F * w[j])
<1>0. /\ IsFiniteSet(K) /\ w \in [K -> Int] /\ u \in [K -> Int] /\ i \in K /\ j \in K /\ i # j /\ F \in Int
      /\ Scaled(u, w, K \ {i, j}, F) /\ IsSum(g, w, K) /\ IsSum(h, u, K)
    BY DEF ScaledSums
<1> USE <1>0
<1>1. PICK p \in Int : p = u[i] - F * w[i]
    OBVIOUS
<1>2. PICK q \in Int : q = u[j] - F * w[j]
    OBVIOUS
<1> DEFINE Good(s) ==
        g[s] \in Int /\ h[s] = F * g[s] + (IF i \in s THEN p ELSE 0) + (IF j \in s THEN q ELSE 0)
           Bad == {s \in SUBSET K : ~ Good(s)}
<1>3. \A s \in SUBSET K : s # {} => One(s) \in s /\ s \ {One(s)} \in SUBSET s /\ s \ {One(s)} # s
    BY DEF One
<1>4. Bad = {}
    <2> SUFFICES ASSUME Bad # {} PROVE FALSE
        OBVIOUS
    <2>1. PICK s \in Bad : \A t \in SUBSET s : t # s => t \notin Bad
        <3>1. Bad \in SUBSET (SUBSET K) /\ Bad # {}
            OBVIOUS
        <3> HIDE DEF Bad
        <3> QED
            BY <3>1, SmallestSubset
    <2>2. CASE s = {}
        <3>1. g[{}] = 0 /\ h[{}] = 0
            BY DEF IsSum
        <3>2. Good({})
            BY <3>1
        <3> QED
            BY <2>1, <2>2, <3>2
    <2>3. CASE s # {}
        <3> DEFINE x == One(s)
        <3>1. x \in s /\ s \ {x} \in SUBSET K /\ Good(s \ {x})
            BY <1>3, <2>1, <2>3
        <3>2. g[s] = w[x] + g[s \ {x}] /\ h[s] = u[x] + h[s \ {x}]
            BY <2>3 DEF IsSum
        <3>3. x \in K /\ s \in SUBSET K
            BY <3>1
        <3> HIDE DEF x
        <3>4. PICK a \in Int : a = w[x]
            BY <3>3
        <3>5. PICK b \in Int : b = u[x]
            BY <3>3
        <3>6. PICK c \in Int : c = g[s \ {x}]
            BY <3>1
        <3>7. F * (a + c) = F * a + F * c /\ F * a \in Int /\ F * c \in Int
            BY <3>4, <3>6
        <3>8. g[s] = a + c /\ h[s] = b + h[s \ {x}]
            BY <3>2, <3>4, <3>5, <3>6
        <3>9. PICK pp \in Int : pp = IF i \in s \ {x} THEN p ELSE 0
            OBVIOUS
        <3>10. PICK qq \in Int : qq = IF j \in s \ {x} THEN q ELSE 0
            OBVIOUS
        <3>11. h[s \ {x}] = F * c + pp + qq
            BY <3>1, <3>6, <3>9, <3>10
        <3>12. g[s] \in Int /\ F * g[s] = F * a + F * c
            BY <3>7, <3>8
        <3>fa. PICK fa \in Int : fa = F * a
            BY <3>7
        <3>fc. PICK fc \in Int : fc = F * c
            BY <3>7
        <3>fg. PICK fg \in Int : fg = F * g[s] /\ fg = fa + fc
            BY <3>12, <3>fa, <3>fc
        <3>13. h[s] = b + fc + pp + qq
            BY <3>8, <3>11, <3>fc
        <3>14. h[s] = F * g[s] + (IF i \in s THEN p ELSE 0) + (IF j \in s THEN q ELSE 0)
            <4>1. CASE x = i
                <5>1. b = fa + p /\ pp = 0 /\ i \in s /\ qq = IF j \in s THEN q ELSE 0
                    BY <1>1, <3>1, <3>4, <3>5, <3>9, <3>10, <3>fa, <4>1
                <5>2. h[s] = fg + p + qq
                    BY ONLY <3>13, <3>fg, <5>1, pp \in Int, qq \in Int, p \in Int, q \in Int, fa \in Int, fc \in Int
                <5> QED
                    BY <3>fg, <5>1, <5>2
            <4>2. CASE x = j
                <5>1. b = fa + q /\ qq = 0 /\ j \in s /\ pp = IF i \in s THEN p ELSE 0
                    BY <1>2, <3>1, <3>4, <3>5, <3>9, <3>10, <3>fa, <4>2
                <5>2. h[s] = fg + pp + q
                    BY ONLY <3>13, <3>fg, <5>1, pp \in Int, qq \in Int, p \in Int, q \in Int, fa \in Int, fc \in Int
                <5> QED
                    BY <3>fg, <5>1, <5>2
            <4>3. CASE x # i /\ x # j
                <5>1. b = fa
                    BY <3>3, <3>4, <3>5, <3>fa, <4>3 DEF Scaled
                <5>2. pp = (IF i \in s THEN p ELSE 0) /\ qq = (IF j \in s THEN q ELSE 0)
                    BY <3>9, <3>10, <4>3
                <5>3. h[s] = fg + pp + qq
                    BY ONLY <3>13, <3>fg, <5>1, pp \in Int, qq \in Int, p \in Int, q \in Int, fa \in Int, fc \in Int
                <5> QED
                    BY <3>fg, <5>2, <5>3
            <4> QED
                BY <4>1, <4>2, <4>3
        <3> QED
            BY <2>1, <3>12, <3>14
    <2> QED
        BY <2>2, <2>3
<1>5. Good(K)
    BY <1>4
<1>6. g[K] \in Int /\ F * g[K] \in Int /\ h[K] = F * g[K] + p + q
    BY <1>5
<1> HIDE DEF Good
<1> QED
    BY <1>1, <1>2, <1>6

-----------------------------------------------------------------------------
(* Collisions: a pair that collides keeps its momentum and its energy but for what the  *)
(* elasticities take away, and all others are only scaled.                              *)

Bodies == Collisions!Places

CollisionTypes ==
    /\ colliding \in [Bodies -> Collisions!PhysicsObject]
    /\ velocity \in [Bodies -> Int] /\ began \in [Bodies -> Int] /\ scale \in Int
    /\ pair = Collisions!Done \/ \E i, j \in Bodies : pair = <<i, j>> /\ i < j

CollisionInv == CollisionTypes /\ NoEnergyGained

LEMMA BodiesFinite == Count \in Nat /\ Count > 1 /\ Bodies = 1 .. Count /\ IsFiniteSet(Bodies)
<1>1. Count \in Nat /\ Count > 1
    BY CollisionsAssumption DEF Collisions!ConstantsOK
<1> QED
    BY <1>1, FS_Interval DEF Bodies, Collisions!Places

LEMMA PairsInOrder ==
    ASSUME NEW i \in Bodies, NEW j \in Bodies, i < j
    PROVE  LET p == Collisions!After(<<i, j>>)
           IN  p = Collisions!Done \/ \E k, l \in Bodies : p = <<k, l>> /\ k < l
<1>1. Count \in Nat /\ i \in 1 .. Count /\ j \in 1 .. Count
    BY BodiesFinite
<1>2. CASE j < Count
    <2>1. i \in Bodies /\ j + 1 \in Bodies /\ i < j + 1
        BY <1>1, <1>2, BodiesFinite
    <2>2. Collisions!After(<<i, j>>) = <<i, j + 1>>
        BY <1>2 DEF Collisions!After
    <2> QED
        BY <2>1, <2>2
<1>3. CASE ~ (j < Count) /\ i + 1 < Count
    <2>1. i + 1 \in Bodies /\ i + 2 \in Bodies /\ i + 1 < i + 2
        BY <1>1, <1>3, BodiesFinite
    <2>2. Collisions!After(<<i, j>>) = <<i + 1, i + 2>>
        BY <1>3 DEF Collisions!After
    <2> QED
        BY <2>1, <2>2
<1>4. CASE ~ (j < Count) /\ ~ (i + 1 < Count)
    BY <1>4 DEF Collisions!After
<1> QED
    BY <1>2, <1>3, <1>4

\* The algebra of one collision.
LEMMA MomentumExchanged ==
    \A m, n, v, w \in Int :
        m * (v * (m - n) + w * 2 * n) + n * (w * (n - m) + v * 2 * m) = (m + n) * (m * v + n * w)
BY SMT

LEMMA EnergyExchanged ==
    \A m, n, v, w \in Int :
        m * ((v * (m - n) + w * 2 * n) * (v * (m - n) + w * 2 * n))
        + n * ((w * (n - m) + v * 2 * m) * (w * (n - m) + v * 2 * m))
            = ((m + n) * (m + n)) * (m * (v * v) + n * (w * w))
BY SMT

LEMMA EnergyDamped ==
    ASSUME NEW m \in Nat, NEW x \in Int, NEW U \in Nat, NEW e \in 0 .. U
    PROVE  m * ((x * e) * (x * e)) <= (U * U) * (m * (x * x))
<1>1. e * e <= U * U /\ e * e \in Nat /\ U * U \in Nat
    BY SMT
<1>2. m * (x * x) \in Nat
    <2>1. x * x >= 0 /\ x * x \in Int
        BY SMT
    <2> QED
        BY <2>1, SMT
<1>3. PICK y \in Nat : y = m * (x * x)
    BY <1>2
<1>4. m * ((x * e) * (x * e)) = (e * e) * y
    BY <1>3, SMT
<1>5. PICK a \in Nat : a = e * e
    BY <1>1
<1>6. PICK b \in Nat : b = U * U
    BY <1>1
<1>7. a * y <= b * y
    BY <1>1, <1>5, <1>6, SMT
<1> QED
    BY <1>3, <1>4, <1>5, <1>6, <1>7

\* Energy and momentum are sums.
LEMMA EnergyIsSum ==
    ASSUME NEW v, NEW w \in [Bodies -> Int], \A k \in Bodies : w[k] = colliding[k].mass * v[k] * v[k]
    PROVE  \E g : IsSum(g, w, Bodies) /\ Collisions!Energy(v) = g[Bodies]
<1> DEFINE Turn(g) == [s \in SUBSET Bodies |->
                          IF s = {} THEN 0
                          ELSE (colliding[CHOOSE k \in s : TRUE].mass * v[CHOOSE k \in s : TRUE] * v[CHOOSE k \in s : TRUE])
                               + g[s \ {CHOOSE k \in s : TRUE}]]
           f == CHOOSE g : g = Turn(g)
<1>1. \A g : g = Turn(g) <=> IsSum(g, w, Bodies)
    <2> SUFFICES ASSUME NEW g PROVE Turn(g) = [s \in SUBSET Bodies |-> IF s = {} THEN 0 ELSE w[One(s)] + g[s \ {One(s)}]]
        BY DEF IsSum
    <2> QED
        BY DEF One
<1>2. \E g : g = Turn(g)
    <2>1. PICK g : IsSum(g, w, Bodies)
        BY SumExists, BodiesFinite
    <2> HIDE DEF Turn
    <2> QED
        BY <1>1, <2>1
<1>3. f = Turn(f)
    BY <1>2
<1>4. Collisions!Energy(v) = f[Bodies]
    BY DEF Collisions!Energy, Collisions!MapThenSumSet, Collisions!MapThenFoldSet, Bodies
<1>5. IsSum(f, w, Bodies)
    <2> HIDE DEF f, Turn
    <2> QED
        BY <1>1, <1>3
<1> QED
    BY <1>4, <1>5

LEMMA MomentumIsSum ==
    ASSUME NEW v, NEW w \in [Bodies -> Int], \A k \in Bodies : w[k] = colliding[k].mass * v[k]
    PROVE  \E g : IsSum(g, w, Bodies) /\ Collisions!Momentum(v) = g[Bodies]
<1> DEFINE Turn(g) == [s \in SUBSET Bodies |->
                          IF s = {} THEN 0
                          ELSE (colliding[CHOOSE k \in s : TRUE].mass * v[CHOOSE k \in s : TRUE])
                               + g[s \ {CHOOSE k \in s : TRUE}]]
           f == CHOOSE g : g = Turn(g)
<1>1. \A g : g = Turn(g) <=> IsSum(g, w, Bodies)
    <2> SUFFICES ASSUME NEW g PROVE Turn(g) = [s \in SUBSET Bodies |-> IF s = {} THEN 0 ELSE w[One(s)] + g[s \ {One(s)}]]
        BY DEF IsSum
    <2> QED
        BY DEF One
<1>2. \E g : g = Turn(g)
    <2>1. PICK g : IsSum(g, w, Bodies)
        BY SumExists, BodiesFinite
    <2> HIDE DEF Turn
    <2> QED
        BY <1>1, <2>1
<1>3. f = Turn(f)
    BY <1>2
<1>4. Collisions!Momentum(v) = f[Bodies]
    BY DEF Collisions!Momentum, Collisions!MapThenSumSet, Collisions!MapThenFoldSet, Bodies
<1>5. IsSum(f, w, Bodies)
    <2> HIDE DEF f, Turn
    <2> QED
        BY <1>1, <1>3
<1> QED
    BY <1>4, <1>5

LEMMA SumsUnchanged ==
    ASSUME colliding' = colliding, NEW v, v = velocity', UNCHANGED began
    PROVE  /\ Collisions!Energy(velocity)' = Collisions!Energy(v) /\ Collisions!Momentum(velocity)' = Collisions!Momentum(v)
           /\ Collisions!Energy(began)' = Collisions!Energy(began)
           /\ Collisions!Momentum(began)' = Collisions!Momentum(began)
BY DEF Collisions!Energy, Collisions!Momentum, Collisions!MapThenSumSet, Collisions!MapThenFoldSet

\* A pair collides: the others keep their velocities times the factor.
LEMMA PairCollides ==
    ASSUME CollisionTypes, NEW i \in Bodies, NEW j \in Bodies, i # j, NEW u \in [Bodies -> Int],
           NEW F, F = Unit * (colliding[i].mass + colliding[j].mass),
           u[i] = Collisions!Exchanged(colliding[i].mass, colliding[j].mass, velocity[i], velocity[j]) * colliding[i].elasticity,
           u[j] = Collisions!Exchanged(colliding[j].mass, colliding[i].mass, velocity[j], velocity[i]) * colliding[j].elasticity,
           \A k \in Bodies \ {i, j} : u[k] = velocity[k] * F
    PROVE  /\ F \in Nat
           /\ Collisions!Energy(u) \in Int /\ Collisions!Energy(velocity) \in Int
           /\ Collisions!Momentum(u) \in Int /\ Collisions!Momentum(velocity) \in Int
           /\ Collisions!Energy(u) <= (F * F) * Collisions!Energy(velocity)
           /\ (colliding[i].elasticity = Unit /\ colliding[j].elasticity = Unit) =>
                 /\ Collisions!Energy(u) = (F * F) * Collisions!Energy(velocity)
                 /\ Collisions!Momentum(u) = F * Collisions!Momentum(velocity)
<1>1. /\ Unit \in Nat /\ velocity \in [Bodies -> Int]
      /\ \A k \in Bodies : /\ colliding[k].mass \in Nat /\ colliding[k].elasticity \in 0 .. Unit
                           /\ velocity[k] \in Int /\ u[k] \in Int
    BY CollisionsAssumption DEF Collisions!ConstantsOK, CollisionTypes, Collisions!PhysicsObject
<1>2. PICK m \in Nat : m = colliding[i].mass
    BY <1>1
<1>3. PICK n \in Nat : n = colliding[j].mass
    BY <1>1
<1>4. PICK d \in 0 .. Unit : d = colliding[i].elasticity
    BY <1>1
<1>5. PICK e \in 0 .. Unit : e = colliding[j].elasticity
    BY <1>1
<1>6. PICK v \in Int : v = velocity[i]
    BY <1>1
<1>7. PICK w \in Int : w = velocity[j]
    BY <1>1
<1>8. PICK x \in Int : x = v * (m - n) + w * 2 * n
    BY SMT
<1>9. PICK y \in Int : y = w * (n - m) + v * 2 * m
    BY SMT
<1>10. u[i] = x * d /\ u[j] = y * e /\ F = Unit * (m + n) /\ F \in Nat
    BY <1>1, <1>2, <1>3, <1>4, <1>5, <1>6, <1>7, <1>8, <1>9 DEF Collisions!Exchanged
<1>11. PICK me : me = [k \in Bodies |-> colliding[k].mass * velocity[k] * velocity[k]]
    OBVIOUS
<1>12. PICK ue : ue = [k \in Bodies |-> colliding[k].mass * u[k] * u[k]]
    OBVIOUS
<1>13. PICK mm : mm = [k \in Bodies |-> colliding[k].mass * velocity[k]]
    OBVIOUS
<1>14. PICK um : um = [k \in Bodies |-> colliding[k].mass * u[k]]
    OBVIOUS
<1>15. me \in [Bodies -> Int] /\ ue \in [Bodies -> Int] /\ mm \in [Bodies -> Int] /\ um \in [Bodies -> Int]
    <2>1. ASSUME NEW k \in Bodies
          PROVE  /\ colliding[k].mass * velocity[k] \in Int /\ colliding[k].mass * u[k] \in Int
                 /\ colliding[k].mass * velocity[k] * velocity[k] \in Int /\ colliding[k].mass * u[k] * u[k] \in Int
        <3>1. colliding[k].mass \in Nat /\ velocity[k] \in Int /\ u[k] \in Int
            BY <1>1
        <3> QED
            BY <3>1, SMT
    <2> QED
        BY <1>11, <1>12, <1>13, <1>14, <2>1
<1>16. PICK E \in Int : E = Collisions!Energy(velocity)
                        /\ Collisions!Energy(u) = (F * F) * E + (ue[i] - (F * F) * me[i]) + (ue[j] - (F * F) * me[j])
                        /\ Collisions!Energy(u) \in Int
    <2>1. PICK g : IsSum(g, me, Bodies) /\ Collisions!Energy(velocity) = g[Bodies]
        BY <1>11, <1>15, EnergyIsSum
    <2>2. PICK h : IsSum(h, ue, Bodies) /\ Collisions!Energy(u) = h[Bodies]
        BY <1>12, <1>15, EnergyIsSum
    <2>3. PICK G \in Int : G = F * F
        BY <1>10
    <2>4. Scaled(ue, me, Bodies \ {i, j}, G)
        <3> SUFFICES ASSUME NEW k \in Bodies \ {i, j} PROVE ue[k] = G * me[k]
            BY DEF Scaled
        <3>1. PICK a \in Nat : a = colliding[k].mass
            BY <1>1
        <3>2. PICK b \in Int : b = velocity[k]
            BY <1>1
        <3>3. ue[k] = a * (b * F) * (b * F) /\ me[k] = a * b * b
            BY <1>11, <1>12, <3>1, <3>2
        <3>4. a * (b * F) * (b * F) = (F * F) * (a * b * b)
            BY <1>10, SMT
        <3> QED
            BY <2>3, <3>3, <3>4
    <2>5. /\ g[Bodies] \in Int /\ h[Bodies] \in Int
          /\ h[Bodies] = G * g[Bodies] + (ue[i] - G * me[i]) + (ue[j] - G * me[j])
        <3>1. ScaledSums(Bodies, me, ue, i, j, G, g, h)
            BY <1>15, <2>1, <2>2, <2>4, BodiesFinite DEF ScaledSums
        <3> QED
            BY ONLY <3>1, SumScales
    <2> QED
        BY <2>1, <2>2, <2>3, <2>5
<1>17. PICK P \in Int : P = Collisions!Momentum(velocity)
                        /\ Collisions!Momentum(u) = F * P + (um[i] - F * mm[i]) + (um[j] - F * mm[j])
                        /\ Collisions!Momentum(u) \in Int
    <2>1. PICK g : IsSum(g, mm, Bodies) /\ Collisions!Momentum(velocity) = g[Bodies]
        BY <1>13, <1>15, MomentumIsSum
    <2>2. PICK h : IsSum(h, um, Bodies) /\ Collisions!Momentum(u) = h[Bodies]
        BY <1>14, <1>15, MomentumIsSum
    <2>3. Scaled(um, mm, Bodies \ {i, j}, F)
        <3> SUFFICES ASSUME NEW k \in Bodies \ {i, j} PROVE um[k] = F * mm[k]
            BY DEF Scaled
        <3>1. PICK a \in Nat : a = colliding[k].mass
            BY <1>1
        <3>2. PICK b \in Int : b = velocity[k]
            BY <1>1
        <3>3. um[k] = a * (b * F) /\ mm[k] = a * b
            BY <1>13, <1>14, <3>1, <3>2
        <3>4. a * (b * F) = F * (a * b)
            BY <1>10, SMT
        <3> QED
            BY <3>3, <3>4
    <2>4. /\ g[Bodies] \in Int /\ h[Bodies] \in Int
          /\ h[Bodies] = F * g[Bodies] + (um[i] - F * mm[i]) + (um[j] - F * mm[j])
        <3>1. ScaledSums(Bodies, mm, um, i, j, F, g, h)
            <4>1. F \in Int
                BY <1>10
            <4> QED
                BY <1>15, <2>1, <2>2, <2>3, <4>1, BodiesFinite DEF ScaledSums
        <3> QED
            BY ONLY <3>1, SumScales
    <2> QED
        BY <2>1, <2>2, <2>4
<1>18. me[i] = m * v * v /\ me[j] = n * w * w /\ ue[i] = m * (x * d) * (x * d) /\ ue[j] = n * (y * e) * (y * e)
    BY <1>2, <1>3, <1>6, <1>7, <1>10, <1>11, <1>12
<1>19. mm[i] = m * v /\ mm[j] = n * w /\ um[i] = m * (x * d) /\ um[j] = n * (y * e)
    BY <1>2, <1>3, <1>6, <1>7, <1>10, <1>13, <1>14
<1>20. (Unit * Unit) * (m * (x * x)) + (Unit * Unit) * (n * (y * y)) = (F * F) * (m * v * v) + (F * F) * (n * w * w)
    <2>1. m * (x * x) + n * (y * y) = ((m + n) * (m + n)) * (m * (v * v) + n * (w * w))
        BY <1>8, <1>9, EnergyExchanged
    <2>2. PICK a \in Int : a = m * (x * x)
        BY SMT
    <2>3. PICK b \in Int : b = n * (y * y)
        BY SMT
    <2>4. (Unit * Unit) * a + (Unit * Unit) * b = (Unit * Unit) * (a + b)
        BY <1>1, SMT
    <2>5. (Unit * Unit) * (((m + n) * (m + n)) * (m * (v * v) + n * (w * w)))
              = ((Unit * (m + n)) * (Unit * (m + n))) * (m * v * v) + ((Unit * (m + n)) * (Unit * (m + n))) * (n * w * w)
        BY <1>1, SMT
    <2> QED
        BY <1>10, <2>1, <2>2, <2>3, <2>4, <2>5
<1>21. ue[i] + ue[j] <= (F * F) * me[i] + (F * F) * me[j]
    <2>1. m * ((x * d) * (x * d)) <= (Unit * Unit) * (m * (x * x))
        BY <1>1, EnergyDamped
    <2>2. n * ((y * e) * (y * e)) <= (Unit * Unit) * (n * (y * y))
        BY <1>1, EnergyDamped
    <2>3. ue[i] = m * ((x * d) * (x * d)) /\ ue[j] = n * ((y * e) * (y * e))
        <3>1. m * (x * d) * (x * d) = m * ((x * d) * (x * d)) /\ n * (y * e) * (y * e) = n * ((y * e) * (y * e))
            BY SMT
        <3> QED
            BY <1>18, <3>1
    <2>4. PICK a \in Int : a = (Unit * Unit) * (m * (x * x))
        BY <1>1, SMT
    <2>5. PICK b \in Int : b = (Unit * Unit) * (n * (y * y))
        BY <1>1, SMT
    <2>6. ue[i] \in Int /\ ue[j] \in Int
        BY <1>15
    <2>7. ue[i] + ue[j] <= a + b
        BY <2>1, <2>2, <2>3, <2>4, <2>5, <2>6
    <2> QED
        BY <1>18, <1>20, <2>4, <2>5, <2>7
<1>22. ASSUME d = Unit, e = Unit
       PROVE  ue[i] + ue[j] = (F * F) * me[i] + (F * F) * me[j] /\ um[i] + um[j] = F * mm[i] + F * mm[j]
    <2>1. m * (x * Unit) * (x * Unit) + n * (y * Unit) * (y * Unit)
              = (Unit * Unit) * (m * (x * x)) + (Unit * Unit) * (n * (y * y))
        BY <1>1, SMT
    <2>2. m * (x * Unit) + n * (y * Unit) = Unit * (m * x + n * y)
        BY <1>1, SMT
    <2>3. m * x + n * y = (m + n) * (m * v + n * w)
        BY <1>8, <1>9, MomentumExchanged
    <2>4. Unit * ((m + n) * (m * v + n * w)) = (Unit * (m + n)) * (m * v) + (Unit * (m + n)) * (n * w)
        BY <1>1, SMT
    <2> QED
        BY <1>10, <1>18, <1>19, <1>20, <1>22, <2>1, <2>2, <2>3, <2>4
<1>23. PICK a \in Int : a = (F * F) * me[i]
    BY <1>10, <1>15, SMT
<1>24. PICK b \in Int : b = (F * F) * me[j]
    BY <1>10, <1>15, SMT
<1>25. PICK G \in Int : G = (F * F) * E
    BY <1>10, SMT
<1>26. PICK k \in Int : k = F * mm[i]
    BY <1>10, <1>15, SMT
<1>27. PICK l \in Int : l = F * mm[j]
    BY <1>10, <1>15, SMT
<1>28. PICK Q \in Int : Q = F * P
    BY <1>10, SMT
<1>29. ue[i] \in Int /\ ue[j] \in Int /\ um[i] \in Int /\ um[j] \in Int
    BY <1>15
<1>30. Collisions!Energy(u) <= G
    BY <1>16, <1>21, <1>23, <1>24, <1>25, <1>29
<1>31. ASSUME d = Unit, e = Unit PROVE Collisions!Energy(u) = G /\ Collisions!Momentum(u) = Q
    <2>1. ue[i] + ue[j] = a + b /\ um[i] + um[j] = k + l
        BY <1>22, <1>23, <1>24, <1>26, <1>27, <1>31
    <2>2. Collisions!Energy(u) = G + (ue[i] - a) + (ue[j] - b)
        BY <1>16, <1>23, <1>24, <1>25
    <2>3. Collisions!Momentum(u) = Q + (um[i] - k) + (um[j] - l)
        BY <1>17, <1>26, <1>27, <1>28
    <2>4. Collisions!Energy(u) = G
        <3>1. PICK p \in Int : p = ue[i]
            BY <1>29
        <3>2. PICK q \in Int : q = ue[j]
            BY <1>29
        <3>3. p + q = a + b /\ Collisions!Energy(u) = G + (p - a) + (q - b)
            BY <2>1, <2>2, <3>1, <3>2
        <3> QED
            BY <3>3
    <2>5. Collisions!Momentum(u) = Q
        <3>1. PICK p \in Int : p = um[i]
            BY <1>29
        <3>2. PICK q \in Int : q = um[j]
            BY <1>29
        <3>3. p + q = k + l /\ Collisions!Momentum(u) = Q + (p - k) + (q - l)
            BY <2>1, <2>3, <3>1, <3>2
        <3> QED
            BY <3>3
    <2> QED
        BY <2>4, <2>5
<1> QED
    BY <1>4, <1>5, <1>10, <1>16, <1>17, <1>25, <1>28, <1>30, <1>31

LEMMA SumIsInteger ==
    ASSUME NEW w \in [Bodies -> Int], NEW g, IsSum(g, w, Bodies)
    PROVE  g[Bodies] \in Int
<1>1. 1 \in Bodies /\ 2 \in Bodies /\ 1 # 2
    BY BodiesFinite
<1>2. Scaled(w, w, Bodies \ {1, 2}, 1)
    <2>1. \A k \in Bodies : w[k] \in Int
        OBVIOUS
    <2> QED
        BY <2>1 DEF Scaled
<1>3. ScaledSums(Bodies, w, w, 1, 2, 1, g, g)
    BY <1>1, <1>2, BodiesFinite DEF ScaledSums
<1> QED
    BY ONLY <1>3, SumScales

LEMMA EnergyIsInteger ==
    ASSUME CollisionTypes, NEW v \in [Bodies -> Int]
    PROVE  Collisions!Energy(v) \in Int /\ Collisions!Momentum(v) \in Int
<1>1. ASSUME NEW k \in Bodies PROVE colliding[k].mass * v[k] * v[k] \in Int /\ colliding[k].mass * v[k] \in Int
    <2>1. colliding[k].mass \in Nat /\ v[k] \in Int
        BY CollisionsAssumption DEF Collisions!ConstantsOK, CollisionTypes, Collisions!PhysicsObject
    <2> QED
        BY <2>1, SMT
<1>2. PICK e : e = [k \in Bodies |-> colliding[k].mass * v[k] * v[k]]
    OBVIOUS
<1>3. PICK m : m = [k \in Bodies |-> colliding[k].mass * v[k]]
    OBVIOUS
<1>4. e \in [Bodies -> Int] /\ \A k \in Bodies : e[k] = colliding[k].mass * v[k] * v[k]
    BY <1>1, <1>2
<1>5. m \in [Bodies -> Int] /\ \A k \in Bodies : m[k] = colliding[k].mass * v[k]
    BY <1>1, <1>3
<1>6. PICK g : IsSum(g, e, Bodies) /\ Collisions!Energy(v) = g[Bodies]
    BY <1>4, EnergyIsSum
<1>7. PICK h : IsSum(h, m, Bodies) /\ Collisions!Momentum(v) = h[Bodies]
    BY <1>5, MomentumIsSum
<1> QED
    BY <1>4, <1>5, <1>6, <1>7, SumIsInteger

LEMMA CollisionKeepsEnergy ==
    ASSUME CollisionInv, NEW i \in Bodies, NEW j \in Bodies, i < j, pair = <<i, j>>, Collisions!CheckPair,
           Collisions!Collides(colliding[i], colliding[j])
    PROVE  CollisionInv'
<1>0. CollisionTypes /\ scale \in Int
    BY DEF CollisionInv, CollisionTypes
<1>1. PICK F : F = Unit * (colliding[i].mass + colliding[j].mass)
    OBVIOUS
<1>2. PICK u : u = velocity'
    OBVIOUS
<1>3. /\ Unit \in Nat /\ i # j
      /\ \A k \in Bodies : colliding[k].mass \in Nat /\ colliding[k].elasticity \in Nat /\ velocity[k] \in Int
    <2>1. Unit \in Nat /\ Elasticities \subseteq 0 .. Unit /\ Masses \subseteq Nat
        BY CollisionsAssumption DEF Collisions!ConstantsOK
    <2>2. i # j
        <3>1. i \in Int /\ j \in Int
            BY BodiesFinite
        <3> QED
            BY <3>1
    <2>3. ASSUME NEW k \in Bodies
          PROVE  colliding[k].mass \in Nat /\ colliding[k].elasticity \in Nat /\ velocity[k] \in Int
        <3>1. colliding[k].mass \in Masses /\ colliding[k].elasticity \in Elasticities
            BY <1>0 DEF CollisionTypes, Collisions!PhysicsObject
        <3>2. velocity[k] \in Int
            BY <1>0 DEF CollisionTypes
        <3>3. colliding[k].elasticity \in 0 .. Unit
            BY <2>1, <3>1
        <3>4. colliding[k].mass \in Nat
            BY <2>1, <3>1
        <3>5. colliding[k].elasticity \in Nat
            BY ONLY <2>1, <3>3
        <3> QED
            BY ONLY <3>2, <3>4, <3>5
    <2> QED
        BY <2>1, <2>2, <2>3
<1>4. PICK a : a = Collisions!Exchanged(colliding[i].mass, colliding[j].mass, velocity[i], velocity[j]) * colliding[i].elasticity
    OBVIOUS
<1>5. PICK b : b = Collisions!Exchanged(colliding[j].mass, colliding[i].mass, velocity[j], velocity[i]) * colliding[j].elasticity
    OBVIOUS
<1>6. /\ pair' = Collisions!After(<<i, j>>) /\ scale' = scale * F /\ UNCHANGED <<colliding, began>>
      /\ u = [k \in Bodies |-> CASE k = i -> a [] k = j -> b [] OTHER -> velocity[k] * F]
    <2>1. Collisions!Resolved(colliding[i], colliding[j], velocity[i], velocity[j]) = <<a, b>>
        BY <1>4, <1>5 DEF Collisions!Resolved
    <2>2. pair[1] = i /\ pair[2] = j
        OBVIOUS
    <2> QED
        BY <1>1, <1>2, <2>1, <2>2 DEF Collisions!CheckPair, Bodies
<1>7. F \in Int /\ a \in Int /\ b \in Int
    <2>1. PICK m \in Nat : m = colliding[i].mass
        BY <1>3
    <2>2. PICK n \in Nat : n = colliding[j].mass
        BY <1>3
    <2>3. PICK v \in Int : v = velocity[i]
        BY <1>3
    <2>4. PICK w \in Int : w = velocity[j]
        BY <1>3
    <2>5. PICK d \in Nat : d = colliding[i].elasticity
        BY <1>3
    <2>6. PICK e \in Nat : e = colliding[j].elasticity
        BY <1>3
    <2>7. /\ F = Unit * (m + n) /\ a = (v * (m - n) + w * 2 * n) * d /\ b = (w * (n - m) + v * 2 * m) * e
        BY <1>1, <1>4, <1>5, <2>1, <2>2, <2>3, <2>4, <2>5, <2>6 DEF Collisions!Exchanged
    <2>8. v * (m - n) + w * 2 * n \in Int /\ w * (n - m) + v * 2 * m \in Int
        BY SMT
    <2> QED
        BY <1>3, <2>7, <2>8, SMT
<1>8. u \in [Bodies -> Int] /\ u[i] = a /\ u[j] = b /\ \A k \in Bodies \ {i, j} : u[k] = velocity[k] * F
    <2>1. ASSUME NEW k \in Bodies PROVE velocity[k] * F \in Int
        <3>1. velocity[k] \in Int
            BY <1>3
        <3> QED
            BY <1>7, <3>1, SMT
    <2> QED
        BY <1>3, <1>6, <1>7, <2>1
<1>9. /\ F \in Nat
      /\ Collisions!Energy(u) \in Int /\ Collisions!Energy(velocity) \in Int
      /\ Collisions!Momentum(u) \in Int /\ Collisions!Momentum(velocity) \in Int
      /\ Collisions!Energy(u) <= (F * F) * Collisions!Energy(velocity)
      /\ (colliding[i].elasticity = Unit /\ colliding[j].elasticity = Unit) =>
            /\ Collisions!Energy(u) = (F * F) * Collisions!Energy(velocity)
            /\ Collisions!Momentum(u) = F * Collisions!Momentum(velocity)
    BY <1>0, <1>1, <1>3, <1>4, <1>5, <1>8, PairCollides
<1>10. Collisions!Energy(began) \in Int /\ Collisions!Momentum(began) \in Int
    <2>1. began \in [Bodies -> Int]
        BY <1>0 DEF CollisionTypes
    <2> QED
        BY <1>0, <2>1, EnergyIsInteger
<1>11. CollisionTypes'
    <2>1. scale' \in Int
        BY <1>0, <1>6, <1>7, SMT
    <2>2. pair' = Collisions!Done \/ \E k, l \in Bodies : pair' = <<k, l>> /\ k < l
        BY <1>6, PairsInOrder
    <2> QED
        BY <1>0, <1>2, <1>6, <1>8, <2>1, <2>2 DEF CollisionTypes
<1>12. PICK E \in Int : E = Collisions!Energy(velocity)
    BY <1>9
<1>13. PICK Eu \in Int : Eu = Collisions!Energy(u)
    BY <1>9
<1>14. PICK Eb \in Int : Eb = Collisions!Energy(began)
    BY <1>10
<1>15. PICK P \in Int : P = Collisions!Momentum(velocity)
    BY <1>9
<1>16. PICK Pb \in Int : Pb = Collisions!Momentum(began)
    BY <1>10
<1>17. PICK c \in Int : c = scale
    BY <1>0
<1>18. /\ E <= Eb * c * c
       /\ (\A k \in Bodies : colliding[k].elasticity = Unit) => P = Pb * c /\ E = Eb * c * c
    BY <1>12, <1>14, <1>15, <1>16, <1>17 DEF CollisionInv, NoEnergyGained, Collisions!NoEnergyGained, Bodies
<1>19. Eu <= Eb * (c * F) * (c * F)
    <2>1. Eu <= (F * F) * E
        BY <1>9, <1>12, <1>13
    <2>2. (F * F) * E <= (F * F) * (Eb * c * c)
        <3>1. PICK f \in Nat : f = F * F
            BY <1>9, SMT
        <3>2. PICK y \in Int : y = Eb * c * c
            BY SMT
        <3>3. E <= y
            BY <1>18, <3>2
        <3>4. f * E <= f * y
            BY <3>3, SMT
        <3> QED
            BY <3>1, <3>2, <3>4
    <2>3. (F * F) * (Eb * c * c) = Eb * (c * F) * (c * F)
        BY <1>9, SMT
    <2>4. (F * F) * E \in Int /\ (F * F) * (Eb * c * c) \in Int
        BY <1>9, SMT
    <2> QED
        BY <2>1, <2>2, <2>3, <2>4
<1>20. ASSUME \A k \in Bodies : colliding[k].elasticity = Unit
       PROVE  Collisions!Momentum(u) = Pb * (c * F) /\ Eu = Eb * (c * F) * (c * F)
    <2>1. P = Pb * c /\ E = Eb * c * c /\ Eu = (F * F) * E /\ Collisions!Momentum(u) = F * P
        BY <1>9, <1>12, <1>13, <1>15, <1>18, <1>20
    <2>2. (F * F) * (Eb * c * c) = Eb * (c * F) * (c * F) /\ F * (Pb * c) = Pb * (c * F)
        BY <1>9, SMT
    <2> QED
        BY <2>1, <2>2
<1>21. NoEnergyGained'
    <2>1. /\ Collisions!Energy(velocity)' = Eu /\ Collisions!Momentum(velocity)' = Collisions!Momentum(u)
          /\ Collisions!Energy(began)' = Eb /\ Collisions!Momentum(began)' = Pb
        BY <1>2, <1>6, <1>13, <1>14, <1>16, SumsUnchanged
    <2>2. scale' = c * F
        BY <1>6, <1>17
    <2> QED
        BY <1>6, <1>19, <1>20, <2>1, <2>2 DEF NoEnergyGained, Collisions!NoEnergyGained, Bodies
<1> QED
    BY <1>11, <1>21 DEF CollisionInv

LEMMA CollisionsKept == CollisionInv /\ [Collisions!CheckPair]_(Collisions!vars) => CollisionInv'
<1> SUFFICES ASSUME CollisionInv, [Collisions!CheckPair]_(Collisions!vars) PROVE CollisionInv'
    OBVIOUS
<1>0. CollisionTypes /\ NoEnergyGained
    BY DEF CollisionInv
<1>1. ASSUME UNCHANGED <<colliding, velocity, scale, began>>,
             pair' = Collisions!Done \/ \E k, l \in Bodies : pair' = <<k, l>> /\ k < l
      PROVE  CollisionInv'
    <2>1. CollisionTypes'
        BY <1>0, <1>1 DEF CollisionTypes
    <2>2. PICK v : v = velocity
        OBVIOUS
    <2>3. /\ Collisions!Energy(velocity)' = Collisions!Energy(velocity)
          /\ Collisions!Momentum(velocity)' = Collisions!Momentum(velocity)
          /\ Collisions!Energy(began)' = Collisions!Energy(began)
          /\ Collisions!Momentum(began)' = Collisions!Momentum(began)
        BY <1>1, <2>2, SumsUnchanged
    <2>4. NoEnergyGained'
        BY <1>0, <1>1, <2>3 DEF NoEnergyGained, Collisions!NoEnergyGained
    <2> QED
        BY <2>1, <2>4 DEF CollisionInv
<1>2. CASE UNCHANGED Collisions!vars
    BY <1>0, <1>1, <1>2 DEF Collisions!vars, CollisionTypes
<1>3. CASE Collisions!CheckPair
    <2>1. pair # Collisions!Done
        BY <1>3 DEF Collisions!CheckPair
    <2>2. PICK i, j \in Bodies : pair = <<i, j>> /\ i < j
        BY <1>0, <2>1 DEF CollisionTypes
    <2>3. CASE Collisions!Collides(colliding[i], colliding[j])
        BY <1>3, <2>2, <2>3, CollisionKeepsEnergy
    <2>4. CASE ~ Collisions!Collides(colliding[i], colliding[j])
        <3>1. pair' = Collisions!After(<<i, j>>) /\ UNCHANGED <<colliding, velocity, scale, began>>
            BY <1>3, <2>2, <2>4 DEF Collisions!CheckPair
        <3> QED
            BY <1>1, <2>2, <3>1, PairsInOrder
    <2> QED
        BY <2>3, <2>4
<1> QED
    BY <1>2, <1>3

LEMMA CollisionsBegin == ASSUME Collisions!Init PROVE CollisionInv
<1>1. CollisionTypes
    <2>1. 1 \in Bodies /\ 2 \in Bodies /\ 1 < 2
        BY BodiesFinite
    <2>2. Velocities \subseteq Int
        BY CollisionsAssumption DEF Collisions!ConstantsOK
    <2>3. /\ colliding \in [Bodies -> Collisions!PhysicsObject]
          /\ velocity \in [Bodies -> Velocities] /\ began = velocity /\ scale = 1 /\ pair = <<1, 2>>
        BY DEF Collisions!Init, Collisions!Places, Bodies
    <2>4. velocity \in [Bodies -> Int] /\ began \in [Bodies -> Int]
        BY <2>2, <2>3
    <2>5. scale \in Nat
        BY <2>3
    <2>6. \E i, j \in Bodies : pair = <<i, j>> /\ i < j
        BY <2>1, <2>3
    <2> QED
        BY <2>3, <2>4, <2>5, <2>6 DEF CollisionTypes
<1>2. /\ Collisions!Energy(velocity) = Collisions!Energy(began)
      /\ Collisions!Momentum(velocity) = Collisions!Momentum(began)
      /\ scale = 1
    BY DEF Collisions!Init
<1>3. Collisions!Energy(began) \in Int /\ Collisions!Momentum(began) \in Int
    <2>1. began \in [Bodies -> Int]
        BY <1>1 DEF CollisionTypes
    <2> QED
        BY <1>1, <2>1, EnergyIsInteger
<1>4. NoEnergyGained
    <2>1. /\ Collisions!Energy(began) * 1 * 1 = Collisions!Energy(began)
          /\ Collisions!Momentum(began) * 1 = Collisions!Momentum(began)
        BY <1>3
    <2> QED
        BY <1>2, <1>3, <2>1 DEF NoEnergyGained, Collisions!NoEnergyGained
<1> QED
    BY <1>1, <1>4 DEF CollisionInv

\* PhysicsEngine._detect_collisions: whatever objects meet and in which order the pairs
\* are resolved, each with the velocities the earlier ones left, a step gains no energy,
\* and with full elasticity the momentum and the energy of the world stay the same, for
\* any number of objects, masses, velocities and elasticities.
THEOREM CollisionsGainNothing == MCSpec => []NoEnergyGained
<1>1. MCInit => CollisionInv
    BY CollisionsBegin DEF MCInit
<1>2. CollisionInv /\ [MCNext]_MCVars => CollisionInv'
    BY CollisionSteps, CollisionsKept
<1>3. CollisionInv => NoEnergyGained
    BY DEF CollisionInv
<1> QED
    BY <1>1, <1>2, <1>3, PTL DEF MCSpec

=============================================================================
