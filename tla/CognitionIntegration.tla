------------------------ MODULE CognitionIntegration ------------------------
(***************************************************************************)
(* CognitionIntegrator: the queues between the simulation and the agents   *)
(* of the cognitive layer, and what agents learn from feedback.  Feedback  *)
(* is processed long after it was received; the agent may have been        *)
(* registered, or registered anew, in between.                             *)
(***************************************************************************)
EXTENDS Naturals, Sequences, SequencesExt

CONSTANTS
    Agents,
    Topics,      \* keys of learning data
    MaxFeedback, \* bound: feedback received, and observations sent
    MaxRounds    \* bound: times that agents are registered, and queues processed

ConstantsOK == MaxFeedback \in Nat

VARIABLES
    agents,       \* cognitive_agents
    observations, \* observation_queue
    feedbackQueue,\* feedback_queue: places in feedback
    feedback,     \* the CognitionFeedback received
    model,        \* agent_models: of each agent and topic the feedback learned, 0 if none
    sent,         \* number of observations sent
    emergence,    \* number of emergence_events, which nobody reads
    processed,    \* history: of each feedback the round it was processed in, 0 before
    registered,   \* history: of each agent the round it was last registered in
    round         \* history

vars == <<agents, observations, feedbackQueue, feedback, model, sent, emergence, processed, registered, round>>

CognitionObservation == 1 .. MaxFeedback
CognitionFeedback == [agent : Agents, learning : SUBSET Topics]

Init ==
    /\ agents = {} /\ observations = <<>> /\ feedbackQueue = <<>> /\ feedback = <<>>
    /\ model = [a \in Agents |-> [t \in Topics |-> 0]]
    /\ sent = 0 /\ emergence = 0 /\ processed = <<>> /\ registered = [a \in Agents |-> 0] /\ round = 0

\* An agent that is registered again forgets what it has learned.
Register(a) ==
    /\ round < MaxRounds /\ round' = round + 1
    /\ agents' = agents \cup {a}
    /\ model' = [model EXCEPT ![a] = [t \in Topics |-> 0]]
    /\ registered' = [registered EXCEPT ![a] = round']
    /\ UNCHANGED <<observations, feedbackQueue, feedback, sent, emergence, processed>>

SendObservation ==
    /\ sent < MaxFeedback
    /\ sent' = sent + 1
    /\ observations' = Append(observations, sent')
    /\ UNCHANGED <<agents, feedbackQueue, feedback, model, emergence, processed, registered, round>>

\* The agent need not be registered.
ReceiveFeedback(a, learning) ==
    /\ Len(feedback) < MaxFeedback
    /\ feedback' = Append(feedback, [agent |-> a, learning |-> learning])
    /\ feedbackQueue' = Append(feedbackQueue, Len(feedback'))
    /\ processed' = Append(processed, 0)
    /\ UNCHANGED <<agents, observations, model, sent, emergence, registered, round>>

\* The agents hear nothing of the observations yet.
ProcessObservations ==
    /\ observations # <<>>
    /\ observations' = <<>>
    /\ UNCHANGED <<agents, feedbackQueue, feedback, model, sent, emergence, processed, registered, round>>

DetectEmergentBehavior ==
    /\ emergence < MaxFeedback
    /\ emergence' = emergence + 1
    /\ UNCHANGED <<agents, observations, feedbackQueue, feedback, model, sent, processed, registered, round>>

Teaches(f, a, t) == feedback[f].agent = a /\ t \in feedback[f].learning

\* Where in the queue an agent is taught of a topic; feedback of agents without a model
\* is gone.
Lessons(a, t) == {k \in DOMAIN feedbackQueue : a \in agents /\ Teaches(feedbackQueue[k], a, t)}

\* Slip: feedback does not overwrite what was learned before in the same round.
Updated_First(a, t) ==
    IF Lessons(a, t) = {} THEN model[a][t] ELSE feedbackQueue[Min(Lessons(a, t))]
\* What a model says of a topic after the queued feedback, where later lessons overwrite
\* earlier ones.
Updated(a, t) ==
    IF Lessons(a, t) = {} THEN model[a][t] ELSE feedbackQueue[Max(Lessons(a, t))]

ProcessFeedback ==
    /\ feedbackQueue # <<>>
    /\ round < MaxRounds /\ round' = round + 1
    /\ model' = [a \in Agents |-> [t \in Topics |-> Updated(a, t)]]
    /\ processed' = [f \in DOMAIN processed |-> IF Contains(feedbackQueue, f) THEN round' ELSE processed[f]]
    /\ feedbackQueue' = <<>>
    /\ UNCHANGED <<agents, observations, feedback, sent, emergence, registered>>

Next ==
    \/ SendObservation \/ ProcessObservations \/ ProcessFeedback \/ DetectEmergentBehavior
    \/ \E a \in Agents : Register(a) \/ \E l \in SUBSET Topics : ReceiveFeedback(a, l)

Spec == Init /\ [][Next]_vars

-----------------------------------------------------------------------------

TypeOK ==
    /\ agents \subseteq Agents /\ observations \in Seq(CognitionObservation)
    /\ feedback \in Seq(CognitionFeedback) /\ feedbackQueue \in Seq(DOMAIN feedback)
    /\ model \in [Agents -> [Topics -> 0 .. Len(feedback)]] /\ sent \in 0 .. MaxFeedback

\* The feedback of an agent that was processed since it was last registered.
Heard(a) == {f \in DOMAIN feedback : registered[a] # 0 /\ processed[f] > registered[a] /\ feedback[f].agent = a}

\* What an agent's model says of a topic is the latest feedback on it that was
\* processed since the agent was last registered, also if it was received before; what
\* was processed earlier is not learned later.
LearnsTheLatest ==
    \A a \in Agents, t \in Topics :
        LET on == {f \in Heard(a) : t \in feedback[f].learning}
        IN  IF on = {} THEN model[a][t] = 0
            ELSE model[a][t] \in on /\ \A f \in on : f <= model[a][t]

=============================================================================
