----------------------------- MODULE EngineRuns -----------------------------
(***************************************************************************)
(* The engines that run lists of user functions: orchestration (flows of   *)
(* nodes with links), tec (pipelines of stages, and of attached processes  *)
(* in tec/orchestration), build (phases of steps) and sim (rules of a      *)
(* world), and those that run one function: the step of a model (sim) and  *)
(* a function of a domain (cognitive).  The functions may call every       *)
(* engine and raise; lists are walked as they grow.  The condition of a    *)
(* link is taken as a choice: it calls nothing.  There is one list of each *)
(* kind: a run goes on with the flow or world it found, whatever its name  *)
(* stands for by then.                                                     *)
(***************************************************************************)
EXTENDS Naturals, Sequences, FiniteSets, SequencesExt

CONSTANTS
    Names,     \* names of nodes, and of the other functions
    Lists,     \* the kinds of lists used
    MaxItems,  \* bound: items of a list, links
    MaxRuns,   \* bound: runs begun
    MaxDepth,  \* bound: runs under way
    MaxSessions

VARIABLES
    nodes,     \* OrchFabric.nodes: names that have a node
    links,     \* OrchFabric.links
    processes, \* TECOrchestrationEngine.processes
    list,      \* of each kind: sequence of a flow, stages, steps, rules
    session,   \* the SimSession or CognitiveSession object of the session id
    history,   \* history of each session object: runs recorded
    modelState,\* SimModel.state: the run of the last step whose result was kept
    stack,     \* runs under way, the innermost last
    runs,      \* history: every run begun
    executed,  \* history: of each run, the items executed
    done       \* history: the runs that returned, with the length of their list and
               \* whether they made a new state of the model

vars == <<nodes, links, processes, list, session, history, modelState, stack, runs, executed, done>>

Walks == {"flow", "pipeline", "attached", "phase", "rules"}
Recorded == {"rules", "model", "function"}

OrchLink == [source : Names, target : Names]

\* at: the item; link: the link considered after it, 0 for the item itself; inside:
\* whether its function is running.
Frame == [kind : Walks \cup Recorded, run : Nat, at : Nat, link : Nat, inside : BOOLEAN]

\* session: the object found when the run began; known, saw, within: nodes, state of
\* the model and runs under way then.
Run ==
    [kind : Walks \cup Recorded \cup {"initialize"}, session : Nat, known : SUBSET Names, saw : Nat, within : SUBSET Nat]

Init ==
    /\ nodes = {} /\ links = <<>> /\ processes = {} /\ list = [k \in Lists |-> <<>>]
    /\ session = 0 /\ history = <<>> /\ modelState = 0
    /\ stack = <<>> /\ runs = <<>> /\ executed = <<>> /\ done = {}

Top == stack[Len(stack)]
MayCall == stack # <<>> => Top.inside

-----------------------------------------------------------------------------

AddNode(n) ==
    /\ MayCall
    /\ nodes' = nodes \cup {n}
    /\ UNCHANGED <<links, processes, list, session, history, modelState, stack, runs, executed, done>>

AddLink(s, t) ==
    /\ MayCall /\ Len(links) < MaxItems
    /\ links' = Append(links, [source |-> s, target |-> t])
    /\ UNCHANGED <<nodes, processes, list, session, history, modelState, stack, runs, executed, done>>

\* OrchFlow.add_step, TECPipeline.add_stage, BuildPhase.add_step, SimWorld.add_rule
AddItem(k, n) ==
    /\ MayCall /\ Len(list[k]) < MaxItems
    /\ list' = [list EXCEPT ![k] = Append(@, n)]
    /\ UNCHANGED <<nodes, links, processes, session, history, modelState, stack, runs, executed, done>>

AddProcess(n) ==
    /\ MayCall
    /\ processes' = processes \cup {n}
    /\ UNCHANGED <<nodes, links, list, session, history, modelState, stack, runs, executed, done>>

\* attach_process_to_pipeline: the process must exist by then.
AttachProcess(n) == n \in processes /\ AddItem("attached", n)

\* A session of that id is replaced, with its history.
CreateSession ==
    /\ MayCall /\ Len(history) < MaxSessions
    /\ history' = Append(history, <<>>)
    /\ session' = Len(history')
    /\ UNCHANGED <<nodes, links, processes, list, modelState, stack, runs, executed, done>>

-----------------------------------------------------------------------------
(* Runs *)

Begin(kind, inside) ==
    /\ MayCall /\ Len(stack) < MaxDepth /\ Len(runs) < MaxRuns
    /\ kind \in Recorded => session # 0
    /\ runs' = Append(runs, [kind |-> kind, session |-> session, known |-> nodes, saw |-> modelState,
                             within |-> {stack[k].run : k \in DOMAIN stack}])
    /\ executed' = Append(executed, <<>>)
    /\ stack' = Append(stack, [kind |-> kind, run |-> Len(runs'), at |-> 1, link |-> 0, inside |-> inside])
    /\ UNCHANGED <<nodes, links, processes, list, session, history, modelState, done>>

RunFlow == Begin("flow", FALSE)
RunPipeline == Begin("pipeline", FALSE)
Execute == Begin("attached", FALSE)
RunPhase == Begin("phase", FALSE)
RunWorldTick == Begin("rules", FALSE)
RunModelStep == Begin("model", TRUE)
RunFunction == Begin("function", TRUE)

Moved(f) == stack' = [stack EXCEPT ![Len(stack)] = f]

\* The record goes to the session that was found when the run began.
RecordedIn(run) == runs[run].session

\* The result of a step replaces the state, whatever other steps made of it meanwhile.
Kept(run) == run

\* A step without a state in its result leaves the state that is there by now.
End(length, kept) ==
    /\ stack' = SubSeq(stack, 1, Len(stack) - 1)
    /\ done' = done \cup {[run |-> Top.run, length |-> length, kept |-> kept]}
    /\ history' = IF Top.kind \in Recorded
                  THEN [history EXCEPT ![RecordedIn(Top.run)] = Append(@, Top.run)] ELSE history
    /\ modelState' = IF kept THEN Kept(Top.run) ELSE modelState

\* SimModel.initialize: counted as a run that returns at once, with a new state.
InitializeModel ==
    /\ MayCall /\ Len(runs) < MaxRuns
    /\ runs' = Append(runs, [kind |-> "initialize", session |-> 0, known |-> {}, saw |-> modelState,
                             within |-> {stack[k].run : k \in DOMAIN stack}])
    /\ executed' = Append(executed, <<>>)
    /\ done' = done \cup {[run |-> Len(runs'), length |-> 0, kept |-> TRUE]}
    /\ modelState' = Len(runs')
    /\ UNCHANGED <<nodes, links, processes, list, session, history, stack>>

\* Slip: only the first item of a list is executed.
Exhausted_Early(f) == f.at > Len(list[f.kind]) \/ f.at > 1
Exhausted(f) == f.at > Len(list[f.kind])

\* A walk goes on: the next item runs, is a node that is missing, or there is none.
NextItem ==
    /\ stack # <<>> /\ ~ Top.inside /\ Top.link = 0
    /\ IF Exhausted(Top) THEN End(Len(list[Top.kind]), FALSE)
       ELSE /\ Moved(IF Top.kind = "flow" /\ list["flow"][Top.at] \notin nodes
                     THEN [Top EXCEPT !.at = @ + 1] ELSE [Top EXCEPT !.inside = TRUE])
            /\ UNCHANGED <<done, history, modelState>>
    /\ UNCHANGED <<nodes, links, processes, list, session, runs, executed>>

\* After a node its active links are followed, one step.
NextLink ==
    LET f == Top
        l == links[f.link]
    IN  /\ stack # <<>> /\ ~ f.inside /\ f.link > 0
        /\ IF f.link > Len(links) THEN Moved([f EXCEPT !.at = @ + 1, !.link = 0])
           ELSE \/ Moved([f EXCEPT !.link = @ + 1])
                \/ /\ l.source = list["flow"][f.at] /\ l.target \in nodes
                   /\ Moved([f EXCEPT !.inside = TRUE])
        /\ UNCHANGED <<nodes, links, processes, list, session, history, modelState, runs, executed, done>>

\* The function at the top returns.
Returns ==
    /\ stack # <<>> /\ Top.inside
    /\ IF Top.kind \in Walks
       THEN /\ Moved(IF Top.kind = "flow" THEN [Top EXCEPT !.inside = FALSE, !.link = @ + 1]
                     ELSE [Top EXCEPT !.inside = FALSE, !.at = @ + 1])
            /\ executed' = IF Top.link = 0
                           THEN [executed EXCEPT ![Top.run] = Append(@, Top.at)] ELSE executed
            /\ UNCHANGED <<done, history, modelState>>
       ELSE /\ \E kept \in BOOLEAN : (kept => Top.kind = "model") /\ End(0, kept)
            /\ UNCHANGED executed
    /\ UNCHANGED <<nodes, links, processes, list, session, runs>>

\* An exception ends the run, with no record.
Raises ==
    /\ stack # <<>> /\ Top.inside
    /\ stack' = SubSeq(stack, 1, Len(stack) - 1)
    /\ UNCHANGED <<nodes, links, processes, list, session, history, modelState, runs, executed, done>>

Step == NextItem \/ NextLink \/ Returns \/ Raises

Compose ==
    \/ \E n \in Names : AddNode(n) \/ AddProcess(n) \/ AttachProcess(n)
                           \/ \E k \in Lists \ {"attached"} : AddItem(k, n)
    \/ \E s, t \in Names : AddLink(s, t)

Next ==
    \/ Step \/ Compose \/ CreateSession
    \/ RunFlow \/ RunPipeline \/ Execute \/ RunPhase \/ RunWorldTick \/ RunModelStep \/ RunFunction
    \/ InitializeModel

Spec == Init /\ [][Next]_vars

-----------------------------------------------------------------------------

TypeOK ==
    /\ nodes \subseteq Names /\ links \in Seq(OrchLink) /\ processes \subseteq Names /\ list \in [Lists -> Seq(Names)]
    /\ session \in 0 .. Len(history) /\ history \in Seq(Seq(DOMAIN runs))
    /\ modelState \in 0 .. Len(runs)
    /\ stack \in Seq(Frame) /\ runs \in Seq(Run)
    /\ executed \in Seq(Seq(Nat))

Increasing(s) == \A j, k \in DOMAIN s : j < k => s[j] < s[k]

\* A run that returned has executed every item of its list once and in order, those
\* included that were added while it ran; of a flow, every step whose node existed
\* when it began.  This holds over runs of the same list inside each other, links that
\* lead to nodes of the flow, and exceptions of inner runs.
RunsComplete ==
    \A d \in done : runs[d.run].kind \in Walks =>
        /\ Increasing(executed[d.run])
        /\ \A i \in 1 .. d.length :
              \/ Contains(executed[d.run], i)
              \/ runs[d.run].kind = "flow" /\ list["flow"][i] \notin runs[d.run].known

\* Every run that returned is recorded once, in the session it began with, inner runs
\* before outer ones, and no run that raised.
SessionsTell ==
    \A s \in DOMAIN history :
        /\ Range(history[s]) = {r \in {d.run : d \in done} : runs[r].kind \in Recorded /\ runs[r].session = s}
        /\ \A j, k \in DOMAIN history[s] : j < k =>
              history[s][j] # history[s][k] /\ history[s][j] \notin runs[history[s][k]].within

\* The steps that led to the state of the model: they are in every set that holds the
\* last one, and with each step the one whose state it saw.
Lineage ==
    {r \in DOMAIN runs : \A S \in SUBSET (0 .. Len(runs)) :
        modelState \in S /\ (\A q \in S \ {0} : runs[q].saw \in S) => r \in S}

\* The state that a step of a model, or its initialization, made is lost only if it ran
\* inside another step of the model: the outer result replaces what it never saw.
StepsKept ==
    \A d \in done : d.kept =>
        \/ d.run \in Lineage
        \/ \E r \in runs[d.run].within : runs[r].kind = "model"

=============================================================================
