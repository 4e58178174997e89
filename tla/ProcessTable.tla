---------------------------- MODULE ProcessTable ----------------------------
(***************************************************************************)
(* process/: the table of processes and their life cycle.  The executor of *)
(* a process runs inside Process.run; it may call the manager, also for    *)
(* its own process, and may raise.                                         *)
(***************************************************************************)
EXTENDS Naturals, Sequences

CONSTANTS
    MaxPids,   \* bound: processes spawned
    MaxDepth   \* bound: runs under way

VARIABLES
    state,   \* state of each process of the table
    runs,    \* pids of the runs under way, the innermost last
    halted,  \* history: pids stopped or killed while no run of theirs was under way
    broken   \* history: pids with a run that raised

tableVars == <<state, runs, halted, broken>>

\* WAITING is never set.
ProcessState == {"new", "ready", "running", "waiting", "stopped", "dead"}

TableInit == state = <<>> /\ runs = <<>> /\ halted = {} /\ broken = {}

\* A new process is made ready at once; its pid is the next one.
Spawn ==
    /\ Len(state) < MaxPids
    /\ state' = Append(state, "ready")
    /\ UNCHANGED <<runs, halted, broken>>

\* Slip: only the dead are refused.
Runnable_Stopped(p) == state[p] # "dead"
Runnable(p) == state[p] \notin {"dead", "stopped"}

\* A process that is running may be run again from inside.
Run(p) ==
    /\ Len(runs) < MaxDepth
    /\ Runnable(p)
    /\ state' = [state EXCEPT ![p] = "running"]
    /\ runs' = Append(runs, p)
    /\ UNCHANGED <<halted, broken>>

Innermost == runs[Len(runs)]
Unwound == SubSeq(runs, 1, Len(runs) - 1)

\* The process is made ready whatever happened to it while its executor ran.
Returns ==
    /\ runs # <<>>
    /\ state' = [state EXCEPT ![Innermost] = "ready"]
    /\ runs' = Unwound
    /\ UNCHANGED <<halted, broken>>

\* An exception leaves the state as it is.
Raises ==
    /\ runs # <<>>
    /\ runs' = Unwound
    /\ broken' = broken \cup {Innermost}
    /\ UNCHANGED <<state, halted>>

IsRunning(p) == \E k \in DOMAIN runs : runs[k] = p

Halt(p, to) ==
    /\ state' = [state EXCEPT ![p] = to]
    /\ halted' = IF IsRunning(p) THEN halted ELSE halted \cup {p}
    /\ UNCHANGED <<runs, broken>>

Stop(p) == Halt(p, "stopped")
Kill(p) == Halt(p, "dead")

TableNext ==
    \/ Spawn \/ Returns \/ Raises
    \/ \E p \in DOMAIN state : Run(p) \/ Stop(p) \/ Kill(p)

TableSpec == TableInit /\ [][TableNext]_tableVars

-----------------------------------------------------------------------------

TableTypeOK ==
    /\ state \in Seq(ProcessState)
    /\ runs \in Seq(DOMAIN state)
    /\ halted \subseteq DOMAIN state /\ broken \subseteq DOMAIN state

\* A process that is stopped or killed between its runs never runs again: no run of it
\* is under way and its state stays stopped or dead.  (One that is killed by its own
\* executor is made ready again.)
HaltedStaysHalted ==
    \A p \in halted : state[p] \in {"stopped", "dead"} /\ ~ IsRunning(p)

\* A process whose state is running is running, unless its executor raised once; one
\* whose run is under way is never merely ready unless an inner run of it ended.
RunningIsRunning ==
    \A p \in DOMAIN state : state[p] = "running" => IsRunning(p) \/ p \in broken

ProcessInv == TableTypeOK /\ HaltedStaysHalted /\ RunningIsRunning

=============================================================================
