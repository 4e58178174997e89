------------------------ MODULE MCReactiveGovernance ------------------------
(* Small instances of ReactiveGovernance for TLC. *)
EXTENDS ReactiveGovernance, TLC

\* One factory, for processes governance may always stop.
NonCriticalOnly == [n \in Names |-> "non-critical"]

Symmetry == Permutations(Calls) \cup Permutations(Procs)

\* The bus history is only written: no guard and no property of the runs that use
\* this view reads it.
WithoutTrail == <<factories, processes, start, origin, call, discarded, resets, sweep>>

=============================================================================
