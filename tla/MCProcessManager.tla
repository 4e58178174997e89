-------------------------- MODULE MCProcessManager --------------------------
(* Small instances of ProcessManager for TLC. *)
EXTENDS ProcessManager, TLC

\* Invocations and process objects are interchangeable.
Symmetry == Permutations(Calls) \cup Permutations(Procs)

=============================================================================
