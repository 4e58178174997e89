--------------------------- MODULE MCGlobalState ---------------------------
(***************************************************************************)
(* The two stores of global state, the lattice and the tree, which share   *)
(* nothing.  In the tree, watchers neither see nor cause conflicts,        *)
(* snapshots and access rules: they are explored with updates alone, the   *)
(* rest without watchers, the access rules without conflicts.  In the      *)
(* lattice, levels and their commits, parents, and clocks do not depend on *)
(* each other: each is explored with the others at rest.                   *)
(***************************************************************************)
EXTENDS WorldKernelLattice, TLC

CONSTANTS Values, None, Watchers, MaxUpdates, MaxConflicts, MaxSnapshots, MaxDepth  \* WorldKernelState

VARIABLES under, tree, log, now, conflicts, snapshots, allowed, watching, notifying, told, rewritten, nested

Nested == {<<"a">>, <<"a", "b">>}
Others == Domains \ {World}

Tree == INSTANCE WorldKernelState WITH Paths <- Nested, Domains <- Others

ASSUME ConstantsAssumption == ConstantsOK /\ Tree!ConstantsOK

treeVars == <<tree, log, now, conflicts, snapshots, allowed, watching, notifying, told, rewritten, nested>>

MCInit ==
    /\ Init /\ Tree!Init
    /\ under \in {"watchers", "conflicts", "rules", "levels", "parents", "clocks"}

TreeNext ==
    \/ under = "watchers" /\ (Tree!Update \/ Tree!Read \/ Tree!Watch) /\ now' = now
    \/ under = "conflicts" /\ (Tree!Update \/ Tree!Resolve \/ Tree!Restore)
    \/ under = "rules" /\ (Tree!Update \/ Tree!Read \/ Tree!Administer) /\ now' = now

NoParents == {<<>>}

LatticeNext ==
    \/ under = "levels" /\ (Create \/ Commit \/ Submission(NoParents))
    \/ under = "parents" /\ Submission(ParentLists)
                         /\ \A d \in Others : clock'[d] = clock[d]
    \/ under = "clocks" /\ (Submission(NoParents) \/ Synchronize)

MCNext ==
    /\ UNCHANGED under
    /\ \/ TreeNext /\ UNCHANGED vars
       \/ LatticeNext /\ UNCHANGED treeVars

Symmetry == Permutations(Ids)

MCSpec == MCInit /\ [][MCNext]_<<under, vars, treeVars>>

-----------------------------------------------------------------------------

\* The types of both, what the audit log and the versions explain, and what levels hold.
GlobalInv == LatticeInv /\ Tree!StateInv /\ Tree!VersionsCount

\* See WorldKernelState.
WatchersCurrent == Tree!WatchersCurrent
=============================================================================
