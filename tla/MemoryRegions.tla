---------------------------- MODULE MemoryRegions ----------------------------
(***************************************************************************)
(* memory/: regions with a capacity, the pools that keep handles for what  *)
(* is allocated in them, and the manager that finds both by name.  Regions *)
(* are objects that create_region returns: users call them directly too,   *)
(* past the pool.  Values are mutable and their size is the length of      *)
(* their text, taken anew when they are freed.                             *)
(***************************************************************************)
EXTENDS Integers, FiniteSets, Folds

CONSTANTS
    Names,    \* names of regions
    Regions,  \* MemRegion objects, each with its MemPool
    Unnamed,  \* what a name without a region stands for
    Keys,
    Sizes,    \* lengths of values
    Capacity, \* the capacity of a region
    MaxDrift  \* bound: length of replaced values, growth of stored ones

ConstantsOK ==
    /\ Unnamed \notin Regions
    /\ IsFiniteSet(Keys) /\ Sizes \subseteq Nat /\ Capacity \in Nat /\ MaxDrift \in Nat

VARIABLES
    created,     \* the regions that exist
    region,      \* MemoryManager.regions and pools: the object of each name
    stored,      \* storage of each region: the keys
    size,        \* of each region and key: the length of the value, 0 if none is stored
    used,        \* MemRegion.used
    handles,     \* MemPool.handles: the size in the handle of each key
    direct,      \* history: regions called past their pool
    overwritten, \* history: length of values replaced in a region and never freed
    grown        \* history: how much stored values have grown in a region

vars == <<created, region, stored, size, used, handles, direct, overwritten, grown>>

NoHandle == -1

Init ==
    /\ created = {} /\ region = [n \in Names |-> Unnamed]
    /\ stored = [r \in Regions |-> {}] /\ size = [r \in Regions |-> [k \in Keys |-> 0]]
    /\ used = [r \in Regions |-> 0]
    /\ handles = [r \in Regions |-> [k \in Keys |-> NoHandle]]
    /\ direct = {} /\ overwritten = [r \in Regions |-> 0] /\ grown = [r \in Regions |-> 0]

\* A name that is taken gets a new region; the old one lives on with who holds it.
CreateRegion(n, r) ==
    /\ r \notin created
    /\ created' = created \cup {r}
    /\ region' = [region EXCEPT ![n] = r]
    /\ UNCHANGED <<stored, size, used, handles, direct, overwritten, grown>>

-----------------------------------------------------------------------------
(* MemRegion *)

\* Slip: a value that replaces one is not checked.
Fits_Replacing(r, k, s) == k \in stored[r] \/ used[r] + s <= Capacity
Fits(r, k, s) == used[r] + s <= Capacity

\* The size of a value that is replaced is not given back.
RegionAllocate(r, k, s) ==
    /\ overwritten[r] + size[r][k] <= MaxDrift
    /\ stored' = [stored EXCEPT ![r] = @ \cup {k}]
    /\ size' = [size EXCEPT ![r][k] = s]
    /\ used' = [used EXCEPT ![r] = @ + s]
    /\ overwritten' = [overwritten EXCEPT ![r] = @ + size[r][k]]
    /\ UNCHANGED grown

\* The size the value has by now.
Freed(r, k) == size[r][k]

RegionFree(r, k) ==
    /\ stored' = [stored EXCEPT ![r] = @ \ {k}]
    /\ size' = [size EXCEPT ![r][k] = 0]
    /\ used' = [used EXCEPT ![r] = @ - Freed(r, k)]
    /\ UNCHANGED <<overwritten, grown>>

\* Calls past the pool leave its handles alone.
AllocateDirect(r, k, s) ==
    /\ r \in created /\ Fits(r, k, s)
    /\ RegionAllocate(r, k, s)
    /\ direct' = direct \cup {r}
    /\ UNCHANGED <<created, region, handles>>

FreeDirect(r, k) ==
    /\ k \in stored[r]
    /\ RegionFree(r, k)
    /\ direct' = direct \cup {r}
    /\ UNCHANGED <<created, region, handles>>

-----------------------------------------------------------------------------
(* MemPool *)

PoolAllocate(r, k, s) ==
    /\ Fits(r, k, s)
    /\ RegionAllocate(r, k, s)
    /\ handles' = [handles EXCEPT ![r][k] = s]

\* Slip: the handle is kept.
Released_Kept(r, k) == handles
Released(r, k) == [handles EXCEPT ![r][k] = NoHandle]

\* The region has freed the key before a missing handle raises.
PoolFree(r, k) ==
    /\ k \in stored[r]
    /\ RegionFree(r, k)
    /\ handles' = Released(r, k)

-----------------------------------------------------------------------------
(* MemoryManager: the pool is found by the name of the region *)

Allocate(n, k, s) ==
    /\ region[n] # Unnamed /\ PoolAllocate(region[n], k, s)
    /\ UNCHANGED <<created, region, direct>>

Free(n, k) ==
    /\ region[n] # Unnamed /\ PoolFree(region[n], k)
    /\ UNCHANGED <<created, region, direct>>

-----------------------------------------------------------------------------

\* The owner of a value changes it in place.
Mutate(r, k, s) ==
    /\ k \in stored[r] /\ grown[r] + s - size[r][k] \in -MaxDrift .. MaxDrift
    /\ size' = [size EXCEPT ![r][k] = s]
    /\ grown' = [grown EXCEPT ![r] = @ + s - size[r][k]]
    /\ UNCHANGED <<created, region, stored, used, handles, direct, overwritten>>

Next ==
    \E r \in Regions, n \in Names, k \in Keys :
        \/ CreateRegion(n, r)
        \/ FreeDirect(r, k) \/ Free(n, k)
        \/ \E s \in Sizes : AllocateDirect(r, k, s) \/ Allocate(n, k, s) \/ Mutate(r, k, s)

Spec == Init /\ [][Next]_vars

-----------------------------------------------------------------------------

TypeOK ==
    /\ created \subseteq Regions /\ region \in [Names -> Regions \cup {Unnamed}]
    /\ stored \in [Regions -> SUBSET Keys]
    /\ size \in [Regions -> [Keys -> Nat]]
    /\ used \in [Regions -> Int]
    /\ handles \in [Regions -> [Keys -> Nat \cup {NoHandle}]]
    /\ direct \subseteq Regions
    /\ overwritten \in [Regions -> Nat] /\ grown \in [Regions -> Int]

\* As long as a region is reached through its pool alone, the pool has handles for
\* exactly the keys that are stored, also over replaced values, refused allocations
\* and regions of the same name.
HandlesMatch ==
    \A r \in Regions \ direct : \A k \in Keys : handles[r][k] # NoHandle <=> k \in stored[r]

Total(r) == MapThenFoldSet(+, 0, LAMBDA k : size[r][k], LAMBDA S : CHOOSE k \in S : TRUE, Keys)

\* What a region counts as used is the length of its values, with the replaced ones,
\* which are never given back, and without what the values have grown since they
\* were stored, which was never counted but is given back.
UsedExplained == \A r \in Regions : used[r] = Total(r) + overwritten[r] - grown[r]

\* A region never counts more than its capacity as used.
WithinCapacity == \A r \in Regions : used[r] <= Capacity

=============================================================================
