------------------------------ MODULE MCAwaits ------------------------------
(***************************************************************************)
(* The event bus, the governance configuration and the substrate layer     *)
(* await requests that others overtake.  They share no state: a behaviour  *)
(* picks one of them and the others stay in their initial states.          *)
(* The approval of tools is set like the list of workspaces: it stays as   *)
(* it is.  Calls of the layer that overlap have one key: what a call on    *)
(* another would evict meanwhile may expire as well.                       *)
(***************************************************************************)
EXTENDS EventBus, TLC

CONSTANTS
    Calls,                                       \* of the configuration and of the layer
    Isolates, Absent,                            \* GovernanceConfig
    Layers, LayerKeys, LayerValues, Nil, CacheMaxSize  \* SubstrateLayer

VARIABLES
    under,
    configKV, mem, configCall, stored, undisturbed,
    kv, dobj, cache, call, last

\* The modifier of transactions: a counter of updates that starts at 1 and wraps.
Count(v) == IF v = 1 THEN 2 ELSE 1

Config == INSTANCE GovernanceConfig WITH kv <- configKV, call <- configCall, settled <- undisturbed
Layer == INSTANCE SubstrateLayer WITH Keys <- LayerKeys, Values <- LayerValues, Modify <- Count

ASSUME ConstantsAssumption == Config!ConstantsOK /\ Layer!ConstantsOK

configVars == <<configKV, mem, configCall, stored, undisturbed>>
layerVars == <<kv, dobj, cache, call, last>>

MCInit ==
    /\ under \in {"bus", "configuration", "layer"}
    /\ Init /\ Config!Init /\ Layer!Init

OtherKnobs == \A c \in Calls : configCall'[c].pc = "putting" => configCall'[c].key # "tool"
OneKey == \A c, d \in Calls : call'[c].pc # "idle" /\ call'[d].pc # "idle" => call'[c].k = call'[d].k

MCNext ==
    /\ UNCHANGED under
    /\ \/ under = "bus" /\ Next /\ UNCHANGED <<configVars, layerVars>>
       \/ under = "configuration" /\ Config!Next /\ OtherKnobs /\ UNCHANGED <<vars, layerVars>>
       \/ under = "layer" /\ Layer!Next /\ OneKey /\ UNCHANGED <<vars, configVars>>

MCSpec == MCInit /\ [][MCNext]_<<under, vars, configVars, layerVars>>

\* Calls are interchangeable, and so are isolates, keys and layers.
Symmetry == Permutations(Calls) \cup Permutations(Isolates) \cup Permutations(LayerKeys)

-----------------------------------------------------------------------------

\* What each part may rely on between two awaits: handlers that are done, heard and
\* gone; knobs that KV has held; a bounded cache, and a cause for a lost update.
AwaitsInv ==
    /\ TypeOK /\ EmitterWaits /\ AllHear /\ OnceGone
    /\ Config!TypeOK /\ Config!EnforcedWasStored
    /\ Layer!TypeOK /\ Layer!CacheBounded /\ Layer!LostUpdateNeedsCause

\* See GovernanceConfig.
UndisturbedAgree == Config!UndisturbedAgree
\* See SubstrateLayer.
ReadsLast == Layer!ReadsLast
=============================================================================
