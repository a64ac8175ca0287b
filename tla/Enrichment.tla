------------------------------ MODULE Enrichment ------------------------------
(***************************************************************************)
(* Kubernetes workload labels (k8s.Enricher): two lookup maps, rebuilt by  *)
(* an initial refresh at start-up and then periodically, and read by the   *)
(* collection cycles.  A refresh lists the PersistentVolumes and the Nodes *)
(* concurrently, and swaps both maps or, when a List failed, neither.      *)
(*                                                                         *)
(* Kubernetes moves through a sequence of states (Kube), and its API may   *)
(* fail MaxFailures times; a List takes what is there when it is answered. *)
(***************************************************************************)
EXTENDS Integers, Sequences, FiniteSets, TLC

CONSTANTS
    Kube,           \* the states of Kubernetes: [pvs, nodes], both sequences
    CSIDriver,      \* kubernetes.csiDriverName
    MaxFailures     \* bound on failures of the API server

ASSUME EnrichmentAssumption == Len(Kube) \in Nat \ {0} /\ MaxFailures \in Nat

VARIABLES
    enabled,    \* Enricher.enabled, constant for the lifetime of the process
    k8s,        \* index of the present state of Kubernetes
    failures,   \* failures of its API so far
    volumes,    \* Enricher.volumes: volume id -> workload context
    nodes,      \* Enricher.nodes: address -> node name
    refresh,    \* where Refresh is, and what its two Lists returned
    ready       \* initEnrichment has returned

enrichmentVars == <<enabled, k8s, failures, volumes, nodes, refresh, ready>>

-----------------------------------------------------------------------------
(* Lookup maps.                                                             *)

NoMap == [x \in {} |-> x]
Lookup(map, key, default) == IF key \in DOMAIN map THEN map[key] ELSE default

\* volumeIDFromHandle: what follows the first hyphen, or all of the handle when
\* nothing does.  A handle is given as its text and that part.
VolumeIDFromHandle(handle) == IF handle.rest # "" THEN handle.rest ELSE handle.text

Matches(pv) == pv.driver = CSIDriver /\ VolumeIDFromHandle(pv.handle) # ""

Meta(pv) == [namespace |-> pv.namespace, pvc |-> pv.pvc, pv |-> pv.name, class |-> pv.class]
NoMeta == [namespace |-> "", pvc |-> "", pv |-> "", class |-> ""]

\* Of two PersistentVolumes with one volume id the later wins.
VolumesFromPVs(pvs) ==
    LET mine(id) == {i \in DOMAIN pvs : Matches(pvs[i]) /\ VolumeIDFromHandle(pvs[i].handle) = id}
        last(id) == CHOOSE i \in mine(id) : \A j \in mine(id) : j <= i
    IN [id \in {VolumeIDFromHandle(pvs[i].handle) : i \in {j \in DOMAIN pvs : Matches(pvs[j])}} |->
            Meta(pvs[last(id)])]

\* The internal and external addresses of the nodes; the later node wins.
NodesByIP(items) ==
    LET addresses(n) == {a.address : a \in {x \in n.addresses : x.type \in {"InternalIP", "ExternalIP"}}}
        with(ip) == {i \in DOMAIN items : ip \in addresses(items[i])}
        last(ip) == CHOOSE i \in with(ip) : \A j \in with(ip) : j <= i
    IN [ip \in UNION {addresses(items[i]) : i \in DOMAIN items} |-> items[last(ip)].name]

VolumeEnrichmentLabels(m) ==
    << <<"namespace", m.namespace>>, <<"persistent_volume_claim", m.pvc>>,
       <<"persistent_volume", m.pv>>, <<"storage_class", m.class>> >>
SDCEnrichmentLabels(node) == << <<"k8s_node", node>> >>

\* One read under the lock each.
EnricherVolumeLabels(id) == VolumeEnrichmentLabels(Lookup(volumes, id, NoMeta))
EnricherSDCLabels(ip) == SDCEnrichmentLabels(Lookup(nodes, ip, ""))

-----------------------------------------------------------------------------
Pending == [st |-> "pending", map |-> NoMap]
Failed == [st |-> "failed", map |-> NoMap]
Listed(map) == [st |-> "ok", map |-> map]
Lists == {"volumes", "nodes"}

EnrichmentTypeOK ==
    /\ enabled \in BOOLEAN /\ ready \in BOOLEAN
    /\ k8s \in DOMAIN Kube /\ failures \in 0 .. MaxFailures
    /\ refresh.pc \in {"idle", "listing", "stopped"}
    /\ \A l \in Lists : refresh[l].st \in {"pending", "ok", "failed"}

Idle == [pc |-> "idle", volumes |-> Pending, nodes |-> Pending]

\* NewEnricher, with a usable cluster configuration or without.
EnrichmentInit ==
    /\ enabled \in BOOLEAN
    /\ k8s = 1 /\ failures = 0
    /\ volumes = NoMap /\ nodes = NoMap
    /\ refresh = Idle
    /\ ready = ~enabled

\* Refresh starts its two Lists: the initial one, or at a tick of Run.
RefreshBegin ==
    /\ enabled /\ refresh.pc = "idle"
    /\ refresh' = [refresh EXCEPT !.pc = "listing"]
    /\ UNCHANGED <<enabled, k8s, failures, volumes, nodes, ready>>

ListVolumes ==
    /\ refresh.pc = "listing" /\ refresh.volumes = Pending
    /\ refresh' = [refresh EXCEPT !.volumes = Listed(VolumesFromPVs(Kube[k8s].pvs))]
    /\ UNCHANGED <<enabled, k8s, failures, volumes, nodes, ready>>

ListNodes ==
    /\ refresh.pc = "listing" /\ refresh.nodes = Pending
    /\ refresh' = [refresh EXCEPT !.nodes = Listed(NodesByIP(Kube[k8s].nodes))]
    /\ UNCHANGED <<enabled, k8s, failures, volumes, nodes, ready>>

\* A List fails: at the API server, or since the other one's failure cancelled
\* the group's context.
ListFails(l) ==
    /\ refresh.pc = "listing" /\ refresh[l] = Pending
    /\ \/ failures < MaxFailures /\ failures' = failures + 1
       \/ (\E m \in Lists \ {l} : refresh[m] = Failed) /\ UNCHANGED failures
    /\ refresh' = [refresh EXCEPT ![l] = Failed]
    /\ UNCHANGED <<enabled, k8s, volumes, nodes, ready>>

Answered == refresh.pc = "listing" /\ \A l \in Lists : refresh[l] # Pending
BothListed == \A l \in Lists : refresh[l].st = "ok"

\* Mutations: each List swaps its own map; a failed refresh ends the loop.
MutRefreshEndSwapsEach ==
    /\ Answered
    /\ volumes' = refresh.volumes.map /\ nodes' = refresh.nodes.map
    /\ refresh' = Idle /\ ready' = TRUE
    /\ UNCHANGED <<enabled, k8s, failures>>
MutRefreshEndStops ==
    /\ Answered
    /\ volumes' = IF BothListed THEN refresh.volumes.map ELSE volumes
    /\ nodes' = IF BothListed THEN refresh.nodes.map ELSE nodes
    /\ refresh' = [Idle EXCEPT !.pc = IF BothListed THEN "idle" ELSE "stopped"]
    /\ ready' = TRUE
    /\ UNCHANGED <<enabled, k8s, failures>>

\* The group has returned: both maps are swapped, or, after an error, none is.
RefreshEnd ==
    /\ Answered
    /\ volumes' = IF BothListed THEN refresh.volumes.map ELSE volumes
    /\ nodes' = IF BothListed THEN refresh.nodes.map ELSE nodes
    /\ refresh' = Idle /\ ready' = TRUE
    /\ UNCHANGED <<enabled, k8s, failures>>

\* Kubernetes: a claim is bound, a node joins.
Edit ==
    /\ k8s < Len(Kube)
    /\ k8s' = k8s + 1
    /\ UNCHANGED <<enabled, failures, volumes, nodes, refresh, ready>>

RefreshStep == RefreshBegin \/ ListVolumes \/ ListNodes \/ RefreshEnd \/ \E l \in Lists : ListFails(l)
EnrichmentNext == RefreshStep \/ (enabled /\ Edit)

===============================================================================
