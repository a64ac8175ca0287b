-------------------------------- MODULE Series --------------------------------
(***************************************************************************)
(* From what a gateway returns to samples: the operators that read the     *)
(* instance list and the statistics of one cluster and derive every series *)
(* of its snapshot, for both generations.  No state: module Exposition has *)
(* the cycles that apply them.                                             *)
(*                                                                         *)
(* An instance list is a function from object types to sequences of        *)
(* objects (System's has at most one).  Statistics are a function from the *)
(* answered types to functions from object ids to sets of statistics.  A   *)
(* metric name is a pair of a type, which stands for its prefix (the       *)
(* prefixes of metricPrefix differ, and none begins with another one and   *)
(* an underscore), and a field.  Labels are sequences of key-value pairs;  *)
(* a value is a fraction.                                                  *)
(***************************************************************************)
EXTENDS Integers, Sequences, FiniteSets, Functions, FiniteSetsExt, TLC

-----------------------------------------------------------------------------
(* Instances and relations.  An object has its own fields, its links as       *)
(* [rel, type, id], its states by label name, and its path without /dev/.    *)

Objects(in, type) == IF type \in DOMAIN in THEN in[type] ELSE <<>>

DisplayName(o) == IF o.name # "" THEN o.name ELSE o.id

SystemId(in) == IF Objects(in, "System") = <<>> THEN "" ELSE in["System"][1].id

NoObject == [id |-> ""]

\* Relations are keyed by id alone: the links of every object with this id count.
\* A link that is no parent link, or names no type or id, is dropped.
ParentIDs(in, id, parentType) ==
    LET links == UNION {UNION {o.links : o \in {x \in Range(in[t]) : x.id = id}} : t \in DOMAIN in}
    IN {l.id : l \in {k \in links : k.rel = "parent" /\ k.type = parentType}} \ {""}

\* The first of the candidates, in list order, that is a parent.
FirstParent(in, o, parentType) ==
    LET candidates == Objects(in, parentType)
        hits == {i \in DOMAIN candidates : candidates[i].id \in ParentIDs(in, o.id, parentType)}
    IN IF o = NoObject \/ hits = {} THEN NoObject ELSE candidates[Min(hits)]

\* One pool with erasure coding makes a cluster Gen2, whatever the others are.
DetectGeneration(in) ==
    LET layouts == {p.layout : p \in Range(Objects(in, "StoragePool"))}
    IN IF "ErasureCoding" \in layouts THEN "gen2"
       ELSE IF layouts \cap {"FineGranularity", "MediumGranularity"} # {} THEN "gen1"
       ELSE "unknown"

-----------------------------------------------------------------------------
(* Labels.  A builder returns <<>> for an object whose parents are missing.  *)

BaseLabels(cluster, in) == << <<"cluster", cluster>>, <<"cluster_id", SystemId(in)>> >>

\* "Inapplicable values are passed empty": NoObject has no name.
IdName(idKey, nameKey, o) ==
    << <<idKey, o.id>>, <<nameKey, IF o = NoObject THEN "" ELSE DisplayName(o)>> >>
NameId(nameKey, idKey, o) ==
    << <<nameKey, IF o = NoObject THEN "" ELSE DisplayName(o)>>, <<idKey, o.id>> >>

PoolLabels(o) == IdName("storage_pool_id", "storage_pool_name", o)
DomainLabels(o) == IdName("protection_domain_id", "protection_domain_name", o)

Domain(in, o) == FirstParent(in, o, "ProtectionDomain")
WithDomain(labels, pd) == IF pd = NoObject THEN <<>> ELSE labels \o DomainLabels(pd)

SdsLabels(in, o) == WithDomain(NameId("sds", "sds_id", o), Domain(in, o))
StorageNodeLabels(in, o) ==
    WithDomain(NameId("storage_node_name", "storage_node_id", o), Domain(in, o))
StoragePoolLabels(in, o) == WithDomain(PoolLabels(o), Domain(in, o))
SdtLabels(in, o) == WithDomain(NameId("sdt_name", "sdt_id", o), Domain(in, o))
DeviceGroupLabels(in, o) ==
    WithDomain(NameId("device_group_name", "device_group_id", o)
                 \o << <<"media_type", IF o.media = "" THEN "unknown" ELSE o.media>> >>, Domain(in, o))
ProtectionDomainLabels(o) == DomainLabels(o)
SdcLabels(o) ==
    << <<"sdc_name", IF o.name # "" THEN o.name ELSE IF o.ip # "" THEN o.ip ELSE o.id>>,
       <<"sdc_id", o.id>> >>

\* The union of the keys of both generations, in one order.
DeviceLabels(sds, node, o, pool, pd) ==
    WithDomain(NameId("sds", "sds_id", sds) \o NameId("storage_node_name", "storage_node_id", node)
                 \o NameId("device_name", "device_id", o) \o << <<"device_path", o.path>> >>
                 \o PoolLabels(pool), pd)

DeviceLabelsGen1(in, o) ==
    LET sds == FirstParent(in, o, "Sds")
        pool == FirstParent(in, o, "StoragePool")
    IN IF sds = NoObject THEN <<>> ELSE DeviceLabels(sds, NoObject, o, pool, Domain(in, pool))

DeviceLabelsGen2(in, o) ==
    LET node == FirstParent(in, o, "StorageNode")
    IN DeviceLabels(NoObject, node, o, NoObject, Domain(in, node))

\* Mutation: a Gen1 volume without the key that only Gen2 has a value for.
MutVolumeLabels(in, o, type) ==
    LET pool == FirstParent(in, o, "StoragePool")
    IN WithDomain(NameId("volume_name", "volume_id", o)
                    \o (IF type = "" THEN <<>> ELSE << <<"volume_type", type>> >>)
                    \o PoolLabels(pool), Domain(in, pool))

VolumeLabels(in, o, type) ==
    LET pool == FirstParent(in, o, "StoragePool")
    IN WithDomain(NameId("volume_name", "volume_id", o) \o << <<"volume_type", type>> >>
                    \o PoolLabels(pool), Domain(in, pool))

Gen2VolumeType(raw) ==
    CASE raw = "ThinProvisioned" -> "BaseVolume"
      [] raw = "Snapshot" -> "ThinClone"
      [] raw = "" -> "unknown"
      [] OTHER -> raw

\* labelBuildersGen1 and labelBuildersGen2.
BuilderTypes ==
    [gen1 |-> {"Sds", "Device", "Volume", "StoragePool", "Sdc", "ProtectionDomain"},
     gen2 |-> {"StorageNode", "Device", "Volume", "StoragePool", "Sdc", "DeviceGroup",
               "ProtectionDomain", "Sdt"}]

OwnLabels(gen, in, type, o) ==
    CASE type = "Sds" -> SdsLabels(in, o)
      [] type = "StorageNode" -> StorageNodeLabels(in, o)
      [] type = "Device" -> IF gen = "gen1" THEN DeviceLabelsGen1(in, o) ELSE DeviceLabelsGen2(in, o)
      [] type = "Volume" -> VolumeLabels(in, o, IF gen = "gen1" THEN "" ELSE Gen2VolumeType(o.vtype))
      [] type = "StoragePool" -> StoragePoolLabels(in, o)
      [] type = "Sdc" -> SdcLabels(o)
      [] type = "DeviceGroup" -> DeviceGroupLabels(in, o)
      [] type = "ProtectionDomain" -> ProtectionDomainLabels(o)
      [] type = "Sdt" -> SdtLabels(in, o)

Resolved(gen, in, type, o) == OwnLabels(gen, in, type, o) # <<>>
ObjectLabels(gen, cluster, in, type, o) == BaseLabels(cluster, in) \o OwnLabels(gen, in, type, o)

-----------------------------------------------------------------------------
(* Gen1 statistics.  A name is its operation, "Read", "Write" or neither,    *)
(* and "Bwc", "Latency" or neither; toSnake spells a scalar's operation.     *)

Sample(type, field, labels, value) == [name |-> <<type, field>>, labels |-> labels, value |-> value]

Derived(type, field, labels, op, direction, value) ==
    Sample(type, field, labels \o << <<"op", op>>, <<"direction", direction>> >>, value)

\* Truncated toward zero; 0 without seconds.
Persec(n, seconds) ==
    IF seconds <= 0 THEN <<0, 1>>
    ELSE <<IF n >= 0 THEN n \div seconds ELSE -((-n) \div seconds), 1>>

Ratio(n, d) == IF n <= 0 \/ d <= 0 THEN <<0, 1>> ELSE <<n, d>>

\* The API's spelling is numOccured; a firmware may use the correct one.
Occurrences(b) == IF b.numOccured # 0 THEN b.numOccured ELSE b.numOccurred

Direction(s) == CASE s.dir = "Read" -> "read" [] s.dir = "Write" -> "write" [] OTHER -> ""

\* A value that does not decode is skipped.
DeriveSamples(type, labels, stats) ==
    UNION {LET b == s.raw
               D(field, v) == Derived(type, field, labels, s.op, Direction(s), v)
           IN CASE s.suffix = "Bwc" -> {D("iops", Persec(Occurrences(b), b.seconds)),
                                        D("bandwidth_kb_per_second", Persec(b.weight, b.seconds)),
                                        D("io_size_kb", Ratio(b.weight, Occurrences(b)))}
                [] s.suffix = "Latency" -> {D("latency", Ratio(b.weight, Occurrences(b)))}
                [] OTHER -> {Sample(type, s.op, labels, <<b.number, 1>>)} :
           s \in {x \in stats : x.raw.decodes}}

\* Statistics.Merge over the responses of a call, which has one per type: by type,
\* then by object.  Of two responses with the same object the one merged last would
\* win, which is any of them, since they arrive in any order.
Merge(responses) ==
    LET Having(t, id) == {r \in responses : t \in DOMAIN r /\ id \in DOMAIN r[t]}
        Ids(t) == UNION {DOMAIN r[t] : r \in {x \in responses : t \in DOMAIN x}}
    IN [t \in UNION {DOMAIN r : r \in responses} |->
            [id \in Ids(t) |-> (CHOOSE r \in Having(t, id) : TRUE)[t][id]]]

-----------------------------------------------------------------------------
(* Gen2 statistics.  A metric is <<kind, op, direction>>: within a type, no  *)
(* two names of v5Metrics have the same triple, so it stands for the name.   *)

RW == {"read", "write"}
RWT == RW \cup {"trim"}
IO == {"iops", "bw"}
Family(kinds, ops, directions) == kinds \X ops \X directions
Scalars(names) == {<<"scalar", n, "">> : n \in names}

Host == {"host"}
Device == {"device"}
HostAndFrontEnd == {"host", "storage_fe"}
DevicePaths == {"device", "device_local", "device_remote"}
ControllerLatency == Family({"latency"}, {"controller_to_host", "host_to_controller"}, {""})

PhysicalGauges == Scalars({"physical_total", "physical_used", "physical_free", "physical_system"})
LogicalGauges == Scalars({"logical_used", "logical_provisioned", "logical_owned", "unreducible_data"})
RatioGauges ==
    Scalars({"compression_ratio", "data_reduction_ratio", "efficiency_ratio",
             "thin_provisioning_ratio", "patterns_saving_ratio", "snapshot_saving_ratio",
             "reducible_ratio"})
RawGauges == Scalars({"raw_total", "raw_used", "raw_free", "raw_system"})
SpareGauges == Scalars({"raw_spare", "raw_spare_used"})

V5System ==
    Family(IO, HostAndFrontEnd, RWT) \cup Family(IO, DevicePaths, RW)
        \cup Family({"iosize"}, Host, RWT) \cup Family({"iosize", "latency"}, Device, RW)
        \cup Family({"latency"}, HostAndFrontEnd, RWT) \cup ControllerLatency
        \cup RawGauges \cup PhysicalGauges \cup LogicalGauges \cup RatioGauges
V5StorageNode ==
    Family(IO, DevicePaths, RW) \cup Family(IO \cup {"latency"}, {"storage_fe"}, RWT)
        \cup Family({"iosize"}, Host, RWT) \cup Family({"iosize", "latency"}, Device, RW)
        \cup Scalars({"raw_total"})
V5Sdc == Family(IO \cup {"latency"}, Host, RWT) \cup ControllerLatency
V5Volume ==
    Family(IO \cup {"latency"}, Host, RWT) \cup Scalars({"logical_used", "logical_provisioned"})
V5StoragePool ==
    Family(IO \cup {"latency"}, HostAndFrontEnd, RWT) \cup Family({"iosize"}, Host, RWT)
        \cup Scalars({"raw_used", "over_provisioning_limit", "utilization_ratio"})
        \cup PhysicalGauges \cup LogicalGauges \cup RatioGauges
V5Device ==
    Family(IO, DevicePaths, RW) \cup Family({"iosize", "latency"}, Device, RW)
        \cup Scalars({"raw_total"})
V5ProtectionDomain ==
    Family(IO \cup {"latency"}, HostAndFrontEnd, RWT)
        \cup Family(IO \cup {"iosize", "latency"}, Device, RW)
        \cup Family({"bw"}, {"rebalance", "rebuild"}, {""}) \cup Family({"iosize"}, Host, RWT)
        \cup RawGauges \cup SpareGauges \cup PhysicalGauges \cup LogicalGauges \cup RatioGauges
V5DeviceGroup ==
    Family(IO \cup {"latency"}, HostAndFrontEnd, RWT)
        \cup Family(IO, DevicePaths \cup {"device_pmem", "wrc"}, RW)
        \cup Family({"bw"}, {"rebalance", "rebuild"}, {""}) \cup Family({"iosize"}, Host, RWT)
        \cup Family({"iosize", "latency"}, {"device", "device_pmem", "wrc"}, RW)
        \cup RawGauges \cup SpareGauges \cup PhysicalGauges
        \cup Scalars({"raw_rebuild", "raw_health_degraded", "raw_health_degraded_critical",
                      "raw_health_failed"})
V5Metrics ==
    [System |-> V5System, StorageNode |-> V5StorageNode, Sdc |-> V5Sdc, Volume |-> V5Volume,
     StoragePool |-> V5StoragePool, Device |-> V5Device, ProtectionDomain |-> V5ProtectionDomain,
     DeviceGroup |-> V5DeviceGroup, Sdt |-> ControllerLatency]

\* parseV5Response: the first value of each metric that has one; of two resources
\* with one id the later wins.  A resource has at most one metric of a name.
ParseV5(resources) ==
    [id \in {r.id : r \in Range(resources)} |->
        LET r == resources[Max({i \in DOMAIN resources : resources[i].id = id})]
        IN {[metric |-> m.metric, value |-> Head(m.values)] :
                m \in {x \in r.metrics : x.values # <<>>}}]

V5Field ==
    [iops |-> "iops", bw |-> "bandwidth_bytes_per_second", iosize |-> "io_size_bytes",
     latency |-> "latency_microseconds"]

\* The fields whose samples have an operation and a direction, in either generation.
DerivedFields ==
    {"iops", "bandwidth_kb_per_second", "io_size_kb", "latency", "bandwidth_bytes_per_second",
     "io_size_bytes", "latency_microseconds"}

\* A metric the table does not have is ignored.
DeriveSamplesV5(type, labels, stats) ==
    {LET kind == s.metric[1]
         op == s.metric[2]
     IN IF kind = "scalar" THEN Sample(type, op, labels, <<s.value, 1>>)
        ELSE Derived(type, V5Field[kind], labels, op, s.metric[3], <<s.value, 1>>) :
        s \in {x \in stats : x.metric \in V5Metrics[type]}}

-----------------------------------------------------------------------------
(* Operational state.                                                       *)

Healthy ==
    {"Connected", "Joined", "NoMaintenance", "Normal", "NormalTemperature", "NormalEndOfLife",
     "None"}
Transitional ==
    {"JoinPending", "RemovePending", "SetMaintenanceInProgress", "InMaintenance",
     "ExitMaintenanceInProgress", "NormalTesting", "DeviceInfoPending", "Reserved",
     "AboveThreshold", "EndOfLifeWarning"}

\* The failed states of healthSeverity and every state it does not know.
SeverityOf(state) ==
    IF state \in Healthy THEN 0 ELSE IF state \in Transitional THEN 1 ELSE 2

NodeStates == <<"mdm_connection_state", "membership_state", "maintenance_state">>
DeviceStates == <<"device_state", "temperature_state", "ssd_end_of_life_state", "error_state">>

\* deriveStateSamples: the types with state metrics and their state fields.
StateFields(gen) ==
    IF gen = "gen1"
    THEN [Sds |-> NodeStates, Device |-> DeviceStates, Sdc |-> <<"mdm_connection_state">>]
    ELSE [StorageNode |-> NodeStates, Device |-> DeviceStates,
          Sdc |-> <<"mdm_connection_state">>, Sdt |-> <<"sdt_state">>]

\* Mutation: only the first state field counts.
MutHealth(o, fields) == IF o.states[fields[1]] = "" THEN 0 ELSE SeverityOf(o.states[fields[1]])

\* The worst severity; a state that is not reported has none.
Health(o, fields) ==
    Max({0} \cup {SeverityOf(o.states[f]) : f \in {g \in Range(fields) : o.states[g] # ""}})

EmitState(gen, cluster, in, type) ==
    LET fields == StateFields(gen)[type]
        StateLabels(o) == [i \in DOMAIN fields |-> <<fields[i], o.states[fields[i]]>>]
    IN UNION {LET base == ObjectLabels(gen, cluster, in, type, o)
              IN {Sample(type, "health", base, <<Health(o, fields), 1>>),
                  Sample(type, "info", base \o StateLabels(o), <<1, 1>>)} :
              o \in {x \in Range(Objects(in, type)) : Resolved(gen, in, type, x)}}

VolumeMappingSamples(gen, cluster, in) ==
    UNION {{Sample("Volume", "mapped_sdc",
                   ObjectLabels(gen, cluster, in, "Volume", v)
                     \o << <<"sdc_id", m.id>>, <<"sdc_ip", m.ip>> >>, <<1, 1>>) : m \in v.mapped} :
           v \in {x \in Range(Objects(in, "Volume")) : Resolved(gen, in, "Volume", x)}}

DeriveStateSamples(gen, cluster, in) ==
    (UNION {EmitState(gen, cluster, in, t) : t \in DOMAIN StateFields(gen)})
        \cup VolumeMappingSamples(gen, cluster, in)

StateMetrics == {"health", "info", "mapped_sdc"}
IsStateMetric(name) == name[2] \in StateMetrics

InventoryField ==
    [volumes |-> "num_of_volumes", sds |-> "num_of_sds", devices |-> "num_of_devices"]

\* The counts the API reports of its own, not the lengths of the lists.
InventorySamples(cluster, in) ==
    {Sample("System", InventoryField[k], BaseLabels(cluster, in), <<s.counts[k], 1>>) :
        s \in Range(Objects(in, "System")), k \in DOMAIN InventoryField}

-----------------------------------------------------------------------------
(* The samples of a cluster (buildSamplesGen1, buildSamplesGen2).            *)

\* Statistics are keyed by type and id; Gen1's System answers under the key "".
StatsKey(gen, type, o) == IF gen = "gen1" /\ type = "System" THEN "" ELSE o.id
HasStats(stats, type, key) == type \in DOMAIN stats /\ key \in DOMAIN stats[type]

\* The objects whose statistics are derived.
Derivable(gen, in, stats, type) ==
    {o \in Range(Objects(in, type)) :
        /\ HasStats(stats, type, StatsKey(gen, type, o))
        /\ type \in BuilderTypes[gen] => Resolved(gen, in, type, o)}

\* appendEnrichment: what the enricher appends to the labels of an object, when
\* it is enabled; enriched maps <<type, object>> to labels.
EnrichedTypes == {"Volume", "Sdc"}
Enriched(enriched, type, o) ==
    IF <<type, o.id>> \in DOMAIN enriched THEN enriched[<<type, o.id>>] ELSE <<>>

StatLabels(gen, cluster, in, enriched, type, o) ==
    IF type = "System" THEN BaseLabels(cluster, in)
    ELSE ObjectLabels(gen, cluster, in, type, o) \o Enriched(enriched, type, o)

StatSamples(gen, cluster, in, stats, enriched) ==
    UNION {UNION {LET labels == StatLabels(gen, cluster, in, enriched, t, o)
                      raw == stats[t][StatsKey(gen, t, o)]
                  IN IF gen = "gen1" THEN DeriveSamples(t, labels, raw)
                     ELSE DeriveSamplesV5(t, labels, raw) :
                  o \in Derivable(gen, in, stats, t)} :
           t \in BuilderTypes[gen] \cup {"System"}}

BuildSamples(gen, cluster, in, stats, enriched) ==
    StatSamples(gen, cluster, in, stats, enriched)
        \cup DeriveStateSamples(gen, cluster, in)
        \cup InventorySamples(cluster, in)

\* reusePriorStatSamples.
ReusePrior(samples, skip) == {s \in samples : s.name[1] \in skip /\ ~IsStateMetric(s.name)}

===============================================================================
