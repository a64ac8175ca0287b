------------------------------ MODULE Exposition ------------------------------
(***************************************************************************)
(* From the gateways to what is served: cycles that fetch the instance     *)
(* list and the statistics of each cluster, derive its samples (Series)    *)
(* while the Kubernetes lookup maps change underneath (Enrichment), and    *)
(* publish a snapshot; and the two ways it leaves the process, the scrape  *)
(* of /metrics (PromCollector) and the OTLP push (OTLPExporter).           *)
(*                                                                         *)
(* The calls of a cluster's cycle, their timeouts and errors are those of  *)
(* module Collector; here they are one action that picks one of the things *)
(* the gateway may answer.                                                 *)
(***************************************************************************)
EXTENDS Enrichment, Series, Bags

CONSTANTS
    Clusters,       \* names of the configured clusters
    Gateway,        \* per cluster: what it may answer, by a name for the answer
    EveryN,         \* collection.slowResourceEveryN
    SlowTypes,      \* collection.slowResourceTypes
    Features,       \* the settings checked: [k8s, otlp]
    Reloaders       \* goroutines that reload: SIGHUP's and the watcher's

\* Some v5 type is always asked for, so that a failing v5 API is noticed.
ASSUME ExpositionAssumption ==
    EveryN \in Nat \ {0} /\ ~ (DOMAIN V5Metrics \subseteq SlowTypes)

\* The Gen1 statistics of an object are a map by name, and no scalar that
\* querySelectedStatistics.json asks for is named like a metric that is derived.
StatName(x) == <<x.op, x.dir, x.suffix>>
NamedApart(stats) ==
    /\ \A x, y \in stats : StatName(x) = StatName(y) => x = y
    /\ \A x \in stats :
        \/ x.suffix \in {"Bwc", "Latency"} /\ x.dir \in {"Read", "Write", ""}
        \/ /\ x.suffix = "" /\ x.dir = ""
           /\ x.op \notin DerivedFields \cup StateMetrics \cup Range(InventoryField)

\* A gateway has one System and gives objects of one type different ids; it lists
\* resources, each of which has at most one metric of a name.
Sound(answer) ==
    /\ \A type \in DOMAIN answer.in : \A o, p \in Range(answer.in[type]) :
        type = "System" \/ o.id = p.id => o = p
    /\ answer.gen1.ok => \A r \in answer.gen1.stats : \A type \in DOMAIN r :
        \A id \in DOMAIN r[type] : NamedApart(r[type][id])
    /\ answer.gen2.ok => \A type \in DOMAIN answer.gen2.stats :
        LET resources == answer.gen2.stats[type]
        IN /\ Len(resources) \in Nat /\ DOMAIN resources = 1 .. Len(resources)
           /\ \A r \in Range(resources) : \A m, n \in r.metrics : m.metric = n.metric => m = n

ASSUME GatewayAssumption ==
    \A c \in Clusters : \A a \in DOMAIN Gateway[c] : Gateway[c][a].ok => Sound(Gateway[c][a])

VARIABLES
    otlp,           \* is the OTLP push enabled?
    polling,        \* is a cycle under way?
    cycle,          \* Collector.cycle, modulo EveryN
    job,            \* per cluster: where its goroutine is, and what it has
    result,         \* per cluster: the snapshot of this cycle
    store,          \* SnapshotStore.current, per cluster
    ensure,         \* per ensurer: where EnsureInstruments is
    instruments     \* OTLPExporter.registered, as the bag of gauges created

collectVars == <<polling, cycle, job, result, store>>
otlpVars == <<otlp, ensure, instruments>>
vars == <<enrichmentVars, collectVars, otlpVars>>

-----------------------------------------------------------------------------
(* One cluster.                                                             *)

\* Which statistics path succeeds: the detected generation's, or else the other.
Path(answer) ==
    LET works(p) == answer[p].ok
        first == IF DetectGeneration(answer.in) = "gen2" THEN "gen2" ELSE "gen1"
        other == IF first = "gen2" THEN "gen1" ELSE "gen2"
    IN IF ~answer.ok THEN "none"
       ELSE IF works(first) THEN first ELSE IF works(other) THEN other ELSE "none"

\* No cycle has published yet, or the cluster failed in the last one.
Blank == [up |-> FALSE, generation |-> "none", answer |-> "none", samples |-> {}]

\* slowSkipFor, reading the prior snapshot: no other is published in a cycle.
Skip(c) ==
    IF cycle = 0 \/ store[c].generation # "gen2" \/ store[c].samples = {} THEN {} ELSE SlowTypes

\* Mutation: the skipped types are asked for all the same.
MutStats(c, answer, path) ==
    IF path = "gen1" THEN Merge(answer.gen1.stats)
    ELSE [t \in DOMAIN answer.gen2.stats |-> ParseV5(answer.gen2.stats[t])]

\* The parsed statistics, of Gen1 from one response per type; types whose query
\* failed are missing.
Stats(c, answer, path) ==
    IF path = "gen1" THEN Merge(answer.gen1.stats)
    ELSE [t \in DOMAIN answer.gen2.stats \ Skip(c) |-> ParseV5(answer.gen2.stats[t])]

\* The objects whose labels the enricher is asked for; j is c's job.
ToRead(c, j) ==
    LET a == Gateway[c][j.answer]
        p == Path(a)
    IN IF ~enabled \/ p = "none" THEN {}
       ELSE UNION {{<<t, o>> : o \in Derivable(p, a.in, Stats(c, a, p), t)} : t \in EnrichedTypes}

Read(o, type) == IF type = "Volume" THEN EnricherVolumeLabels(o.id) ELSE EnricherSDCLabels(o.ip)

\* buildSamplesGen1 or buildSamplesGen2, and the reused samples.
Collected(c, j) ==
    LET a == Gateway[c][j.answer]
        p == Path(a)
    IN IF ~a.ok THEN [Blank EXCEPT !.answer = j.answer]
       ELSE IF p = "none"
       THEN [Blank EXCEPT !.answer = j.answer, !.generation = DetectGeneration(a.in)]
       ELSE [up |-> TRUE, answer |-> j.answer,
             generation |-> IF p = "gen2" THEN p ELSE DetectGeneration(a.in),
             samples |-> BuildSamples(p, c, a.in, Stats(c, a, p), j.enriched)
                           \cup IF p = "gen2" THEN ReusePrior(store[c].samples, Skip(c)) ELSE {}]

-----------------------------------------------------------------------------
Ensurers == {"main"} \cup Reloaders
Queued == [pc |-> "queued", answer |-> "none", enriched |-> NoMap]
Done == [Queued EXCEPT !.pc = "done"]

Served == UNION {store[c].samples : c \in Clusters}
MetricNames == {s.name : s \in Served}
SamplesByName(n) == {s \in Served : s.name = n}

TypeOK ==
    /\ EnrichmentTypeOK
    /\ otlp \in BOOLEAN /\ polling \in BOOLEAN /\ cycle \in 0 .. EveryN - 1
    /\ \A c \in Clusters :
        /\ job[c].pc \in {"queued", "labels", "done"}
        /\ job[c].answer \in DOMAIN Gateway[c] \cup {"none"}
        /\ store[c].generation \in {"none", "gen1", "gen2", "unknown"}
    /\ \A e \in Ensurers : ensure[e].pc \in {"idle", "loaded", "done"}
    /\ IsABag(instruments)

Init ==
    /\ EnrichmentInit
    /\ otlp \in BOOLEAN
    /\ [k8s |-> enabled, otlp |-> otlp] \in Features
    /\ polling = FALSE /\ cycle = 0
    /\ job = [c \in Clusters |-> Done]
    /\ result = [c \in Clusters |-> Blank] /\ store = result
    /\ ensure = [e \in Ensurers |-> [pc |-> "idle", names |-> {}]]
    /\ instruments = EmptyBag

\* The first cycle, or a tick: after initEnrichment has returned.
StartCycle ==
    /\ ready /\ ~polling
    /\ polling' = TRUE
    /\ job' = [c \in Clusters |-> Queued]
    /\ result' = [c \in Clusters |-> Blank]
    /\ UNCHANGED <<enrichmentVars, cycle, store, otlpVars>>

\* c's goroutine returns once it has the labels of every object in ToRead.
Proceed(c, j) ==
    IF \A k \in ToRead(c, j) : <<k[1], k[2].id>> \in DOMAIN j.enriched
    THEN /\ job' = [job EXCEPT ![c] = Done]
         /\ result' = [result EXCEPT ![c] = Collected(c, j)]
    ELSE job' = [job EXCEPT ![c] = j] /\ UNCHANGED result

\* The gateway answers the calls of c's cycle.
Fetch(c) ==
    /\ job[c].pc = "queued"
    /\ \E a \in DOMAIN Gateway[c] : Proceed(c, [pc |-> "labels", answer |-> a, enriched |-> NoMap])
    /\ UNCHANGED <<enrichmentVars, polling, cycle, store, otlpVars>>

\* appendEnrichment: the labels of one volume or SDC are read.
ReadLabels(c) ==
    /\ job[c].pc = "labels"
    /\ \E k \in ToRead(c, job[c]) :
        LET key == <<k[1], k[2].id>>
            before == job[c].enriched
            with == [x \in DOMAIN before \cup {key} |-> IF x = key THEN Read(k[2], k[1]) ELSE before[x]]
        IN key \notin DOMAIN before /\ Proceed(c, [job[c] EXCEPT !.enriched = with])
    /\ UNCHANGED <<enrichmentVars, polling, cycle, store, otlpVars>>

\* Mutation: the counter does not wrap.
MutPublishNoWrap ==
    /\ polling /\ \A c \in Clusters : job[c].pc = "done"
    /\ polling' = FALSE
    /\ cycle' = cycle + 1
    /\ store' = result
    /\ UNCHANGED <<enrichmentVars, job, result, otlpVars>>

\* The last goroutine has returned: BuildSnapshot and Store.
Publish ==
    /\ polling /\ \A c \in Clusters : job[c].pc = "done"
    /\ polling' = FALSE
    /\ cycle' = (cycle + 1) % EveryN
    /\ store' = result
    /\ UNCHANGED <<enrichmentVars, job, result, otlpVars>>

-----------------------------------------------------------------------------
(* OTLP: EnsureInstruments loads the snapshot, then takes the lock.          *)

Published == \E c \in Clusters : store[c].answer # "none"

\* Start calls it after the first cycle; a reload that rebuilt the collection
\* calls it again, and the two reload triggers run in goroutines of their own.
EnsureLoad(e) ==
    /\ otlp /\ ensure[e].pc = "idle"
    /\ IF e = "main" THEN Published ELSE ensure["main"].pc = "done"
    /\ ensure' = [ensure EXCEPT ![e] = [pc |-> "loaded", names |-> MetricNames]]
    /\ UNCHANGED <<enrichmentVars, collectVars, otlp, instruments>>

\* Mutation: names that already have an instrument get another one.
MutMissing(e) == ensure[e].names
Missing(e) == ensure[e].names \ DOMAIN instruments

\* Under the lock from the first name to the last.
EnsureRegister(e) ==
    /\ ensure[e].pc = "loaded"
    /\ instruments' = instruments (+) SetToBag(Missing(e))
    /\ ensure' = [ensure EXCEPT ![e] = [pc |-> "done", names |-> {}]]
    /\ UNCHANGED <<enrichmentVars, collectVars, otlp>>

CollectStep == StartCycle \/ Publish \/ \E c \in Clusters : Fetch(c) \/ ReadLabels(c)
EnsureStep == \E e \in Ensurers : EnsureLoad(e) \/ EnsureRegister(e)
Next == (EnrichmentNext /\ UNCHANGED <<collectVars, otlpVars>>) \/ CollectStep \/ EnsureStep

\* The refresh loop goes on, and the API server answers or fails each List.  That
\* every cycle ends and is followed by another one is what module Collector shows
\* of the collection loop (CyclesEnd); here it is assumed.
CyclesGoOn == []<><<Publish>>_vars
Fairness == WF_vars(RefreshStep /\ UNCHANGED <<collectVars, otlpVars>>) /\ CyclesGoOn
Spec == Init /\ [][Next]_vars
FairSpec == Spec /\ Fairness

-----------------------------------------------------------------------------
(* Properties.                                                              *)

Keys(s) == [i \in DOMAIN s.labels |-> s.labels[i][1]]
Values(s) == [i \in DOMAIN s.labels |-> s.labels[i][2]]
LabelValue(s, key) == LET i == CHOOSE i \in DOMAIN s.labels : Keys(s)[i] = key IN Values(s)[i]

\* PromCollector.Collect describes a metric by the label names of the first sample
\* of its name, drops a sample whose values an earlier one has, and one that has
\* another number of labels.  So a scrape exports every sample of the snapshot with
\* its labels and its value, in whatever order the goroutines and the maps left
\* the samples of a name, exactly if all samples of a name have the same label
\* names, none twice, and no two have the same values: with both generations in
\* one snapshot, fallbacks, reused samples and samples enriched at different times.
ScrapeIsFaithful ==
    LET served == Served
    IN \A p \in served :
        /\ IsInjective(Keys(p))
        /\ \A q \in {s \in served : s.name = p.name} :
            Keys(p) = Keys(q) /\ (Values(p) = Values(q) => p = q)

\* What the last cycle was answered, and for an object type with states: the
\* objects listed whose parents resolve, the states one reports, and its gauges.
Answer(c) == Gateway[c][store[c].answer]
Fields(c) == StateFields(Path(Answer(c)))
Described(c, type) ==
    {o \in Range(Objects(Answer(c).in, type)) : Resolved(Path(Answer(c)), Answer(c).in, type, o)}
Reported(c, type, o) == {o.states[f] : f \in Range(Fields(c)[type])} \ {""}
HealthGauges(c, type) == {s \in store[c].samples : s.name = <<type, "health">>}

\* s carries the identity and the parents of o, whatever else it carries.
IsFor(s, c, type, o) ==
    Range(ObjectLabels(Path(Answer(c)), c, Answer(c).in, type, o)) \subseteq Range(s.labels)

\* The health gauges are those of the instance list fetched in this very cycle,
\* exactly one for each object with state whose parents resolve, whatever happened to the
\* statistics: 0 when every state reported is healthy, 2 when one has failed or is
\* unknown, and never a worse state hidden by a better one.  An object that
\* reports no state is left to LostSignalSurfaces.
HealthHonest ==
    \A c \in Clusters : store[c].up => \A type \in DOMAIN Fields(c) :
        LET objects == Described(c, type)
            gauges == HealthGauges(c, type)
        IN /\ \A s \in gauges : \E o \in objects : {p \in objects : IsFor(s, c, type, p)} = {o}
           /\ \A o \in objects : \E s \in gauges :
                /\ {g \in gauges : IsFor(g, c, type, o)} = {s}
                /\ Reported(c, type, o) # {} =>
                    /\ s.value[1] = 0 <=> Reported(c, type, o) \subseteq Healthy
                    /\ s.value[1] = 2 <=> ~ (Reported(c, type, o) \subseteq Healthy \cup Transitional)

\* "A missing or unrecognized state maps to 2 (unknown), so a lost signal is
\* surfaced rather than hidden": an object none of whose states is reported any
\* more is not served as a healthy one.
LostSignalSurfaces ==
    \A c \in Clusters : store[c].up =>
        \A type \in DOMAIN Fields(c) : \A o \in Described(c, type) :
            Reported(c, type, o) = {} =>
                \A s \in HealthGauges(c, type) : IsFor(s, c, type, o) => s.value[1] = 2

IdKey ==
    [Sds |-> "sds_id", StorageNode |-> "storage_node_id", Device |-> "device_id",
     Volume |-> "volume_id", StoragePool |-> "storage_pool_id", Sdc |-> "sdc_id",
     DeviceGroup |-> "device_group_id", ProtectionDomain |-> "protection_domain_id",
     Sdt |-> "sdt_id"]

\* All statistics of an object are under one set of labels: its names, parents
\* and Kubernetes labels are read once, and fresh and reused samples of one type
\* are never in one snapshot, though an object was renamed, rebound or moved
\* between the cycles.
OneIdentityPerObject ==
    LET stats == {s \in Served : s.name[1] \in DOMAIN IdKey /\ ~IsStateMetric(s.name)}
        Object(s) == <<LabelValue(s, "cluster"), s.name[1], LabelValue(s, IdKey[s.name[1]])>>
        Identity(s) == {l \in Range(s.labels) : l[1] \notin {"op", "direction"}}
        pairs == {<<Object(s), Identity(s)>> : s \in stats}
    IN \A p, q \in pairs : p[1] = q[1] => p = q

\* What a List gave or would have given up to now.
PastVolumes == {VolumesFromPVs(Kube[i].pvs) : i \in 1 .. k8s}
PastNodes == {NodesByIP(Kube[i].nodes) : i \in 1 .. k8s}
VolumeKeys == {"namespace", "persistent_volume_claim", "persistent_volume", "storage_class"}

\* The workload labels of a volume's sample are those a map has for its id.
LabelledFrom(s, map) ==
    LET id == LabelValue(s, "volume_id")
    IN {l \in Range(s.labels) : l[1] \in VolumeKeys} =
           Range(VolumeEnrichmentLabels(Lookup(map, id, NoMeta)))
Statistics(type) == {s \in Served : s.name[1] = type /\ ~IsStateMetric(s.name)}

\* A failed List costs freshness, never truth: once a refresh has succeeded, each
\* map is that of a moment of Kubernetes, as a whole, and the labels of a served
\* series come from one moment.
LabelsWereTrue ==
    /\ volumes # NoMap \/ nodes # NoMap => volumes \in PastVolumes /\ nodes \in PastNodes
    /\ enabled =>
        /\ \A s \in Statistics("Volume") : \E m \in PastVolumes \cup {NoMap} : LabelledFrom(s, m)
        /\ \A s \in Statistics("Sdc") :
            LabelValue(s, "k8s_node") \in {""} \cup UNION {Range(m) : m \in PastNodes}

LabelsCurrent ==
    enabled => \A s \in Statistics("Volume") : LabelledFrom(s, VolumesFromPVs(Kube[k8s].pvs))

\* When Kubernetes no longer changes and its API no longer fails, the volumes
\* served end up with their present workload, reused samples included.
EnrichmentConverges == <>[]LabelsCurrent

\* "Idempotent; safe to call after reloads": however the calls of Start and of two
\* reloads interleave, no name gets a second gauge, which would push it twice.
OneInstrumentPerName == \A n \in DOMAIN instruments : instruments[n] = 1

\* The push observes what the instruments created so far ask the snapshot for.
Pushed == UNION {SamplesByName(n) : n \in DOMAIN instruments}

\* "The same in-memory snapshot feeds both the OTLP push and the Prometheus
\* scrape, so the two paths always agree."
PathsAgree == otlp /\ ensure["main"].pc = "done" => Pushed = Served

===============================================================================
