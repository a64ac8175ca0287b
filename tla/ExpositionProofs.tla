--------------------------- MODULE ExpositionProofs ---------------------------
(***************************************************************************)
(* Proofs about what is exported: for any clusters, any answers of their   *)
(* gateways, any Kubernetes, and any number of reloads and API failures.   *)
(***************************************************************************)
EXTENDS Exposition, SequenceTheorems, TLAPS

-----------------------------------------------------------------------------
(* The lookup maps.                                                         *)

RefreshShape ==
    /\ DOMAIN refresh = {"pc", "volumes", "nodes"}
    /\ \A l \in Lists : DOMAIN refresh[l] = {"st", "map"}

\* What a List returned, and what is looked up, was there at one moment.
RefreshFromPast ==
    /\ refresh.volumes.st = "ok" => refresh.volumes.map \in PastVolumes
    /\ refresh.nodes.st = "ok" => refresh.nodes.map \in PastNodes
MapsFromPast ==
    \/ volumes = NoMap /\ nodes = NoMap
    \/ volumes \in PastVolumes /\ nodes \in PastNodes

EnrichmentInv == EnrichmentTypeOK /\ RefreshShape /\ RefreshFromPast /\ MapsFromPast

\* The enricher starts with nothing mapped and no refresh under way.
LEMMA InitEnrichment == EnrichmentInit => EnrichmentInv
<1> SUFFICES ASSUME EnrichmentInit PROVE EnrichmentInv  OBVIOUS
<1> USE EnrichmentAssumption DEF EnrichmentInit, Idle, Pending, Lists
<1>1. EnrichmentTypeOK  BY DEF EnrichmentTypeOK
<1>2. RefreshShape  BY DEF RefreshShape
<1>3. RefreshFromPast /\ MapsFromPast  BY DEF RefreshFromPast, MapsFromPast
<1> QED  BY <1>1, <1>2, <1>3 DEF EnrichmentInv

\* The past grows.
LEMMA PastGrows ==
    ASSUME EnrichmentTypeOK, k8s' \in {k8s, k8s + 1}
    PROVE  PastVolumes \subseteq PastVolumes' /\ PastNodes \subseteq PastNodes'
<1>1. k8s \in Int  BY EnrichmentAssumption DEF EnrichmentTypeOK
<1>2. 1 .. k8s \subseteq 1 .. k8s'  BY <1>1
<1> QED  BY <1>2 DEF PastVolumes, PastNodes

\* A step of the enricher keeps the maps it publishes well formed.
LEMMA StepsInTime ==
    ASSUME EnrichmentTypeOK, [EnrichmentNext]_enrichmentVars
    PROVE  k8s' \in {k8s, k8s + 1} /\ enabled' = enabled
BY DEF EnrichmentNext, RefreshStep, RefreshBegin, ListVolumes, ListNodes, ListFails, RefreshEnd,
       Edit, enrichmentVars, EnrichmentTypeOK

\* A List is of the present.
LEMMA PresentIsPast ==
    ASSUME EnrichmentTypeOK
    PROVE  VolumesFromPVs(Kube[k8s].pvs) \in PastVolumes /\ NodesByIP(Kube[k8s].nodes) \in PastNodes
<1>1. k8s \in 1 .. k8s  BY EnrichmentAssumption DEF EnrichmentTypeOK
<1> QED  BY <1>1 DEF PastVolumes, PastNodes

\* The step of the enricher alone.
LEMMA NextEnrichment == EnrichmentInv /\ [EnrichmentNext]_enrichmentVars => EnrichmentInv'
<1> SUFFICES ASSUME EnrichmentInv, [EnrichmentNext]_enrichmentVars PROVE EnrichmentInv'  OBVIOUS
<1> USE DEF EnrichmentInv
<1>1. PastVolumes \subseteq PastVolumes' /\ PastNodes \subseteq PastNodes'
  BY StepsInTime, PastGrows
<1>2. CASE RefreshBegin
  BY <1>1, <1>2 DEF RefreshBegin, EnrichmentTypeOK, RefreshShape, RefreshFromPast, MapsFromPast, Lists
<1>3. CASE ListVolumes
  BY <1>1, <1>3, PresentIsPast
     DEF ListVolumes, EnrichmentTypeOK, RefreshShape, RefreshFromPast, MapsFromPast, Lists, Listed
<1>4. CASE ListNodes
  BY <1>1, <1>4, PresentIsPast
     DEF ListNodes, EnrichmentTypeOK, RefreshShape, RefreshFromPast, MapsFromPast, Lists, Listed
<1>5. ASSUME NEW l \in Lists, ListFails(l) PROVE EnrichmentInv'
  <2> USE <1>5 DEF ListFails
  <2>1. failures' \in 0 .. MaxFailures
    BY EnrichmentAssumption DEF EnrichmentTypeOK
  <2>2. /\ \A k \in Lists \ {l} : refresh'[k] = refresh[k]
        /\ refresh'[l] = Failed /\ refresh'.pc = refresh.pc
        /\ DOMAIN refresh' = DOMAIN refresh
    BY DEF RefreshShape, Lists
  <2>3. EnrichmentTypeOK'  BY <2>1, <2>2 DEF EnrichmentTypeOK, Failed
  <2>4. RefreshShape'  BY <2>2 DEF RefreshShape, Failed
  <2>5. RefreshFromPast' /\ MapsFromPast'
    BY <1>1, <2>2 DEF RefreshFromPast, MapsFromPast, Failed, Lists
  <2> QED  BY <2>3, <2>4, <2>5
<1>6. CASE RefreshEnd
  <2> USE <1>6 DEF RefreshEnd, Lists, Idle, Pending
  <2>1. EnrichmentTypeOK'  BY DEF EnrichmentTypeOK
  <2>2. RefreshShape' /\ RefreshFromPast'  BY DEF RefreshShape, RefreshFromPast
  <2>3. MapsFromPast'
    <3>1. CASE BothListed
      <4>1. volumes' \in PastVolumes /\ nodes' \in PastNodes  BY <3>1 DEF BothListed, RefreshFromPast
      <4> QED  BY <1>1, <4>1 DEF MapsFromPast
    <3>2. CASE ~BothListed
      BY <1>1, <3>2 DEF MapsFromPast
    <3> QED  BY <3>1, <3>2
  <2> QED  BY <2>1, <2>2, <2>3
<1>7. CASE Edit
  BY <1>1, <1>7 DEF Edit, EnrichmentTypeOK, RefreshShape, RefreshFromPast, MapsFromPast
<1>8. CASE UNCHANGED enrichmentVars
  BY <1>1, <1>8
     DEF enrichmentVars, EnrichmentTypeOK, RefreshShape, RefreshFromPast, MapsFromPast
<1> QED  BY <1>2, <1>3, <1>4, <1>5, <1>6, <1>7, <1>8 DEF EnrichmentNext, RefreshStep

-----------------------------------------------------------------------------
(* Types and shapes.                                                        *)

Generations == {"none", "gen1", "gen2", "unknown"}
JobOK(c, j) ==
    /\ DOMAIN j = {"pc", "answer", "enriched"}
    /\ j.pc \in {"queued", "labels", "done"}
    /\ j.answer \in DOMAIN Gateway[c] \cup {"none"}
ResultOK(r) == DOMAIN r = {"up", "generation", "answer", "samples"} /\ r.generation \in Generations

CollectTypeOK ==
    /\ polling \in BOOLEAN /\ cycle \in 0 .. EveryN - 1
    /\ DOMAIN job = Clusters /\ DOMAIN result = Clusters /\ DOMAIN store = Clusters
    /\ \A c \in Clusters : JobOK(c, job[c]) /\ ResultOK(result[c]) /\ ResultOK(store[c])

\* Every name has one instrument: the bag is a set.
OtlpInv ==
    /\ otlp \in BOOLEAN
    /\ DOMAIN ensure = Ensurers
    /\ \A e \in Ensurers : DOMAIN ensure[e] = {"pc", "names"} /\ ensure[e].pc \in {"idle", "loaded", "done"}
    /\ instruments = [n \in DOMAIN instruments |-> 1]

ExpositionInv == EnrichmentInv /\ CollectTypeOK /\ OtlpInv

\* The inductive invariant contains the type invariant.
LEMMA ExpositionTyped == ExpositionInv => TypeOK
<1> SUFFICES ASSUME ExpositionInv PROVE TypeOK  OBVIOUS
<1>1. IsABag(instruments)  BY DEF ExpositionInv, OtlpInv, IsABag
<1>2. EnrichmentTypeOK  BY DEF ExpositionInv, EnrichmentInv
<1>3. otlp \in BOOLEAN  BY DEF ExpositionInv, OtlpInv
<1> QED  BY <1>1, <1>2, <1>3
            DEF ExpositionInv, CollectTypeOK, OtlpInv, TypeOK, JobOK, ResultOK, Generations

\* The exporter starts with nothing collected.
LEMMA InitExposition == Init => ExpositionInv
<1> SUFFICES ASSUME Init PROVE ExpositionInv  OBVIOUS
<1>1. EnrichmentInv  BY InitEnrichment DEF Init
<1>2. CollectTypeOK
  <2>1. \A c \in Clusters : JobOK(c, Done) /\ ResultOK(Blank)
    BY DEF JobOK, ResultOK, Generations, Blank, Done, Queued
  <2>2. polling \in BOOLEAN  BY DEF Init
  <2>3. cycle = 0  BY Zenon DEF Init
  <2>4. cycle \in 0 .. EveryN - 1  BY <2>3, ExpositionAssumption
  <2> QED  BY <2>1, <2>2, <2>4 DEF Init, CollectTypeOK
<1>3. OtlpInv  BY DEF Init, OtlpInv, EmptyBag, SetToBag
<1> QED  BY <1>1, <1>2, <1>3 DEF ExpositionInv

\* Instruments are only added, under names not used before.
LEMMA NextOtlp == OtlpInv /\ [Next]_vars => OtlpInv'
<1> SUFFICES ASSUME OtlpInv, [Next]_vars PROVE OtlpInv'  OBVIOUS
<1>1. CASE UNCHANGED otlpVars  BY <1>1 DEF otlpVars, OtlpInv, Ensurers
<1>2. ASSUME NEW e \in Ensurers, EnsureLoad(e) PROVE OtlpInv'
  <2>1. otlp' \in BOOLEAN  BY <1>2 DEF EnsureLoad, OtlpInv
  <2> QED  BY <1>2, <2>1 DEF EnsureLoad, OtlpInv
<1>3. ASSUME NEW e \in Ensurers, EnsureRegister(e) PROVE OtlpInv'
  <2>1. otlp' \in BOOLEAN  BY <1>3 DEF EnsureRegister, OtlpInv
  <2>2. instruments' = [n \in DOMAIN instruments' |-> 1]
    <3> DEFINE new == ensure[e].names \ DOMAIN instruments
    <3>1. instruments' = instruments (+) [n \in new |-> 1]
      BY <1>3 DEF EnsureRegister, Missing, SetToBag
    <3>2. instruments' = [n \in (DOMAIN instruments) \cup new |-> 1]
      <4>1. \A n \in DOMAIN instruments : instruments[n] = 1  BY DEF OtlpInv
      <4> QED  BY <3>1, <4>1 DEF (+)
    <3> QED  BY <3>2
  <2> QED  BY <1>3, <2>1, <2>2 DEF EnsureRegister, OtlpInv
<1> QED  BY <1>1, <1>2, <1>3
            DEF Next, vars, EnsureStep, CollectStep, StartCycle, Publish, Fetch, ReadLabels

\* What a cycle collects is a snapshot.
LEMMA CollectedOK ==
    ASSUME NEW c \in Clusters, NEW j, JobOK(c, j)
    PROVE  ResultOK(Collected(c, j))
<1>1. DetectGeneration(Gateway[c][j.answer].in) \in Generations  BY DEF DetectGeneration, Generations
<1> HIDE DEF Path
<1> QED  BY <1>1 DEF Collected, ResultOK, Blank, Generations

\* A goroutine that proceeds stays typed.
LEMMA ProceedOK ==
    ASSUME CollectTypeOK, NEW c \in Clusters, NEW j, JobOK(c, j), Proceed(c, j),
           UNCHANGED <<polling, cycle, store>>
    PROVE  CollectTypeOK'
<1>1. JobOK(c, Done)  BY DEF JobOK, Done, Queued
<1>2. /\ DOMAIN job' = Clusters /\ DOMAIN result' = Clusters
      /\ job'[c] \in {Done, j} /\ result'[c] \in {result[c], Collected(c, j)}
      /\ \A d \in Clusters \ {c} : job'[d] = job[d] /\ result'[d] = result[d]
  BY DEF Proceed, CollectTypeOK
<1>3. \A d \in Clusters : JobOK(d, job'[d]) /\ ResultOK(result'[d])
  BY <1>1, <1>2, CollectedOK DEF CollectTypeOK
<1> QED  BY <1>2, <1>3 DEF CollectTypeOK

\* The steps of the collection cycle stay typed.
LEMMA NextCollectTypes == CollectTypeOK /\ [Next]_vars => CollectTypeOK'
<1> SUFFICES ASSUME CollectTypeOK, [Next]_vars PROVE CollectTypeOK'  OBVIOUS
<1>1. CASE UNCHANGED collectVars  BY <1>1 DEF collectVars, CollectTypeOK
<1>2. CASE StartCycle
  <2>1. \A c \in Clusters : JobOK(c, Queued) /\ ResultOK(Blank)
    BY DEF JobOK, ResultOK, Generations, Blank, Queued
  <2>2. polling' \in BOOLEAN  BY <1>2 DEF StartCycle
  <2> QED  BY <1>2, <2>1, <2>2 DEF StartCycle, CollectTypeOK
<1>3. CASE Publish
  <2>1. cycle' \in 0 .. EveryN - 1  BY <1>3, ExpositionAssumption DEF Publish, CollectTypeOK
  <2>2. polling' \in BOOLEAN  BY <1>3 DEF Publish
  <2> QED  BY <1>3, <2>1, <2>2 DEF Publish, CollectTypeOK
<1>4. ASSUME NEW c \in Clusters, Fetch(c) PROVE CollectTypeOK'
  <2>1. PICK a \in DOMAIN Gateway[c] : Proceed(c, [pc |-> "labels", answer |-> a, enriched |-> NoMap])
    BY <1>4 DEF Fetch
  <2>2. JobOK(c, [pc |-> "labels", answer |-> a, enriched |-> NoMap])  BY DEF JobOK
  <2> QED  BY <1>4, <2>1, <2>2, ProceedOK DEF Fetch
<1>5. ASSUME NEW c \in Clusters, ReadLabels(c) PROVE CollectTypeOK'
  <2>1. PICK map : Proceed(c, [job[c] EXCEPT !.enriched = map])  BY <1>5, Zenon DEF ReadLabels
  <2>2. JobOK(c, [job[c] EXCEPT !.enriched = map])  BY DEF CollectTypeOK, JobOK
  <2> QED  BY <1>5, <2>1, <2>2, ProceedOK DEF ReadLabels
<1> QED  BY <1>1, <1>2, <1>3, <1>4, <1>5
            DEF Next, vars, CollectStep, EnsureStep, EnsureLoad, EnsureRegister

\* The step of the whole, from those of its parts.
LEMMA NextExposition == ExpositionInv /\ [Next]_vars => ExpositionInv'
<1> SUFFICES ASSUME ExpositionInv, [Next]_vars PROVE ExpositionInv'  OBVIOUS
<1>1. [EnrichmentNext]_enrichmentVars
  BY DEF Next, vars, CollectStep, StartCycle, Publish, Fetch, ReadLabels, EnsureStep, EnsureLoad,
         EnsureRegister
<1> QED  BY <1>1, NextEnrichment, NextOtlp, NextCollectTypes DEF ExpositionInv

\* The type invariant and what it needs are invariants.
LEMMA AlwaysExposition == Spec => []ExpositionInv
BY InitExposition, NextExposition, PTL DEF Spec

\* Where each goroutine is and what it has, for any answers of the gateways.
THEOREM TypeCorrect == Spec => []TypeOK
BY AlwaysExposition, ExpositionTyped, PTL

\* However many goroutines reload, and however their calls of EnsureInstruments
\* interleave with cycles that add or lose names, no name gets a second gauge.
THEOREM OneInstrument == Spec => []OneInstrumentPerName
<1>1. ExpositionInv => OneInstrumentPerName  BY DEF ExpositionInv, OtlpInv, OneInstrumentPerName
<1> QED  BY <1>1, AlwaysExposition, PTL

-----------------------------------------------------------------------------
(* Labels.                                                                  *)

\* A list of labels with the labels S.
ListOf(list, S) == list \in Seq(S) /\ Range(list) = S

\* A list of one.
LEMMA ListOfOne == ASSUME NEW a PROVE ListOf(<<a>>, {a})
BY DEF ListOf, Range

\* A list of two.
LEMMA ListOfTwo == ASSUME NEW a, NEW b PROVE ListOf(<<a, b>>, {a, b})
<1>1. <<a, b>> \in Seq({a, b})  OBVIOUS
<1>2. Range(<<a, b>>) = {a, b}
  <2>1. DOMAIN <<a, b>> = {1, 2} /\ <<a, b>>[1] = a /\ <<a, b>>[2] = b  OBVIOUS
  <2> QED  BY <2>1, Zenon DEF Range
<1> QED  BY <1>1, <1>2 DEF ListOf

\* A list of four.
LEMMA ListOfFour ==
    ASSUME NEW a, NEW b, NEW c, NEW d
    PROVE  ListOf(<<a, b, c, d>>, {a, b, c, d})
<1> DEFINE list == <<a, b, c, d>>
<1>1. list \in Seq({a, b, c, d})  OBVIOUS
<1>2. Range(list) = {a, b, c, d}
  <2>1. DOMAIN list = {1, 2, 3, 4} /\ list[1] = a /\ list[2] = b /\ list[3] = c /\ list[4] = d
    OBVIOUS
  <2> QED  BY <2>1, Zenon DEF Range
<1> QED  BY <1>1, <1>2 DEF ListOf

\* Appending lists joins their labels.
LEMMA ListOfBoth ==
    ASSUME NEW a, NEW b, NEW A, NEW B, ListOf(a, A), ListOf(b, B)
    PROVE  ListOf(a \o b, A \cup B)
<1>1. a \in Seq(A \cup B) /\ b \in Seq(A \cup B)  BY DEF ListOf
<1>2. a \o b \in Seq(A \cup B)  BY <1>1
<1> QED  BY <1>1, <1>2, RangeConcatenation DEF ListOf

\* The value of a key that one label has.
LEMMA ValueOfKey ==
    ASSUME NEW s, NEW S, ListOf(s.labels, S), NEW key, NEW v, <<key, v>> \in S,
           \A l \in S : l[1] = key => l = <<key, v>>
    PROVE  LabelValue(s, key) = v
<1>1. PICK k \in DOMAIN s.labels : s.labels[k] = <<key, v>>  BY DEF ListOf, Range
<1>2. Keys(s)[k] = key  BY <1>1 DEF Keys
<1> DEFINE i == CHOOSE x \in DOMAIN s.labels : Keys(s)[x] = key
<1>3. i \in DOMAIN s.labels /\ Keys(s)[i] = key  BY <1>2, Zenon
<1> HIDE DEF i
<1>4. s.labels[i] \in S /\ s.labels[i][1] = key  BY <1>3 DEF ListOf, Keys, Range
<1>5. Values(s)[i] = v  BY <1>3, <1>4 DEF Values
<1> QED  BY <1>5 DEF LabelValue, i

\* A list of labels with keys in K, and one in which `key` identifies: its one
\* label is <<key, id>>.
Within(list, K) == ListOf(list, Range(list)) /\ \A l \in Range(list) : l[1] \in K
Identifies(list, K, key, id) ==
    /\ Within(list, K)
    /\ <<key, id>> \in Range(list)
    /\ \A l \in Range(list) : l[1] = key => l = <<key, id>>

\* Appending joins the keys and the labels.
LEMMA WithinBoth ==
    ASSUME NEW a, NEW b, NEW K, NEW M, Within(a, K), Within(b, M)
    PROVE  Within(a \o b, K \cup M) /\ Range(a \o b) = Range(a) \cup Range(b)
<1>1. ListOf(a \o b, Range(a) \cup Range(b))  BY ListOfBoth DEF Within
<1>2. Range(a \o b) = Range(a) \cup Range(b)  BY <1>1 DEF ListOf
<1> QED  BY <1>1, <1>2 DEF Within

\* What identifies still does after appending labels of other keys,
LEMMA IdentifiesBefore ==
    ASSUME NEW a, NEW b, NEW K, NEW M, NEW key, NEW id,
           Identifies(a, K, key, id), Within(b, M), key \notin M
    PROVE  Identifies(a \o b, K \cup M, key, id)
<1>1. Within(a \o b, K \cup M) /\ Range(a \o b) = Range(a) \cup Range(b)
  BY WithinBoth, Zenon DEF Identifies
<1>2. \A l \in Range(b) : l[1] # key  BY Zenon DEF Within
<1> QED  BY <1>1, <1>2, Zenon DEF Identifies

\* and when appended to labels of other keys.
LEMMA IdentifiesAfter ==
    ASSUME NEW a, NEW b, NEW K, NEW M, NEW key, NEW id,
           Within(a, K), Identifies(b, M, key, id), key \notin K
    PROVE  Identifies(a \o b, K \cup M, key, id)
<1>1. Within(a \o b, K \cup M) /\ Range(a \o b) = Range(a) \cup Range(b)
  BY WithinBoth, Zenon DEF Identifies
<1>2. \A l \in Range(a) : l[1] # key  BY Zenon DEF Within
<1> QED  BY <1>1, <1>2, Zenon DEF Identifies

\* The labels of one object and its name.
LEMMA TwoIdentify ==
    ASSUME NEW key, NEW id, NEW other, NEW v, key # other
    PROVE  /\ Identifies(<< <<key, id>>, <<other, v>> >>, {key, other}, key, id)
           /\ Identifies(<< <<other, v>>, <<key, id>> >>, {key, other}, key, id)
<1> DEFINE a == <<key, id>>
           b == <<other, v>>
<1>1. a[1] = key /\ b[1] = other  OBVIOUS
<1>2. a = <<key, id>>  OBVIOUS
<1> HIDE DEF a, b
<1>3. ListOf(<<a, b>>, {a, b}) /\ ListOf(<<b, a>>, {b, a})  BY ListOfTwo
<1>4. Range(<<a, b>>) = {a, b} /\ Range(<<b, a>>) = {a, b}  BY <1>3 DEF ListOf
<1>5. Identifies(<<a, b>>, {key, other}, key, id) /\ Identifies(<<b, a>>, {key, other}, key, id)
  BY <1>1, <1>2, <1>3, <1>4 DEF Identifies, Within
<1> QED  BY <1>5 DEF a, b

\* An id and name pair identifies by its id.
LEMMA IdNameIdentifies ==
    ASSUME NEW idKey, NEW nameKey, NEW o, idKey # nameKey
    PROVE  /\ Identifies(IdName(idKey, nameKey, o), {idKey, nameKey}, idKey, o.id)
           /\ Identifies(NameId(nameKey, idKey, o), {idKey, nameKey}, idKey, o.id)
BY TwoIdentify, Zenon DEF IdName, NameId

\* One label has its key.
LEMMA OneWithin == ASSUME NEW key, NEW v PROVE Within(<< <<key, v>> >>, {key})
<1> DEFINE a == <<key, v>>
<1>1. a[1] = key  OBVIOUS
<1> HIDE DEF a
<1>2. ListOf(<<a>>, {a})  BY ListOfOne
<1> QED  BY <1>1, <1>2 DEF Within, ListOf, a

\* What identifies among some keys does among more.
LEMMA IdentifiesAmong ==
    ASSUME NEW list, NEW K, NEW M, NEW key, NEW id, Identifies(list, K, key, id), K \subseteq M
    PROVE  Identifies(list, M, key, id)
BY DEF Identifies, Within

OwnKeys ==
    {"sds", "sds_id", "storage_node_name", "storage_node_id", "device_name", "device_id",
     "device_path", "volume_name", "volume_id", "volume_type", "storage_pool_id",
     "storage_pool_name", "sdc_name", "sdc_id", "device_group_name", "device_group_id",
     "media_type", "sdt_name", "sdt_id", "protection_domain_id", "protection_domain_name"}
DomainKeys == {"protection_domain_id", "protection_domain_name"}

\* Labels with a resolved protection domain appended still identify.
LEMMA DomainAppended ==
    ASSUME NEW list, NEW pd, WithDomain(list, pd) # <<>>, NEW K, NEW key, NEW id,
           Identifies(list, K, key, id), key \notin DomainKeys, K \subseteq OwnKeys
    PROVE  Identifies(WithDomain(list, pd), OwnKeys, key, id)
<1>1. WithDomain(list, pd) = list \o DomainLabels(pd)  BY DEF WithDomain
<1>2. Within(DomainLabels(pd), DomainKeys)
  BY IdNameIdentifies, "protection_domain_id" # "protection_domain_name"
     DEF DomainLabels, DomainKeys, Identifies
<1>3. Identifies(list \o DomainLabels(pd), K \cup DomainKeys, key, id)
  BY <1>2, IdentifiesBefore
<1>4. K \cup DomainKeys \subseteq OwnKeys  BY DEF DomainKeys, OwnKeys
<1> QED  BY <1>1, <1>3, <1>4, IdentifiesAmong

\* A resolved volume is identified by its volume_id.
LEMMA VolumeIdentified ==
    ASSUME NEW in, NEW o, NEW type, VolumeLabels(in, o, type) # <<>>
    PROVE  Identifies(VolumeLabels(in, o, type), OwnKeys, "volume_id", o.id)
<1> DEFINE pool == FirstParent(in, o, "StoragePool")
           own == NameId("volume_name", "volume_id", o)
           kind == << <<"volume_type", type>> >>
           list == (own \o kind) \o PoolLabels(pool)
<1>1. Identifies(own, {"volume_id", "volume_name"}, "volume_id", o.id)
  BY IdNameIdentifies
<1>2. Within(kind, {"volume_type"})  BY OneWithin
<1>3. Within(PoolLabels(pool), {"storage_pool_id", "storage_pool_name"})
  BY IdNameIdentifies DEF PoolLabels, Identifies
<1>4. VolumeLabels(in, o, type) = WithDomain(list, Domain(in, pool))  BY DEF VolumeLabels
<1> HIDE DEF own, kind, pool
<1>5. Identifies(own \o kind, {"volume_id", "volume_name"} \cup {"volume_type"}, "volume_id", o.id)
  BY <1>1, <1>2, IdentifiesBefore
<1>6. Identifies(list, ({"volume_id", "volume_name"} \cup {"volume_type"})
                          \cup {"storage_pool_id", "storage_pool_name"}, "volume_id", o.id)
  BY <1>3, <1>5, IdentifiesBefore
<1> HIDE DEF list
<1> QED  BY <1>4, <1>6, DomainAppended DEF OwnKeys, DomainKeys

\* A resolved device is identified by its device_id.
LEMMA DeviceIdentified ==
    ASSUME NEW sds, NEW node, NEW o, NEW pool, NEW pd, DeviceLabels(sds, node, o, pool, pd) # <<>>
    PROVE  Identifies(DeviceLabels(sds, node, o, pool, pd), OwnKeys, "device_id", o.id)
<1> DEFINE a == NameId("sds", "sds_id", sds)
           b == NameId("storage_node_name", "storage_node_id", node)
           own == NameId("device_name", "device_id", o)
           path == << <<"device_path", o.path>> >>
           p == PoolLabels(pool)
           K == ({"sds_id", "sds"} \cup {"storage_node_id", "storage_node_name"})
           list == (((a \o b) \o own) \o path) \o p
<1>1. Within(a, {"sds_id", "sds"}) /\ Within(b, {"storage_node_id", "storage_node_name"})
  BY IdNameIdentifies DEF Identifies
<1>2. Identifies(own, {"device_id", "device_name"}, "device_id", o.id)  BY IdNameIdentifies
<1>3. Within(path, {"device_path"})  BY OneWithin
<1>4. Within(p, {"storage_pool_id", "storage_pool_name"})
  BY IdNameIdentifies DEF PoolLabels, Identifies
<1>5. DeviceLabels(sds, node, o, pool, pd) = WithDomain(list, pd)  BY DEF DeviceLabels
<1> HIDE DEF a, b, own, path, p
<1>6. Within(a \o b, K)  BY <1>1, WithinBoth
<1>7. Identifies((a \o b) \o own, K \cup {"device_id", "device_name"}, "device_id", o.id)
  BY <1>2, <1>6, IdentifiesAfter
<1>8. Identifies(((a \o b) \o own) \o path,
                 (K \cup {"device_id", "device_name"}) \cup {"device_path"}, "device_id", o.id)
  BY <1>3, <1>7, IdentifiesBefore
<1>9. Identifies(list, ((K \cup {"device_id", "device_name"}) \cup {"device_path"})
                          \cup {"storage_pool_id", "storage_pool_name"}, "device_id", o.id)
  BY <1>4, <1>8, IdentifiesBefore
<1> HIDE DEF list
<1> QED  BY <1>5, <1>9, DomainAppended DEF OwnKeys, DomainKeys

\* A resolved device group is identified by its device_group_id.
LEMMA DeviceGroupIdentified ==
    ASSUME NEW in, NEW o, DeviceGroupLabels(in, o) # <<>>
    PROVE  Identifies(DeviceGroupLabels(in, o), OwnKeys, "device_group_id", o.id)
<1> DEFINE own == NameId("device_group_name", "device_group_id", o)
           media == << <<"media_type", IF o.media = "" THEN "unknown" ELSE o.media>> >>
<1>1. Identifies(own, {"device_group_id", "device_group_name"}, "device_group_id", o.id)
  BY IdNameIdentifies
<1>2. Within(media, {"media_type"})  BY OneWithin
<1>3. DeviceGroupLabels(in, o) = WithDomain(own \o media, Domain(in, o))  BY DEF DeviceGroupLabels
<1> HIDE DEF own, media
<1>4. Identifies(own \o media, {"device_group_id", "device_group_name"} \cup {"media_type"},
                 "device_group_id", o.id)
  BY <1>1, <1>2, IdentifiesBefore
<1> QED  BY <1>3, <1>4, DomainAppended DEF OwnKeys, DomainKeys

\* Whatever its type, the labels of an object have one that identifies it.
LEMMA OwnIdentified ==
    ASSUME NEW gen, NEW in, NEW type \in DOMAIN IdKey, NEW o, Resolved(gen, in, type, o)
    PROVE  Identifies(OwnLabels(gen, in, type, o), OwnKeys, IdKey[type], o.id)
<1> DEFINE L == OwnLabels(gen, in, type, o)
<1>1. L # <<>>  BY DEF Resolved
<1>2. ASSUME NEW nameKey, NEW idKey, idKey # nameKey, NEW pd,
             L \in {WithDomain(NameId(nameKey, idKey, o), pd), WithDomain(IdName(idKey, nameKey, o), pd)},
             {nameKey, idKey} \subseteq OwnKeys \ DomainKeys
      PROVE  Identifies(L, OwnKeys, idKey, o.id)
  <2> HIDE DEF L
  <2>1. PICK list : /\ Identifies(list, {idKey, nameKey}, idKey, o.id)
                    /\ L = WithDomain(list, pd)
    BY <1>2, IdNameIdentifies
  <2>2. WithDomain(list, pd) # <<>>  BY <1>1, <2>1
  <2>3. idKey \notin DomainKeys /\ {idKey, nameKey} \subseteq OwnKeys  BY <1>2
  <2>4. Identifies(WithDomain(list, pd), OwnKeys, idKey, o.id)
    BY <2>1, <2>2, <2>3, DomainAppended
  <2> QED  BY <2>1, <2>4
<1>3. CASE type = "Sds"
  <2>1. L = WithDomain(NameId("sds", "sds_id", o), Domain(in, o))  BY <1>3 DEF OwnLabels, SdsLabels
  <2> HIDE DEF L
  <2>2. Identifies(L, OwnKeys, "sds_id", o.id)  BY <1>2, <2>1 DEF OwnKeys, DomainKeys
  <2> QED  BY <1>3, <2>2 DEF L, IdKey
<1>4. CASE type = "StorageNode"
  <2>1. L = WithDomain(NameId("storage_node_name", "storage_node_id", o), Domain(in, o))
    BY <1>4 DEF OwnLabels, StorageNodeLabels
  <2> HIDE DEF L
  <2>2. Identifies(L, OwnKeys, "storage_node_id", o.id)  BY <1>2, <2>1 DEF OwnKeys, DomainKeys
  <2> QED  BY <1>4, <2>2 DEF L, IdKey
<1>5. CASE type = "StoragePool"
  <2>1. L = WithDomain(IdName("storage_pool_id", "storage_pool_name", o), Domain(in, o))
    BY <1>5 DEF OwnLabels, StoragePoolLabels, PoolLabels
  <2> HIDE DEF L
  <2>2. Identifies(L, OwnKeys, "storage_pool_id", o.id)  BY <1>2, <2>1 DEF OwnKeys, DomainKeys
  <2> QED  BY <1>5, <2>2 DEF L, IdKey
<1>6. CASE type = "Sdt"
  <2>1. L = WithDomain(NameId("sdt_name", "sdt_id", o), Domain(in, o))
    BY <1>6 DEF OwnLabels, SdtLabels
  <2> HIDE DEF L
  <2>2. Identifies(L, OwnKeys, "sdt_id", o.id)  BY <1>2, <2>1 DEF OwnKeys, DomainKeys
  <2> QED  BY <1>6, <2>2 DEF L, IdKey
<1>7. CASE type = "Device"
  <2>1. PICK sds, node, pool, pd : L = DeviceLabels(sds, node, o, pool, pd)
    <3>1. L \in {DeviceLabelsGen1(in, o), DeviceLabelsGen2(in, o)}  BY <1>7 DEF OwnLabels
    <3> HIDE DEF L
    <3> QED  BY <1>1, <3>1, Zenon DEF DeviceLabelsGen1, DeviceLabelsGen2, L
  <2> HIDE DEF L
  <2>2. Identifies(L, OwnKeys, "device_id", o.id)  BY <1>1, <2>1, DeviceIdentified DEF L
  <2> QED  BY <1>7, <2>2 DEF L, IdKey
<1>8. CASE type = "Volume"
  <2>1. PICK kind : L = VolumeLabels(in, o, kind)  BY <1>8 DEF OwnLabels
  <2> HIDE DEF L
  <2>2. Identifies(L, OwnKeys, "volume_id", o.id)  BY <1>1, <2>1, VolumeIdentified DEF L
  <2> QED  BY <1>8, <2>2 DEF L, IdKey
<1>9. CASE type = "Sdc"
  <2>1. PICK name : L = << <<"sdc_name", name>>, <<"sdc_id", o.id>> >>
    BY <1>9, Zenon DEF OwnLabels, SdcLabels
  <2> HIDE DEF L
  <2>2. Identifies(L, {"sdc_id", "sdc_name"}, "sdc_id", o.id)  BY <2>1, TwoIdentify
  <2>3. Identifies(L, OwnKeys, "sdc_id", o.id)  BY <2>2, IdentifiesAmong DEF OwnKeys
  <2> QED  BY <1>9, <2>3 DEF L, IdKey
<1>10. CASE type = "DeviceGroup"
  <2>1. L = DeviceGroupLabels(in, o)  BY <1>10 DEF OwnLabels
  <2> HIDE DEF L
  <2>2. Identifies(L, OwnKeys, "device_group_id", o.id)
    BY <1>1, <2>1, DeviceGroupIdentified DEF L
  <2> QED  BY <1>10, <2>2 DEF L, IdKey
<1>11. CASE type = "ProtectionDomain"
  <2>1. L = IdName("protection_domain_id", "protection_domain_name", o)
    BY <1>11 DEF OwnLabels, ProtectionDomainLabels, DomainLabels
  <2> HIDE DEF L
  <2>2. Identifies(L, DomainKeys, "protection_domain_id", o.id)
    BY <2>1, IdNameIdentifies DEF DomainKeys
  <2>3. Identifies(L, OwnKeys, "protection_domain_id", o.id)
    BY <2>2, IdentifiesAmong DEF OwnKeys, DomainKeys
  <2> QED  BY <1>11, <2>3 DEF L, IdKey
<1> QED  BY <1>3, <1>4, <1>5, <1>6, <1>7, <1>8, <1>9, <1>10, <1>11 DEF IdKey

-----------------------------------------------------------------------------
(* Samples.                                                                 *)

ExtraKeys == {"op", "direction"}
KubernetesKeys == VolumeKeys \cup {"k8s_node"}

\* A sample with these labels, or with these and an operation and a direction.
FromLabels(s, labels) ==
    \/ s.labels = labels
    \/ \E op, direction : s.labels = labels \o << <<"op", op>>, <<"direction", direction>> >>

\* A sample has the labels it is made with.
LEMMA SampleShape ==
    ASSUME NEW type, NEW field, NEW labels, NEW value, NEW s, s = Sample(type, field, labels, value)
    PROVE  s.name[1] = type /\ FromLabels(s, labels)
BY DEF Sample, FromLabels

\* A derived sample has them, an operation and a direction.
LEMMA DerivedShape ==
    ASSUME NEW type, NEW field, NEW labels, NEW op, NEW direction, NEW value,
           NEW s, s = Derived(type, field, labels, op, direction, value)
    PROVE  s.name[1] = type /\ FromLabels(s, labels)
<1>1. s.name[1] = type /\ s.labels = labels \o << <<"op", op>>, <<"direction", direction>> >>
  BY DEF Derived, Sample
<1> QED  BY <1>1, Zenon DEF FromLabels

\* What deriveSamples emits has the labels of the object.
LEMMA DeriveShape ==
    ASSUME NEW type, NEW labels, NEW stats, NEW s \in DeriveSamples(type, labels, stats)
    PROVE  s.name[1] = type /\ FromLabels(s, labels)
<1> DEFINE D(x, field, v) == Derived(type, field, labels, x.op, Direction(x), v)
           All(x) == CASE x.suffix = "Bwc" ->
                           {D(x, "iops", Persec(Occurrences(x.raw), x.raw.seconds)),
                            D(x, "bandwidth_kb_per_second", Persec(x.raw.weight, x.raw.seconds)),
                            D(x, "io_size_kb", Ratio(x.raw.weight, Occurrences(x.raw)))}
                       [] x.suffix = "Latency" ->
                           {D(x, "latency", Ratio(x.raw.weight, Occurrences(x.raw)))}
                       [] OTHER -> {Sample(type, x.op, labels, <<x.raw.number, 1>>)}
<1>1. PICK x : s \in All(x)  BY DEF DeriveSamples
<1>2. \/ \E field, v : s = D(x, field, v)
      \/ s = Sample(type, x.op, labels, <<x.raw.number, 1>>)
  <2> HIDE DEF D
  <2>1. CASE x.suffix = "Bwc"  BY <1>1, <2>1
  <2>2. CASE x.suffix = "Latency"  BY <1>1, <2>2
  <2>3. CASE x.suffix \notin {"Bwc", "Latency"}  BY <1>1, <2>3
  <2> QED  BY <2>1, <2>2, <2>3
<1>3. ASSUME NEW field, NEW v, s = D(x, field, v)
      PROVE  s.name[1] = type /\ FromLabels(s, labels)
  BY <1>3, DerivedShape
<1>4. CASE s = Sample(type, x.op, labels, <<x.raw.number, 1>>)
  BY <1>4, SampleShape
<1> QED  BY <1>2, <1>3, <1>4

\* So has what deriveSamplesV5 emits.
LEMMA DeriveV5Shape ==
    ASSUME NEW type, NEW labels, NEW stats, NEW s \in DeriveSamplesV5(type, labels, stats)
    PROVE  s.name[1] = type /\ FromLabels(s, labels)
<1>1. PICK x : s \in {Sample(type, x.metric[2], labels, <<x.value, 1>>),
                      Derived(type, V5Field[x.metric[1]], labels, x.metric[2], x.metric[3], <<x.value, 1>>)}
  BY DEF DeriveSamplesV5
<1>2. CASE s = Sample(type, x.metric[2], labels, <<x.value, 1>>)
  BY <1>2, SampleShape
<1>3. CASE s = Derived(type, V5Field[x.metric[1]], labels, x.metric[2], x.metric[3], <<x.value, 1>>)
  BY <1>3, DerivedShape
<1> QED  BY <1>1, <1>2, <1>3

\* A statistic is one of an object whose statistics are derived.
LEMMA StatShape ==
    ASSUME NEW gen, NEW c, NEW in, NEW stats, NEW enriched,
           NEW s \in StatSamples(gen, c, in, stats, enriched)
    PROVE  \E t \in BuilderTypes[gen] \cup {"System"} : \E o \in Derivable(gen, in, stats, t) :
               s.name[1] = t /\ FromLabels(s, StatLabels(gen, c, in, enriched, t, o))
<1> DEFINE labels(t, o) == StatLabels(gen, c, in, enriched, t, o)
           raw(t, o) == stats[t][StatsKey(gen, t, o)]
<1>1. PICK t \in BuilderTypes[gen] \cup {"System"} :
          s \in UNION {IF gen = "gen1" THEN DeriveSamples(t, labels(t, o), raw(t, o))
                       ELSE DeriveSamplesV5(t, labels(t, o), raw(t, o)) :
                       o \in Derivable(gen, in, stats, t)}
  BY DEF StatSamples
<1>2. PICK o \in Derivable(gen, in, stats, t) :
          \/ s \in DeriveSamples(t, labels(t, o), raw(t, o))
          \/ s \in DeriveSamplesV5(t, labels(t, o), raw(t, o))
  BY <1>1, Zenon
<1> HIDE DEF labels, raw
<1>3. s.name[1] = t /\ FromLabels(s, labels(t, o))  BY <1>2, DeriveShape, DeriveV5Shape, Zenon
<1> QED  BY <1>3, Zenon DEF labels

\* The state samples are named so that reuse skips them.
LEMMA StateShape ==
    ASSUME NEW gen, NEW c, NEW in, NEW s \in DeriveStateSamples(gen, c, in)
    PROVE  IsStateMetric(s.name)
<1>1. ASSUME NEW type, NEW field \in {"health", "info", "mapped_sdc"}, NEW labels, NEW value,
             s = Sample(type, field, labels, value)
      PROVE  IsStateMetric(s.name)
  BY <1>1 DEF Sample, IsStateMetric, StateMetrics
<1>2. ASSUME NEW t, s \in EmitState(gen, c, in, t) PROVE IsStateMetric(s.name)
  <2>1. \E labels, value : \/ s = Sample(t, "health", labels, value)
                           \/ s = Sample(t, "info", labels, value)
    BY <1>2 DEF EmitState
  <2> QED  BY <1>1, <2>1
<1>3. ASSUME s \in VolumeMappingSamples(gen, c, in) PROVE IsStateMetric(s.name)
  <2>1. \E labels, value : s = Sample("Volume", "mapped_sdc", labels, value)
    BY <1>3 DEF VolumeMappingSamples
  <2> QED  BY <1>1, <2>1
<1> QED  BY <1>2, <1>3 DEF DeriveStateSamples

\* The inventory samples are of the cluster.
LEMMA InventoryShape ==
    ASSUME NEW c, NEW in, NEW s \in InventorySamples(c, in)
    PROVE  s.name[1] = "System"
BY DEF InventorySamples, Sample

BaseKeys == {"cluster", "cluster_id"}

\* What can be read off the labels of a statistic: its cluster, its object, the
\* labels it got from Kubernetes, and the labels but for operation and direction.
Legible(s, c, type, id, read, labels) ==
    /\ ListOf(s.labels, Range(s.labels))
    /\ LabelValue(s, "cluster") = c /\ LabelValue(s, IdKey[type]) = id
    /\ {l \in Range(s.labels) : l[1] \in KubernetesKeys} = Range(read)
    /\ {l \in Range(s.labels) : l[1] \notin ExtraKeys} = Range(labels \o read)

\* What can be read off the labels of a statistic of a resolved object.
LEMMA StatLabelled ==
    ASSUME NEW gen, NEW c, NEW in, NEW type \in DOMAIN IdKey, NEW o, Resolved(gen, in, type, o),
           NEW read, Within(read, KubernetesKeys),
           NEW s, FromLabels(s, ObjectLabels(gen, c, in, type, o) \o read)
    PROVE  Legible(s, c, type, o.id, read, ObjectLabels(gen, c, in, type, o))
<1> DEFINE base == BaseLabels(c, in)
           own == OwnLabels(gen, in, type, o)
           key == IdKey[type]
<1>1. Identifies(base, BaseKeys, "cluster", c)
  <2>1. Identifies(base, {"cluster", "cluster_id"}, "cluster", c)  BY TwoIdentify DEF BaseLabels
  <2> QED  BY <2>1 DEF BaseKeys
<1>2. Identifies(own, OwnKeys, key, o.id)  BY OwnIdentified
<1>3. key \in OwnKeys  BY DEF IdKey, OwnKeys
<1>4. BaseKeys \cap OwnKeys = {} /\ KubernetesKeys \cap (BaseKeys \cup OwnKeys) = {}
      /\ ExtraKeys \cap ((BaseKeys \cup OwnKeys) \cup KubernetesKeys) = {}
  BY DEF BaseKeys, OwnKeys, KubernetesKeys, VolumeKeys, ExtraKeys
<1>5. ObjectLabels(gen, c, in, type, o) = base \o own  BY DEF ObjectLabels
<1> HIDE DEF base, own, key
<1> DEFINE all == (base \o own) \o read
           K == (BaseKeys \cup OwnKeys) \cup KubernetesKeys
<1>6. Within(base, BaseKeys) /\ Within(own, OwnKeys)  BY <1>1, <1>2 DEF Identifies
<1>7. /\ Within(base \o own, BaseKeys \cup OwnKeys)
      /\ Range(base \o own) = Range(base) \cup Range(own)
  BY <1>6, WithinBoth
<1>8. Within(all, K) /\ Range(all) = Range(base \o own) \cup Range(read)
  BY <1>7, WithinBoth
<1> HIDE DEF all
<1>9. /\ ListOf(s.labels, Range(s.labels)) /\ Range(all) \subseteq Range(s.labels)
      /\ \A l \in Range(s.labels) : l \in Range(all) \/ l[1] \in ExtraKeys
  <2> DEFINE Goal == /\ ListOf(s.labels, Range(s.labels)) /\ Range(all) \subseteq Range(s.labels)
                     /\ \A l \in Range(s.labels) : l \in Range(all) \/ l[1] \in ExtraKeys
  <2>1. CASE s.labels = all  BY <1>8, <2>1 DEF Within
  <2>2. ASSUME NEW op, NEW direction,
               s.labels = all \o << <<"op", op>>, <<"direction", direction>> >>
        PROVE  Goal
    <3> DEFINE extra == << <<"op", op>>, <<"direction", direction>> >>
    <3>1. Identifies(extra, {"op", "direction"}, "op", op)  BY TwoIdentify
    <3>2. Within(extra, ExtraKeys)  BY <3>1 DEF Identifies, ExtraKeys
    <3> HIDE DEF extra
    <3>3. Within(all \o extra, K \cup ExtraKeys) /\ Range(all \o extra) = Range(all) \cup Range(extra)
      BY <1>8, <3>2, WithinBoth
    <3>4. s.labels = all \o extra  BY <2>2 DEF extra
    <3> QED  BY <3>2, <3>3, <3>4 DEF Within
  <2> QED  BY <1>5, <2>1, <2>2 DEF FromLabels, all
<1>10. \A l \in Range(all) : l[1] \in K  BY <1>8 DEF Within
<1>11. LabelValue(s, "cluster") = c
  <2>1. "cluster" \in BaseKeys  BY DEF BaseKeys
  <2>2. <<"cluster", c>> \in Range(s.labels)  BY <1>1, <1>7, <1>8, <1>9 DEF Identifies
  <2>3. ASSUME NEW l \in Range(s.labels), l[1] = "cluster" PROVE l = <<"cluster", c>>
    <3>1. l \in Range(base)
      BY <1>4, <1>6, <1>7, <1>8, <1>9, <2>1, <2>3 DEF Within
    <3> QED  BY <1>1, <2>3, <3>1 DEF Identifies
  <2> QED  BY <1>9, <2>2, <2>3, ValueOfKey
<1>12. LabelValue(s, key) = o.id
  <2>1. <<key, o.id>> \in Range(s.labels)  BY <1>2, <1>7, <1>8, <1>9 DEF Identifies
  <2>2. ASSUME NEW l \in Range(s.labels), l[1] = key PROVE l = <<key, o.id>>
    <3>1. l \in Range(own)
      BY <1>3, <1>4, <1>6, <1>7, <1>8, <1>9, <2>2 DEF Within
    <3> QED  BY <1>2, <2>2, <3>1 DEF Identifies
  <2> QED  BY <1>9, <2>1, <2>2, ValueOfKey
<1>13. {l \in Range(s.labels) : l[1] \in KubernetesKeys} = Range(read)
  BY <1>4, <1>7, <1>8, <1>9 DEF Within
<1>14. {l \in Range(s.labels) : l[1] \notin ExtraKeys} = Range(all)
  BY <1>4, <1>9, <1>10
<1> QED  BY <1>5, <1>9, <1>11, <1>12, <1>13, <1>14 DEF all, key, Legible

-----------------------------------------------------------------------------
(* Truth: what is exported of Kubernetes was so at some moment.             *)

PastNames == {""} \cup UNION {Range(m) : m \in PastNodes}

\* Labels that were read for a key, and a sample, came from one moment.
ReadOK(key, labels) ==
    /\ key[1] = "Volume" => \E m \in PastVolumes \cup {NoMap} :
           labels = VolumeEnrichmentLabels(Lookup(m, key[2], NoMeta))
    /\ key[1] = "Sdc" => \E node \in PastNames : labels = SDCEnrichmentLabels(node)
SampleOK(s) ==
    ~IsStateMetric(s.name) =>
        /\ s.name[1] = "Volume" => \E m \in PastVolumes \cup {NoMap} : LabelledFrom(s, m)
        /\ s.name[1] = "Sdc" => LabelValue(s, "k8s_node") \in PastNames

TruthInv ==
    enabled => \A c \in Clusters :
        /\ \A key \in DOMAIN job[c].enriched : ReadOK(key, job[c].enriched[key])
        /\ \A s \in result[c].samples \cup store[c].samples : SampleOK(s)

\* The labels of a volume that is mapped, or is not, have the documented keys.
LEMMA VolumeRead == ASSUME NEW m PROVE Within(VolumeEnrichmentLabels(m), VolumeKeys)
<1> DEFINE a == <<"namespace", m.namespace>>
           b == <<"persistent_volume_claim", m.pvc>>
           c == <<"persistent_volume", m.pv>>
           d == <<"storage_class", m.class>>
<1>1. a[1] \in VolumeKeys /\ b[1] \in VolumeKeys /\ c[1] \in VolumeKeys /\ d[1] \in VolumeKeys
  BY DEF VolumeKeys
<1>2. VolumeEnrichmentLabels(m) = <<a, b, c, d>>  BY DEF VolumeEnrichmentLabels
<1> HIDE DEF a, b, c, d
<1>3. ListOf(<<a, b, c, d>>, {a, b, c, d})  BY ListOfFour
<1> QED  BY <1>1, <1>2, <1>3 DEF Within, ListOf

\* The label of an SDC that is mapped, or is not, is its node or empty.
LEMMA NodeRead ==
    ASSUME NEW node
    PROVE  /\ Within(SDCEnrichmentLabels(node), {"k8s_node"})
           /\ Range(SDCEnrichmentLabels(node)) = {<<"k8s_node", node>>}
<1> DEFINE a == <<"k8s_node", node>>
<1>1. a[1] = "k8s_node" /\ SDCEnrichmentLabels(node) = <<a>>  BY DEF SDCEnrichmentLabels
<1> HIDE DEF a
<1>2. ListOf(<<a>>, {a})  BY ListOfOne
<1> QED  BY <1>1, <1>2 DEF Within, ListOf, a

\* A volume's and an SDC's statistics carry what was read for it.
LEMMA VolumeTrue ==
    ASSUME NEW gen, NEW c, NEW in, NEW o, Resolved(gen, in, "Volume", o),
           NEW map, NEW s,
           FromLabels(s, ObjectLabels(gen, c, in, "Volume", o)
                           \o VolumeEnrichmentLabels(Lookup(map, o.id, NoMeta)))
    PROVE  LabelledFrom(s, map)
<1> DEFINE read == VolumeEnrichmentLabels(Lookup(map, o.id, NoMeta))
<1>0. FromLabels(s, ObjectLabels(gen, c, in, "Volume", o) \o read)  OBVIOUS
<1>1. Within(read, VolumeKeys)  BY VolumeRead
<1>2. "Volume" \in DOMAIN IdKey /\ IdKey["Volume"] = "volume_id"  BY DEF IdKey
<1> HIDE DEF read
<1>3. Within(read, KubernetesKeys)  BY <1>1 DEF Within, KubernetesKeys
<1>4. Legible(s, c, "Volume", o.id, read, ObjectLabels(gen, c, in, "Volume", o))
  BY <1>0, <1>2, <1>3, StatLabelled
<1>5. /\ LabelValue(s, "volume_id") = o.id
      /\ {l \in Range(s.labels) : l[1] \in KubernetesKeys} = Range(read)
  BY <1>2, <1>4 DEF Legible
<1>6. {l \in Range(s.labels) : l[1] \in VolumeKeys} = Range(read)
  BY <1>1, <1>5 DEF Within, KubernetesKeys
<1> QED  BY <1>5, <1>6, Zenon DEF LabelledFrom, read

\* An SDC's statistics carry the node that was read for it.
LEMMA SdcTrue ==
    ASSUME NEW gen, NEW c, NEW in, NEW o, Resolved(gen, in, "Sdc", o), NEW node, NEW s,
           FromLabels(s, ObjectLabels(gen, c, in, "Sdc", o) \o SDCEnrichmentLabels(node))
    PROVE  LabelValue(s, "k8s_node") = node
<1> DEFINE read == SDCEnrichmentLabels(node)
           label == <<"k8s_node", node>>
<1>0. FromLabels(s, ObjectLabels(gen, c, in, "Sdc", o) \o read)  OBVIOUS
<1>1. Within(read, {"k8s_node"}) /\ Range(read) = {label}  BY NodeRead
<1>2. "Sdc" \in DOMAIN IdKey  BY DEF IdKey
<1> HIDE DEF read
<1>3. Within(read, KubernetesKeys)  BY <1>1 DEF Within, KubernetesKeys
<1> HIDE DEF label
<1>4. Legible(s, c, "Sdc", o.id, read, ObjectLabels(gen, c, in, "Sdc", o))
  BY <1>0, <1>2, <1>3, StatLabelled
<1>5. /\ ListOf(s.labels, Range(s.labels))
      /\ {l \in Range(s.labels) : l[1] \in KubernetesKeys} = {label}
  BY <1>1, <1>4 DEF Legible
<1>6. label \in Range(s.labels)  BY <1>5
<1>7. \A l \in Range(s.labels) : l[1] = "k8s_node" => l = label  BY <1>5 DEF KubernetesKeys
<1> QED  BY <1>5, <1>6, <1>7, ValueOfKey DEF label

\* An answer takes one of three paths.
LEMMA PathKinds == ASSUME NEW answer PROVE Path(answer) \in {"none", "gen1", "gen2"}
<1> DEFINE g == DetectGeneration(answer.in)
<1> HIDE DEF g
<1> QED  BY DEF Path, g

\* What a cycle's goroutine of a cluster collects: nothing when it fails; else what
\* is derived and, of the Gen2 path, what is reused.
LEMMA CollectedSamples ==
    ASSUME NEW c, NEW j, NEW s \in Collected(c, j).samples
    PROVE  LET a == Gateway[c][j.answer]
               p == Path(a)
               stats == Stats(c, a, p)
           IN /\ p \in {"gen1", "gen2"}
              /\ \/ s \in StatSamples(p, c, a.in, stats, j.enriched)
                 \/ IsStateMetric(s.name)
                 \/ s.name[1] = "System"
                 \/ p = "gen2" /\ s \in ReusePrior(store[c].samples, Skip(c))
<1> DEFINE a == Gateway[c][j.answer]
           p == Path(a)
           stats == Stats(c, a, p)
           g == DetectGeneration(a.in)
           built == BuildSamples(p, c, a.in, stats, j.enriched)
           reused == IF p = "gen2" THEN ReusePrior(store[c].samples, Skip(c)) ELSE {}
<1>1. a.ok /\ p # "none" /\ s \in built \cup reused
  <2> HIDE DEF p, g, built, reused
  <2>1. Collected(c, j) =
            IF ~a.ok THEN [Blank EXCEPT !.answer = j.answer]
            ELSE IF p = "none" THEN [Blank EXCEPT !.answer = j.answer, !.generation = g]
            ELSE [up |-> TRUE, answer |-> j.answer, generation |-> IF p = "gen2" THEN p ELSE g,
                  samples |-> built \cup reused]
    BY Zenon DEF Collected, p, g, built, reused
  <2>2. CASE ~a.ok  BY <2>1, <2>2 DEF Blank
  <2>3. CASE a.ok /\ p = "none"  BY <2>1, <2>3 DEF Blank
  <2>4. CASE a.ok /\ p # "none"  BY <2>1, <2>4
  <2> QED  BY <2>2, <2>3, <2>4
<1>2. p \in {"gen1", "gen2"}  BY <1>1, PathKinds
<1>3. CASE s \in built
  <2>1. \/ s \in StatSamples(p, c, a.in, stats, j.enriched)
        \/ s \in DeriveStateSamples(p, c, a.in)
        \/ s \in InventorySamples(c, a.in)
    <3> HIDE DEF p, stats
    <3> QED  BY <1>3 DEF BuildSamples
  <2> HIDE DEF p, stats, a
  <2> QED  BY <1>2, <2>1, StateShape, InventoryShape DEF p, stats, a
<1>4. CASE s \in reused
  <2>1. p = "gen2" /\ s \in ReusePrior(store[c].samples, Skip(c))
    <3> HIDE DEF p
    <3> QED  BY <1>4
  <2> QED  BY <1>2, <2>1
<1> QED  BY <1>1, <1>3, <1>4

\* What a cycle collects is true if what was read and what may be reused is.
LEMMA CollectedTrue ==
    ASSUME enabled, NEW c, NEW j,
           \A key \in DOMAIN j.enriched : ReadOK(key, j.enriched[key]),
           \A k \in ToRead(c, j) : <<k[1], k[2].id>> \in DOMAIN j.enriched,
           \A s \in store[c].samples : SampleOK(s)
    PROVE  \A s \in Collected(c, j).samples : SampleOK(s)
<1> SUFFICES ASSUME NEW s \in Collected(c, j).samples, ~IsStateMetric(s.name),
                    s.name[1] \in EnrichedTypes
             PROVE  SampleOK(s)
  BY DEF SampleOK, EnrichedTypes
<1> DEFINE a == Gateway[c][j.answer]
           p == Path(a)
           in == a.in
           stats == Stats(c, a, p)
<1>1. /\ p \in {"gen1", "gen2"}
      /\ \/ s \in StatSamples(p, c, in, stats, j.enriched)
         \/ s \in ReusePrior(store[c].samples, Skip(c))
  BY CollectedSamples, "System" \notin {"Volume", "Sdc"} DEF EnrichedTypes
<1>2. CASE s \in ReusePrior(store[c].samples, Skip(c))
  BY <1>2 DEF ReusePrior
<1>3. CASE s \in StatSamples(p, c, in, stats, j.enriched)
  <2>0. PICK t \in BuilderTypes[p] \cup {"System"} : \E o \in Derivable(p, in, stats, t) :
            s.name[1] = t /\ FromLabels(s, StatLabels(p, c, in, j.enriched, t, o))
    <3> HIDE DEF a, p, in, stats
    <3> QED  BY <1>3, StatShape
  <2>1. PICK o \in Derivable(p, in, stats, t) :
            s.name[1] = t /\ FromLabels(s, StatLabels(p, c, in, j.enriched, t, o))
    BY <2>0, Zenon
  <2>2. t \in EnrichedTypes  BY <2>1
  <2>3. Resolved(p, in, t, o)
    <3>1. t \in BuilderTypes[p]  BY <1>1, <2>2 DEF BuilderTypes, EnrichedTypes
    <3> QED  BY <3>1, Zenon DEF Derivable
  <2>4. <<t, o.id>> \in DOMAIN j.enriched
    <3>1. ToRead(c, j) = UNION {{<<u, x>> : x \in Derivable(p, in, stats, u)} : u \in EnrichedTypes}
      <4>1. p # "none"  BY <1>1
      <4> QED  BY <4>1, Zenon DEF ToRead
    <3>2. <<t, o>> \in ToRead(c, j)
      <4> HIDE DEF p, in, stats, a
      <4> QED  BY <2>2, <3>1
    <3>3. <<t, o>>[1] = t /\ <<t, o>>[2] = o  OBVIOUS
    <3> QED  BY <3>2, <3>3
  <2> DEFINE read == j.enriched[<<t, o.id>>]
  <2>5. FromLabels(s, ObjectLabels(p, c, in, t, o) \o read)
    <3>1. t # "System"  BY <2>2 DEF EnrichedTypes
    <3>2. StatLabels(p, c, in, j.enriched, t, o) = ObjectLabels(p, c, in, t, o) \o read
      BY <2>4, <3>1, Zenon DEF StatLabels, Enriched
    <3> QED  BY <2>1, <3>2
  <2>6. ReadOK(<<t, o.id>>, read)  BY <2>4
  <2> HIDE DEF a, p, in, stats, read
  <2>7. CASE t = "Volume"
    <3>1. PICK m \in PastVolumes \cup {NoMap} : read = VolumeEnrichmentLabels(Lookup(m, o.id, NoMeta))
      BY <2>6, <2>7 DEF ReadOK
    <3>2. LabelledFrom(s, m)  BY <2>3, <2>5, <2>7, <3>1, VolumeTrue
    <3> QED  BY <2>1, <2>7, <3>2 DEF SampleOK
  <2>8. CASE t = "Sdc"
    <3>1. PICK node \in PastNames : read = SDCEnrichmentLabels(node)
      BY <2>6, <2>8 DEF ReadOK
    <3>2. LabelValue(s, "k8s_node") = node  BY <2>3, <2>5, <2>8, <3>1, SdcTrue
    <3> QED  BY <2>1, <2>8, <3>2 DEF SampleOK
  <2> QED  BY <2>2, <2>7, <2>8 DEF EnrichedTypes
<1> QED  BY <1>1, <1>2, <1>3

TruthOK == ExpositionInv /\ TruthInv

\* Nothing is exported of Kubernetes yet.
LEMMA InitTruth == Init => TruthInv
BY DEF Init, TruthInv, Done, Queued, NoMap, Blank

\* What was true at a moment stays so.
LEMMA TruthStays ==
    ASSUME PastVolumes \subseteq PastVolumes', PastNodes \subseteq PastNodes'
    PROVE  /\ \A key, labels : ReadOK(key, labels) => ReadOK(key, labels)'
           /\ \A s : SampleOK(s) => SampleOK(s)'
<1>1. PastNames \subseteq PastNames'  BY DEF PastNames
<1>2. ASSUME NEW key, NEW labels, ReadOK(key, labels) PROVE ReadOK(key, labels)'
  BY <1>1, <1>2, Zenon DEF ReadOK
<1>3. ASSUME NEW s, SampleOK(s) PROVE SampleOK(s)'
  BY <1>1, <1>3, Zenon DEF SampleOK
<1> QED  BY <1>2, <1>3

\* The labels read now are those of a moment.
LEMMA ReadTrue ==
    ASSUME MapsFromPast, NEW type, NEW o
    PROVE  ReadOK(<<type, o.id>>, Read(o, type))
<1> DEFINE key == <<type, o.id>>
<1>0. key[1] = type /\ key[2] = o.id  OBVIOUS
<1> HIDE DEF key
<1>1. CASE type = "Volume"
  <2>1. volumes \in PastVolumes \cup {NoMap}  BY DEF MapsFromPast
  <2>2. Read(o, type) = VolumeEnrichmentLabels(Lookup(volumes, o.id, NoMeta))
    BY <1>1 DEF Read, EnricherVolumeLabels
  <2> QED  BY <1>0, <1>1, <2>1, <2>2 DEF ReadOK, key
<1>2. CASE type # "Volume"
  <2>1. Lookup(nodes, o.ip, "") \in PastNames
    <3>1. CASE o.ip \notin DOMAIN nodes  BY <3>1 DEF Lookup, PastNames
    <3>2. CASE o.ip \in DOMAIN nodes
      <4>1. nodes # NoMap  BY <3>2 DEF NoMap
      <4>2. nodes \in PastNodes  BY <4>1 DEF MapsFromPast
      <4>3. nodes[o.ip] \in Range(nodes)  BY <3>2 DEF Range
      <4> QED  BY <3>2, <4>2, <4>3 DEF Lookup, PastNames
    <3> QED  BY <3>1, <3>2
  <2>2. Read(o, type) = SDCEnrichmentLabels(Lookup(nodes, o.ip, ""))
    BY <1>2 DEF Read, EnricherSDCLabels
  <2> QED  BY <1>0, <1>2, <2>1, <2>2 DEF ReadOK, key
<1> QED  BY <1>1, <1>2

\* A goroutine that proceeds keeps what is exported true.
LEMMA ProceedTrue ==
    ASSUME CollectTypeOK, TruthInv, enabled, NEW c \in Clusters, NEW j, Proceed(c, j),
           \A key \in DOMAIN j.enriched : ReadOK(key, j.enriched[key]),
           UNCHANGED <<enrichmentVars, store>>
    PROVE  TruthInv'
<1>1. /\ PastVolumes' = PastVolumes /\ PastNodes' = PastNodes /\ enabled' = enabled
      /\ \A d \in Clusters : store'[d] = store[d]
  BY DEF enrichmentVars, PastVolumes, PastNodes
<1>2. \A d \in Clusters \ {c} : job'[d] = job[d] /\ result'[d] = result[d]
  BY DEF Proceed, CollectTypeOK
<1>3. \/ job'[c] = j /\ result'[c] = result[c]
      \/ job'[c] = Done /\ \A s \in result'[c].samples : SampleOK(s)
  <2>1. CASE \A k \in ToRead(c, j) : <<k[1], k[2].id>> \in DOMAIN j.enriched
    <3>1. job'[c] = Done /\ result'[c] = Collected(c, j)  BY <2>1 DEF Proceed, CollectTypeOK
    <3> QED  BY <2>1, <3>1, CollectedTrue DEF TruthInv
  <2>2. CASE ~ (\A k \in ToRead(c, j) : <<k[1], k[2].id>> \in DOMAIN j.enriched)
    BY <2>2 DEF Proceed, CollectTypeOK
  <2> QED  BY <2>1, <2>2
<1>4. DOMAIN Done.enriched = {}  BY DEF Done, Queued, NoMap
<1>5. /\ \A key, labels : ReadOK(key, labels) => ReadOK(key, labels)'
      /\ \A s : SampleOK(s) => SampleOK(s)'
  BY <1>1, TruthStays
<1>6. ASSUME NEW d \in Clusters
      PROVE  /\ \A key \in DOMAIN job'[d].enriched : ReadOK(key, job'[d].enriched[key])
             /\ \A s \in result'[d].samples \cup store'[d].samples : SampleOK(s)
  <2>1. CASE d # c  BY <1>1, <1>2, <2>1 DEF TruthInv
  <2>2. CASE d = c  BY <1>1, <1>3, <1>4, <2>2 DEF TruthInv
  <2> QED  BY <2>1, <2>2
<1> QED  BY <1>5, <1>6 DEF TruthInv

\* The step: maps and samples are of moments, and moments stay past.
LEMMA NextTruth == TruthOK /\ [Next]_vars => TruthInv'
<1> SUFFICES ASSUME TruthOK, [Next]_vars, enabled' PROVE TruthInv'
  BY DEF TruthInv
<1>0. /\ CollectTypeOK /\ TruthInv /\ EnrichmentTypeOK /\ MapsFromPast
      /\ [EnrichmentNext]_enrichmentVars
  BY DEF TruthOK, ExpositionInv, EnrichmentInv, Next, vars, CollectStep, StartCycle, Publish, Fetch,
         ReadLabels, EnsureStep, EnsureLoad, EnsureRegister
<1>1. enabled  BY <1>0, StepsInTime
<1>2. /\ \A key, labels : ReadOK(key, labels) => ReadOK(key, labels)'
      /\ \A s : SampleOK(s) => SampleOK(s)'
  BY <1>0, StepsInTime, PastGrows, TruthStays
<1>3. CASE UNCHANGED collectVars
  BY <1>0, <1>1, <1>2, <1>3 DEF collectVars, TruthInv
<1>4. CASE StartCycle
  <2>1. DOMAIN Queued.enriched = {} /\ Blank.samples = {}  BY DEF Queued, NoMap, Blank
  <2> QED  BY <1>0, <1>1, <1>2, <1>4, <2>1 DEF StartCycle, TruthInv
<1>5. CASE Publish
  BY <1>0, <1>1, <1>2, <1>5 DEF Publish, TruthInv
<1>6. ASSUME NEW c \in Clusters, Fetch(c) PROVE TruthInv'
  <2>1. PICK a \in DOMAIN Gateway[c] : Proceed(c, [pc |-> "labels", answer |-> a, enriched |-> NoMap])
    BY <1>6 DEF Fetch
  <2>2. DOMAIN [pc |-> "labels", answer |-> a, enriched |-> NoMap].enriched = {}  BY DEF NoMap
  <2> QED  BY <1>0, <1>1, <1>6, <2>1, <2>2, ProceedTrue DEF Fetch
<1>7. ASSUME NEW c \in Clusters, ReadLabels(c) PROVE TruthInv'
  <2>0. PICK k \in ToRead(c, job[c]) :
            LET key == <<k[1], k[2].id>>
                before == job[c].enriched
                with == [x \in DOMAIN before \cup {key} |-> IF x = key THEN Read(k[2], k[1]) ELSE before[x]]
            IN Proceed(c, [job[c] EXCEPT !.enriched = with])
    BY <1>7, Zenon DEF ReadLabels
  <2> DEFINE key == <<k[1], k[2].id>>
             before == job[c].enriched
             map == [x \in DOMAIN before \cup {key} |-> IF x = key THEN Read(k[2], k[1]) ELSE before[x]]
             j == [job[c] EXCEPT !.enriched = map]
  <2>1. Proceed(c, j)  BY <2>0, Zenon
  <2>2. j.enriched = map  BY <1>0 DEF CollectTypeOK, JobOK
  <2>3. ReadOK(key, Read(k[2], k[1]))  BY <1>0, ReadTrue
  <2> HIDE DEF key
  <2>4. \A x \in DOMAIN map : ReadOK(x, map[x])
    BY <1>0, <1>1, <2>3 DEF TruthInv
  <2>5. UNCHANGED <<enrichmentVars, store>>  BY <1>7 DEF ReadLabels
  <2> HIDE DEF map, j
  <2> QED  BY <1>0, <1>1, <2>1, <2>2, <2>4, <2>5, ProceedTrue
<1> QED  BY <1>3, <1>4, <1>5, <1>6, <1>7
            DEF Next, vars, CollectStep, EnsureStep, EnsureLoad, EnsureRegister

\* A failed List costs freshness, never truth, for any sequence of states of
\* Kubernetes and any failures of its API, cycles and refreshes interleaved.
THEOREM TrueLabels == Spec => []LabelsWereTrue
<1>1. Init => TruthOK  BY InitExposition, InitTruth DEF TruthOK
<1>2. TruthOK /\ [Next]_vars => TruthOK'  BY NextExposition, NextTruth DEF TruthOK
<1>3. TruthOK => LabelsWereTrue
  <2> SUFFICES ASSUME TruthOK PROVE LabelsWereTrue  OBVIOUS
  <2>1. volumes # NoMap \/ nodes # NoMap => volumes \in PastVolumes /\ nodes \in PastNodes
    BY DEF TruthOK, ExpositionInv, EnrichmentInv, MapsFromPast
  <2>2. ASSUME enabled, NEW s \in Served PROVE SampleOK(s)
    BY <2>2 DEF TruthOK, TruthInv, Served
  <2> QED  BY <2>1, <2>2 DEF LabelsWereTrue, Statistics, SampleOK, PastNames
<1> QED  BY <1>1, <1>2, <1>3, PTL DEF Spec

-----------------------------------------------------------------------------
(* Identity: the statistics of an object are under one set of labels.       *)

IsStatistic(s) == s.name[1] \in DOMAIN IdKey /\ ~IsStateMetric(s.name)
ObjectId(s) == LabelValue(s, IdKey[s.name[1]])
Identity(s) == {l \in Range(s.labels) : l[1] \notin ExtraKeys}

\* The samples of one cluster agree with each other.
Coherent(c, samples) ==
    /\ \A s \in samples : IsStatistic(s) => LabelValue(s, "cluster") = c
    /\ \A s, t \in samples :
        /\ IsStatistic(s) /\ IsStatistic(t)
        /\ s.name[1] = t.name[1] /\ ObjectId(s) = ObjectId(t)
        => Identity(s) = Identity(t)

\* The labels read so far are workload labels, of objects of the fetched list.
JobReads(c, j) ==
    /\ j.pc = "labels" => j.answer \in DOMAIN Gateway[c]
    /\ \A key \in DOMAIN j.enriched : Within(j.enriched[key], KubernetesKeys)

IdentityInv ==
    \A c \in Clusters : JobReads(c, job[c]) /\ Coherent(c, result[c].samples) /\ Coherent(c, store[c].samples)

\* No labels have no keys.
LEMMA NothingWithin == ASSUME NEW K PROVE Within(<<>>, K)
<1>1. Range(<<>>) = {}  BY DEF Range
<1>2. <<>> \in Seq({})  OBVIOUS
<1> QED  BY <1>1, <1>2 DEF Within, ListOf

\* What is read for an object has the keys of the enricher.
LEMMA ReadWithin == ASSUME NEW o, NEW type PROVE Within(Read(o, type), KubernetesKeys)
<1>1. CASE type = "Volume"
  <2>1. Within(VolumeEnrichmentLabels(Lookup(volumes, o.id, NoMeta)), VolumeKeys)  BY VolumeRead
  <2>2. Read(o, type) = VolumeEnrichmentLabels(Lookup(volumes, o.id, NoMeta))
    BY <1>1 DEF Read, EnricherVolumeLabels
  <2> QED  BY <2>1, <2>2 DEF Within, KubernetesKeys
<1>2. CASE type # "Volume"
  <2>1. Within(SDCEnrichmentLabels(Lookup(nodes, o.ip, "")), {"k8s_node"})  BY NodeRead
  <2>2. Read(o, type) = SDCEnrichmentLabels(Lookup(nodes, o.ip, ""))
    BY <1>2 DEF Read, EnricherSDCLabels
  <2> QED  BY <2>1, <2>2 DEF Within, KubernetesKeys
<1> QED  BY <1>1, <1>2

\* A statistic derived in this cycle is of a listed object, under its labels.
LEMMA FreshIdentity ==
    ASSUME NEW gen \in {"gen1", "gen2"}, NEW c, NEW in, NEW stats, NEW enriched,
           \A key \in DOMAIN enriched : Within(enriched[key], KubernetesKeys),
           NEW s \in StatSamples(gen, c, in, stats, enriched), s.name[1] \in DOMAIN IdKey
    PROVE  \E o \in Range(Objects(in, s.name[1])) :
               /\ s.name[1] \in DOMAIN stats
               /\ LabelValue(s, "cluster") = c /\ ObjectId(s) = o.id
               /\ Identity(s) = Range(StatLabels(gen, c, in, enriched, s.name[1], o))
<1>0. PICK t \in BuilderTypes[gen] \cup {"System"} : \E o \in Derivable(gen, in, stats, t) :
          s.name[1] = t /\ FromLabels(s, StatLabels(gen, c, in, enriched, t, o))
  BY StatShape
<1>1. PICK o \in Derivable(gen, in, stats, t) :
          s.name[1] = t /\ FromLabels(s, StatLabels(gen, c, in, enriched, t, o))
  BY <1>0, Zenon
<1> DEFINE read == Enriched(enriched, t, o)
<1>2. t # "System"  BY <1>1 DEF IdKey
<1>3. o \in Range(Objects(in, t)) /\ t \in DOMAIN stats /\ Resolved(gen, in, t, o)
  BY <1>0, <1>1, <1>2, Zenon DEF Derivable, HasStats
<1>4. Within(read, KubernetesKeys)  BY NothingWithin DEF Enriched
<1>5. StatLabels(gen, c, in, enriched, t, o) = ObjectLabels(gen, c, in, t, o) \o read
  BY <1>2, Zenon DEF StatLabels
<1> HIDE DEF read
<1>6. FromLabels(s, ObjectLabels(gen, c, in, t, o) \o read)  BY <1>1, <1>5
<1>7. Legible(s, c, t, o.id, read, ObjectLabels(gen, c, in, t, o))
  BY <1>1, <1>3, <1>4, <1>6, StatLabelled
<1> QED  BY <1>1, <1>3, <1>5, <1>7 DEF Legible, Identity, ObjectId

\* What a cycle collects of a cluster is coherent if what it may reuse is.
LEMMA CollectedCoherent ==
    ASSUME NEW c \in Clusters, NEW j, j.answer \in DOMAIN Gateway[c],
           \A key \in DOMAIN j.enriched : Within(j.enriched[key], KubernetesKeys),
           Coherent(c, store[c].samples)
    PROVE  Coherent(c, Collected(c, j).samples)
<1> DEFINE a == Gateway[c][j.answer]
           p == Path(a)
           in == a.in
           stats == Stats(c, a, p)
           samples == Collected(c, j).samples
           Labels(t, o) == StatLabels(p, c, in, j.enriched, t, o)
           Fresh(s) == \E o \in Range(Objects(in, s.name[1])) :
                          /\ s.name[1] \in DOMAIN stats
                          /\ LabelValue(s, "cluster") = c /\ ObjectId(s) = o.id
                          /\ Identity(s) = Range(Labels(s.name[1], o))
           Reused(s) == p = "gen2" /\ s \in store[c].samples /\ s.name[1] \in Skip(c)
<1>1. ASSUME NEW s \in samples, IsStatistic(s) PROVE Fresh(s) \/ Reused(s)
  <2>1. "System" \notin DOMAIN IdKey  BY DEF IdKey
  <2>2. /\ p \in {"gen1", "gen2"}
        /\ \/ s \in StatSamples(p, c, in, stats, j.enriched)
           \/ p = "gen2" /\ s \in ReusePrior(store[c].samples, Skip(c))
    BY <1>1, <2>1, CollectedSamples DEF IsStatistic
  <2>3. CASE s \in StatSamples(p, c, in, stats, j.enriched)
    <3> HIDE DEF a, p, in, stats
    <3> QED  BY <1>1, <2>2, <2>3, FreshIdentity DEF IsStatistic
  <2>4. CASE p = "gen2" /\ s \in ReusePrior(store[c].samples, Skip(c))
    BY <2>4 DEF ReusePrior
  <2> QED  BY <2>2, <2>3, <2>4
<1>2. p = "gen2" => DOMAIN stats \cap Skip(c) = {}
  <2> HIDE DEF a, p
  <2> QED  BY DEF Stats
<1>3. ASSUME NEW s \in samples
      PROVE  \A t : \A o, q \in Range(Objects(in, t)) : o.id = q.id => o = q
  <2>1. Path(a) # "none"  BY CollectedSamples
  <2>2. a.ok
    <3> HIDE DEF a
    <3> QED  BY <2>1 DEF Path
  <2>3. \A t \in DOMAIN in : \A o, q \in Range(in[t]) : o.id = q.id => o = q
    BY <2>2, GatewayAssumption DEF Sound
  <2>4. Range(<<>>) = {}  BY DEF Range
  <2> HIDE DEF in
  <2> QED  BY <2>3, <2>4 DEF Objects
<1> HIDE DEF a, p, in, stats, samples, Labels
<1>4. ASSUME NEW s \in samples, IsStatistic(s) PROVE LabelValue(s, "cluster") = c
  BY <1>1, <1>4 DEF Coherent
<1>5. ASSUME NEW s \in samples, NEW t \in samples, IsStatistic(s), IsStatistic(t),
             s.name[1] = t.name[1], ObjectId(s) = ObjectId(t)
      PROVE  Identity(s) = Identity(t)
  <2>1. (Fresh(s) \/ Reused(s)) /\ (Fresh(t) \/ Reused(t))  BY <1>1, <1>5
  <2>2. CASE Fresh(s) /\ Fresh(t)  BY <1>3, <1>5, <2>2
  <2>3. CASE Reused(s) /\ Reused(t)  BY <1>5, <2>3 DEF Coherent
  <2>4. CASE (Fresh(s) /\ Reused(t)) \/ (Reused(s) /\ Fresh(t))  BY <1>2, <1>5, <2>4
  <2> QED  BY <2>1, <2>2, <2>3, <2>4
<1> QED  BY <1>4, <1>5 DEF Coherent, samples

\* A goroutine that proceeds keeps snapshots coherent.
LEMMA ProceedCoherent ==
    ASSUME CollectTypeOK, IdentityInv, NEW c \in Clusters, NEW j, Proceed(c, j),
           JobReads(c, j), j.pc = "labels", UNCHANGED store
    PROVE  IdentityInv'
<1>1. \A d \in Clusters \ {c} : job'[d] = job[d] /\ result'[d] = result[d]
  BY DEF Proceed, CollectTypeOK
<1>2. Coherent(c, Collected(c, j).samples)
  BY CollectedCoherent DEF IdentityInv, JobReads
<1>3. JobReads(c, Done)  BY DEF JobReads, Done, Queued, NoMap
<1>4. /\ job'[c] \in {j, Done}
      /\ result'[c] \in {result[c], Collected(c, j)}
  BY DEF Proceed, CollectTypeOK
<1>5. \A d \in Clusters : JobReads(d, job'[d]) /\ Coherent(d, result'[d].samples)
  BY <1>1, <1>2, <1>3, <1>4 DEF IdentityInv
<1> QED  BY <1>5 DEF IdentityInv

\* Nothing is collected yet.
LEMMA InitIdentity == Init => IdentityInv
<1>1. \A c : JobReads(c, Done) /\ Coherent(c, Blank.samples)
  BY DEF JobReads, Done, Queued, NoMap, Blank, Coherent
<1> QED  BY <1>1 DEF Init, IdentityInv

\* The step: snapshots are collected, published or left alone.
LEMMA NextIdentity == ExpositionInv /\ IdentityInv /\ [Next]_vars => IdentityInv'
<1> SUFFICES ASSUME CollectTypeOK, IdentityInv, [Next]_vars PROVE IdentityInv'
  BY DEF ExpositionInv
<1>1. CASE UNCHANGED collectVars  BY <1>1 DEF collectVars, IdentityInv
<1>2. CASE StartCycle
  <2>1. \A c : JobReads(c, Queued) /\ Coherent(c, Blank.samples)
    BY DEF JobReads, Queued, NoMap, Blank, Coherent
  <2> QED  BY <1>2, <2>1 DEF StartCycle, IdentityInv
<1>3. CASE Publish  BY <1>3 DEF Publish, IdentityInv
<1>4. ASSUME NEW c \in Clusters, Fetch(c) PROVE IdentityInv'
  <2>1. PICK a \in DOMAIN Gateway[c] : Proceed(c, [pc |-> "labels", answer |-> a, enriched |-> NoMap])
    BY <1>4 DEF Fetch
  <2> DEFINE j == [pc |-> "labels", answer |-> a, enriched |-> NoMap]
  <2>2. JobReads(c, j) /\ j.pc = "labels"  BY DEF JobReads, NoMap
  <2>3. Proceed(c, j)  BY <2>1
  <2> HIDE DEF j
  <2> QED  BY <1>4, <2>2, <2>3, ProceedCoherent DEF Fetch
<1>5. ASSUME NEW c \in Clusters, ReadLabels(c) PROVE IdentityInv'
  <2>1. PICK k \in ToRead(c, job[c]) :
            LET key == <<k[1], k[2].id>>
                before == job[c].enriched
                with == [x \in DOMAIN before \cup {key} |-> IF x = key THEN Read(k[2], k[1]) ELSE before[x]]
            IN Proceed(c, [job[c] EXCEPT !.enriched = with])
    BY <1>5, Zenon DEF ReadLabels
  <2> DEFINE key == <<k[1], k[2].id>>
             before == job[c].enriched
             map == [x \in DOMAIN before \cup {key} |-> IF x = key THEN Read(k[2], k[1]) ELSE before[x]]
             j == [job[c] EXCEPT !.enriched = map]
  <2>2. Proceed(c, j)  BY <2>1, Zenon
  <2>3. j.enriched = map /\ j.pc = job[c].pc /\ j.answer = job[c].answer  BY DEF CollectTypeOK, JobOK
  <2>4. Within(Read(k[2], k[1]), KubernetesKeys)  BY ReadWithin
  <2>5. JobReads(c, job[c]) /\ job[c].pc = "labels"  BY <1>5 DEF IdentityInv, ReadLabels
  <2> HIDE DEF key
  <2>6. \A x \in DOMAIN map : Within(map[x], KubernetesKeys)  BY <2>4, <2>5 DEF JobReads
  <2> HIDE DEF map, j
  <2>7. JobReads(c, j) /\ j.pc = "labels"  BY <2>3, <2>5, <2>6 DEF JobReads
  <2> QED  BY <1>5, <2>2, <2>7, ProceedCoherent DEF ReadLabels
<1> QED  BY <1>1, <1>2, <1>3, <1>4, <1>5
            DEF Next, vars, CollectStep, EnsureStep, EnsureLoad, EnsureRegister

\* In one snapshot the statistics of an object never carry two names, two parents
\* or two workloads, with any renames, moves, fallbacks and failed queries between
\* and within the cycles, whatever types are slow.
THEOREM OneIdentity == Spec => []OneIdentityPerObject
<1>1. IdentityInv => OneIdentityPerObject
  <2> SUFFICES ASSUME IdentityInv PROVE OneIdentityPerObject  OBVIOUS
  <2> DEFINE stats == {s \in Served : s.name[1] \in DOMAIN IdKey /\ ~IsStateMetric(s.name)}
             Object(s) == <<LabelValue(s, "cluster"), s.name[1], LabelValue(s, IdKey[s.name[1]])>>
             pairs == {<<Object(s), Identity(s)>> : s \in stats}
  <2>1. ASSUME NEW s \in stats, NEW t \in stats, Object(s) = Object(t) PROVE Identity(s) = Identity(t)
    <3>1. /\ LabelValue(s, "cluster") = LabelValue(t, "cluster")
          /\ s.name[1] = t.name[1] /\ ObjectId(s) = ObjectId(t)
      BY <2>1 DEF ObjectId
    <3>2. PICK c \in Clusters, d \in Clusters : s \in store[c].samples /\ t \in store[d].samples
      BY DEF Served
    <3>3. IsStatistic(s) /\ IsStatistic(t)  BY DEF IsStatistic
    <3>4. c = d  BY <3>1, <3>2, <3>3 DEF IdentityInv, Coherent
    <3> QED  BY <3>1, <3>2, <3>3, <3>4 DEF IdentityInv, Coherent
  <2>2. ASSUME NEW p \in pairs, NEW q \in pairs, p[1] = q[1] PROVE p = q
    <3>1. PICK s \in stats : p = <<Object(s), Identity(s)>>  OBVIOUS
    <3>2. PICK t \in stats : q = <<Object(t), Identity(t)>>  OBVIOUS
    <3> HIDE DEF stats, Object
    <3>3. Object(s) = Object(t)  BY <2>2, <3>1, <3>2
    <3> QED  BY <2>1, <3>1, <3>2, <3>3
  <2> QED  BY <2>2, Zenon DEF OneIdentityPerObject, Identity, ExtraKeys
<1>2. Init => ExpositionInv /\ IdentityInv  BY InitExposition, InitIdentity
<1>3. ExpositionInv /\ IdentityInv /\ [Next]_vars => ExpositionInv' /\ IdentityInv'
  BY NextExposition, NextIdentity
<1> QED  BY <1>1, <1>2, <1>3, PTL DEF Spec

===============================================================================
