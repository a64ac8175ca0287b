---------------------------- MODULE ScrapeProofs ----------------------------
(***************************************************************************)
(* Proofs about what a scrape is answered with: that the health gauges are *)
(* honest, and that the samples of all published snapshots fit together    *)
(* under one exposition.  For any clusters, any sound answers of their     *)
(* gateways, any Kubernetes, and any reloads and failures.                 *)
(***************************************************************************)
EXTENDS ExpositionProofs, FiniteSetTheorems

-----------------------------------------------------------------------------
\* What a cycle collects of a cluster: nothing, or what is built and what is reused.
LEMMA CollectedParts ==
    ASSUME NEW c, NEW j
    PROVE  LET a == Gateway[c][j.answer]
               p == Path(a)
               r == Collected(c, j)
           IN \/ ~r.up /\ r.samples = {}
              \/ /\ r.up /\ r.answer = j.answer /\ a.ok /\ p \in {"gen1", "gen2"}
                 /\ r.samples = BuildSamples(p, c, a.in, Stats(c, a, p), j.enriched)
                        \cup IF p = "gen2" THEN ReusePrior(store[c].samples, Skip(c)) ELSE {}
<1> DEFINE a == Gateway[c][j.answer]
           p == Path(a)
           g == DetectGeneration(a.in)
           all == BuildSamples(p, c, a.in, Stats(c, a, p), j.enriched)
                        \cup IF p = "gen2" THEN ReusePrior(store[c].samples, Skip(c)) ELSE {}
<1>1. p # "none" => p \in {"gen1", "gen2"}  BY PathKinds
<1> HIDE DEF p, g, all
<1>2. Collected(c, j) =
          IF ~a.ok THEN [Blank EXCEPT !.answer = j.answer]
          ELSE IF p = "none" THEN [Blank EXCEPT !.answer = j.answer, !.generation = g]
          ELSE [up |-> TRUE, answer |-> j.answer, generation |-> IF p = "gen2" THEN p ELSE g,
                samples |-> all]
  BY Zenon DEF Collected, p, g, all
<1> HIDE DEF a
<1>3. CASE ~a.ok
  <2>1. ~Collected(c, j).up /\ Collected(c, j).samples = {}  BY <1>2, <1>3 DEF Blank
  <2> QED  BY <2>1
<1>4. CASE a.ok /\ p = "none"
  <2>1. ~Collected(c, j).up /\ Collected(c, j).samples = {}  BY <1>2, <1>4 DEF Blank
  <2> QED  BY <2>1
<1>5. CASE a.ok /\ p # "none"
  <2>1. /\ Collected(c, j).up /\ Collected(c, j).answer = j.answer
        /\ Collected(c, j).samples = all
    BY <1>2, <1>5
  <2> QED  BY <1>1, <1>5, <2>1 DEF all, p, a
<1> QED  BY <1>3, <1>4, <1>5

\* The state metrics of an object that are no health gauge.
LEMMA ObjectIdentified ==
    ASSUME NEW gen, NEW c, NEW in, NEW type \in DOMAIN IdKey, NEW o, Resolved(gen, in, type, o)
    PROVE  Identifies(ObjectLabels(gen, c, in, type, o), BaseKeys \cup OwnKeys, IdKey[type], o.id)
<1>1. Identifies(BaseLabels(c, in), {"cluster", "cluster_id"}, "cluster", c)
  BY TwoIdentify DEF BaseLabels
<1>2. Within(BaseLabels(c, in), BaseKeys)  BY <1>1 DEF Identifies, BaseKeys
<1>3. Identifies(OwnLabels(gen, in, type, o), OwnKeys, IdKey[type], o.id)  BY OwnIdentified
<1>4. IdKey[type] \notin BaseKeys  BY DEF IdKey, BaseKeys
<1> QED  BY <1>2, <1>3, <1>4, IdentifiesAfter DEF ObjectLabels

\* No labels of an object include those of an object with another id.
LEMMA LabelsTellApart ==
    ASSUME NEW gen, NEW c, NEW in, NEW type \in DOMAIN IdKey,
           NEW o, Resolved(gen, in, type, o), NEW p, Resolved(gen, in, type, p),
           Range(ObjectLabels(gen, c, in, type, p)) \subseteq Range(ObjectLabels(gen, c, in, type, o))
    PROVE  o.id = p.id
<1> DEFINE L(x) == ObjectLabels(gen, c, in, type, x)
<1>1. /\ Identifies(L(o), BaseKeys \cup OwnKeys, IdKey[type], o.id)
      /\ Identifies(L(p), BaseKeys \cup OwnKeys, IdKey[type], p.id)
  BY ObjectIdentified
<1> HIDE DEF L
<1>2. <<IdKey[type], p.id>> \in Range(L(p))  BY <1>1 DEF Identifies
<1>3. <<IdKey[type], p.id>> \in Range(L(o))  BY <1>2 DEF L
<1>4. <<IdKey[type], p.id>> = <<IdKey[type], o.id>>  BY <1>1, <1>3 DEF Identifies
<1> QED  BY <1>4

\* The worst of the reported severities.
LEMMA HealthWorst ==
    ASSUME NEW o, NEW fields
    PROVE  LET reported == {o.states[f] : f \in Range(fields)} \ {""}
           IN /\ Health(o, fields) = 0 <=> reported \subseteq Healthy
              /\ Health(o, fields) = 2 <=> ~ (reported \subseteq Healthy \cup Transitional)
<1> DEFINE reported == {o.states[f] : f \in Range(fields)} \ {""}
           S == {0} \cup {SeverityOf(o.states[f]) : f \in {g \in Range(fields) : o.states[g] # ""}}
<1>1. S = {0} \cup {SeverityOf(x) : x \in reported}  OBVIOUS
<1>2. \A x : SeverityOf(x) \in {0, 1, 2}  BY DEF SeverityOf
<1>3. S \subseteq {0, 1, 2} /\ 0 \in S  BY <1>1, <1>2
<1>4. \E m \in S : \A y \in S : m >= y
  <2> HIDE DEF S
  <2>1. CASE 2 \in S  BY <1>3, <2>1
  <2>2. CASE 2 \notin S /\ 1 \in S
    <3>1. \A y \in S : 1 >= y  BY <1>3, <2>2
    <3> QED  BY <2>2, <3>1
  <2>3. CASE 2 \notin S /\ 1 \notin S
    <3>1. \A y \in S : 0 >= y  BY <1>3, <2>3
    <3> QED  BY <1>3, <3>1
  <2> QED  BY <2>1, <2>2, <2>3
<1>5. Health(o, fields) = Max(S)  BY Zenon DEF Health
<1> HIDE DEF S
<1>6. Max(S) \in S /\ \A y \in S : Max(S) >= y
  <2>1. (CHOOSE x \in S : \A y \in S : x >= y) \in S
         /\ \A z \in S : (CHOOSE x \in S : \A y \in S : x >= y) >= z
    BY <1>4, Zenon
  <2> QED  BY <2>1 DEF Max
<1>7. Max(S) = 0 <=> \A x \in reported : SeverityOf(x) = 0
  <2> HIDE DEF reported
  <2>1. ASSUME \A x \in reported : SeverityOf(x) = 0 PROVE Max(S) = 0
    BY <1>1, <1>6, <2>1
  <2>2. ASSUME Max(S) = 0, NEW x \in reported PROVE SeverityOf(x) = 0
    BY <1>1, <1>2, <1>6, <2>2
  <2> QED  BY <2>1, <2>2
<1>8. Max(S) = 2 <=> \E x \in reported : SeverityOf(x) = 2
  <2> HIDE DEF reported
  <2>1. ASSUME NEW x \in reported, SeverityOf(x) = 2 PROVE Max(S) = 2
    BY <1>1, <1>3, <1>6, <2>1
  <2>2. ASSUME Max(S) = 2 PROVE \E x \in reported : SeverityOf(x) = 2
    BY <1>1, <1>6, <2>2
  <2> QED  BY <2>1, <2>2
<1> HIDE DEF reported
<1>9. (\A x \in reported : SeverityOf(x) = 0) <=> reported \subseteq Healthy
  BY DEF SeverityOf
<1>10. (\E x \in reported : SeverityOf(x) = 2) <=> ~ (reported \subseteq Healthy \cup Transitional)
  BY DEF SeverityOf
<1> QED  BY <1>5, <1>7, <1>8, <1>9, <1>10 DEF reported

-----------------------------------------------------------------------------
(* Statistics: what tells the samples of one object apart.                  *)

TakenFields == StateMetrics \cup Range(InventoryField)

\* The fields that state metrics and inventory samples take for themselves.
LEMMA TakenAre ==
    TakenFields = {"health", "info", "mapped_sdc", "num_of_volumes", "num_of_sds", "num_of_devices"}
<1>1. DOMAIN InventoryField = {"volumes", "sds", "devices"}  BY DEF InventoryField
<1>2. /\ InventoryField["volumes"] = "num_of_volumes" /\ InventoryField["sds"] = "num_of_sds"
      /\ InventoryField["devices"] = "num_of_devices"
  BY DEF InventoryField
<1> HIDE DEF InventoryField
<1>3. Range(InventoryField) = {"num_of_volumes", "num_of_sds", "num_of_devices"}
  BY <1>1, <1>2 DEF Range
<1> QED  BY <1>3 DEF TakenFields, StateMetrics

Extra(op, direction) == << <<"op", op>>, <<"direction", direction>> >>

\* Equal labels with an operation and a direction appended have them equal.
LEMMA ExtraTold ==
    ASSUME NEW S, NEW labels \in Seq(S), NEW op, NEW direction, NEW op2, NEW direction2,
           labels \o Extra(op, direction) = labels \o Extra(op2, direction2)
    PROVE  op = op2 /\ direction = direction2
<1> DEFINE a == <<"op", op>>
           b == <<"direction", direction>>
           a2 == <<"op", op2>>
           b2 == <<"direction", direction2>>
           n == Len(labels)
<1>1. labels \o <<a, b>> = labels \o <<a2, b2>>  BY DEF Extra
<1>2. n \in Nat  OBVIOUS
<1>3. a = a2 /\ b = b2
  <2> HIDE DEF a, b, a2, b2
  <2>1. (labels \o <<a, b>>)[n + 1] = a /\ (labels \o <<a, b>>)[n + 2] = b  BY <1>2
  <2>2. (labels \o <<a2, b2>>)[n + 1] = a2 /\ (labels \o <<a2, b2>>)[n + 2] = b2  BY <1>2
  <2> QED  BY <1>1, <2>1, <2>2
<1> QED  BY <1>3

\* The form of a statistic of an object with these labels.
StatForm(s, type, labels) ==
    /\ s = Sample(type, s.name[2], s.labels, s.value)
    /\ s.name[2] \notin TakenFields
    /\ s.name[2] \in DerivedFields => \E op, direction : s.labels = labels \o Extra(op, direction)
    /\ s.name[2] \notin DerivedFields => s.labels = labels

\* A derived sample has the form of a statistic.
LEMMA DerivedForm ==
    ASSUME NEW type, NEW field \in DerivedFields, NEW labels, NEW op, NEW direction, NEW value, NEW s,
           s = Derived(type, field, labels, op, direction, value)
    PROVE  StatForm(s, type, labels) /\ s = Sample(type, field, labels \o Extra(op, direction), value)
<1>1. s = Sample(type, field, labels \o Extra(op, direction), value)  BY DEF Derived, Extra
<1>2. s.name = <<type, field>> /\ s.labels = labels \o Extra(op, direction) /\ s.value = value
  BY <1>1 DEF Sample
<1>3. s.name[2] = field  BY <1>2
<1>4. field \notin TakenFields  BY TakenAre DEF DerivedFields
<1> QED  BY <1>1, <1>2, <1>3, <1>4, Zenon DEF StatForm

\* So has a scalar whose field nothing else takes.
LEMMA ScalarForm ==
    ASSUME NEW type, NEW field, field \notin DerivedFields \cup TakenFields, NEW labels, NEW value, NEW s,
           s = Sample(type, field, labels, value)
    PROVE  StatForm(s, type, labels)
<1>1. s.name = <<type, field>>  BY DEF Sample
<1>2. s.labels = labels /\ s.value = value  BY DEF Sample
<1>3. s.name[2] = field  BY <1>1
<1> QED  BY <1>2, <1>3, Zenon DEF StatForm

BwcFields == {"iops", "bandwidth_kb_per_second", "io_size_kb"}
Value1(x, field) ==
    CASE field = "iops" -> Persec(Occurrences(x.raw), x.raw.seconds)
      [] field = "bandwidth_kb_per_second" -> Persec(x.raw.weight, x.raw.seconds)
      [] OTHER -> Ratio(x.raw.weight, Occurrences(x.raw))

\* The samples of one Gen1 statistic.
IsOf1(s, type, labels, x) ==
    \/ /\ x.suffix = "Bwc"
       /\ \E field \in BwcFields :
              s = Derived(type, field, labels, x.op, Direction(x), Value1(x, field))
    \/ /\ x.suffix = "Latency"
       /\ s = Derived(type, "latency", labels, x.op, Direction(x), Value1(x, "latency"))
    \/ x.suffix \notin {"Bwc", "Latency"} /\ s = Sample(type, x.op, labels, <<x.raw.number, 1>>)

\* What deriveSamples emits is the sample of one of the Gen1 statistics.
LEMMA Gen1Parts ==
    ASSUME NEW type, NEW labels, NEW stats, NEW s \in DeriveSamples(type, labels, stats)
    PROVE  \E x \in stats : IsOf1(s, type, labels, x)
<1> DEFINE D(x, field, v) == Derived(type, field, labels, x.op, Direction(x), v)
           Of(x) == CASE x.suffix = "Bwc" ->
                           {D(x, "iops", Persec(Occurrences(x.raw), x.raw.seconds)),
                            D(x, "bandwidth_kb_per_second", Persec(x.raw.weight, x.raw.seconds)),
                            D(x, "io_size_kb", Ratio(x.raw.weight, Occurrences(x.raw)))}
                       [] x.suffix = "Latency" ->
                           {D(x, "latency", Ratio(x.raw.weight, Occurrences(x.raw)))}
                       [] OTHER -> {Sample(type, x.op, labels, <<x.raw.number, 1>>)}
<1>1. PICK x \in stats : s \in Of(x)  BY DEF DeriveSamples
<1>2. /\ Value1(x, "iops") = Persec(Occurrences(x.raw), x.raw.seconds)
      /\ Value1(x, "bandwidth_kb_per_second") = Persec(x.raw.weight, x.raw.seconds)
      /\ Value1(x, "io_size_kb") = Ratio(x.raw.weight, Occurrences(x.raw))
      /\ Value1(x, "latency") = Ratio(x.raw.weight, Occurrences(x.raw))
  BY DEF Value1
<1> HIDE DEF D
<1>3. CASE x.suffix = "Bwc"
  <2>1. \E field \in BwcFields : s = D(x, field, Value1(x, field))
    BY <1>1, <1>2, <1>3 DEF BwcFields
  <2> QED  BY <1>3, <2>1 DEF IsOf1, D
<1>4. CASE x.suffix = "Latency"
  <2>1. s = D(x, "latency", Value1(x, "latency"))  BY <1>1, <1>2, <1>4
  <2> QED  BY <1>4, <2>1 DEF IsOf1, D
<1>5. CASE x.suffix \notin {"Bwc", "Latency"}
  <2>1. s = Sample(type, x.op, labels, <<x.raw.number, 1>>)  BY <1>1, <1>5
  <2> QED  BY <1>5, <2>1 DEF IsOf1
<1> QED  BY <1>3, <1>4, <1>5

\* A sample of a Gen1 statistic has the form of a statistic.
LEMMA Gen1Form ==
    ASSUME NEW type, NEW labels, NEW stats, NamedApart(stats),
           NEW s, NEW x \in stats, IsOf1(s, type, labels, x)
    PROVE  StatForm(s, type, labels)
<1>1. CASE x.suffix = "Bwc"
  <2>1. PICK field \in BwcFields : s = Derived(type, field, labels, x.op, Direction(x), Value1(x, field))
    BY <1>1 DEF IsOf1
  <2>2. field \in DerivedFields  BY DEF BwcFields, DerivedFields
  <2> QED  BY <2>1, <2>2, DerivedForm
<1>2. CASE x.suffix = "Latency"
  <2>1. s = Derived(type, "latency", labels, x.op, Direction(x), Value1(x, "latency"))
    BY <1>2 DEF IsOf1
  <2>2. "latency" \in DerivedFields  BY DEF DerivedFields
  <2> QED  BY <2>1, <2>2, DerivedForm
<1>3. CASE x.suffix \notin {"Bwc", "Latency"}
  <2>1. s = Sample(type, x.op, labels, <<x.raw.number, 1>>)  BY <1>3 DEF IsOf1
  <2>2. x.op \notin DerivedFields \cup TakenFields  BY <1>3 DEF NamedApart, TakenFields
  <2> QED  BY <2>1, <2>2, ScalarForm
<1> QED  BY <1>1, <1>2, <1>3

\* A name and its labels determine the statistic, and with it the value.
LEMMA Gen1Unique ==
    ASSUME NEW type, NEW S, NEW labels \in Seq(S), NEW stats, NamedApart(stats),
           NEW p, NEW x \in stats, IsOf1(p, type, labels, x),
           NEW q, NEW y \in stats, IsOf1(q, type, labels, y),
           p.name = q.name, p.labels = q.labels
    PROVE  p = q
<1> DEFINE Acc(s, z) == \E field \in BwcFields \cup {"latency"} :
                /\ z.suffix = IF field = "latency" THEN "Latency" ELSE "Bwc"
                /\ s = Sample(type, field, labels \o Extra(z.op, Direction(z)), Value1(z, field))
           Sca(s, z) == /\ z.suffix \notin {"Bwc", "Latency"}
                        /\ s = Sample(type, z.op, labels, <<z.raw.number, 1>>)
<1>1. ASSUME NEW s, NEW z \in stats, IsOf1(s, type, labels, z) PROVE Acc(s, z) \/ Sca(s, z)
  <2>1. ASSUME NEW field \in BwcFields \cup {"latency"},
               s = Derived(type, field, labels, z.op, Direction(z), Value1(z, field)),
               z.suffix = IF field = "latency" THEN "Latency" ELSE "Bwc"
        PROVE  Acc(s, z)
    <3>1. field \in DerivedFields  BY DEF BwcFields, DerivedFields
    <3>2. s = Sample(type, field, labels \o Extra(z.op, Direction(z)), Value1(z, field))
      BY <2>1, <3>1, DerivedForm
    <3> QED  BY <2>1, <3>2
  <2>2. CASE z.suffix = "Bwc"
    <3>1. PICK field \in BwcFields : s = Derived(type, field, labels, z.op, Direction(z), Value1(z, field))
      BY <1>1, <2>2 DEF IsOf1
    <3>2. field # "latency"  BY DEF BwcFields
    <3> HIDE DEF Acc
    <3> QED  BY <2>1, <2>2, <3>1, <3>2
  <2>3. CASE z.suffix = "Latency"
    <3>1. s = Derived(type, "latency", labels, z.op, Direction(z), Value1(z, "latency"))
      BY <1>1, <2>3 DEF IsOf1
    <3> HIDE DEF Acc
    <3> QED  BY <2>1, <2>3, <3>1
  <2>4. CASE z.suffix \notin {"Bwc", "Latency"}  BY <1>1, <2>4 DEF IsOf1
  <2> QED  BY <2>2, <2>3, <2>4
<1>2. ASSUME Acc(p, x), Acc(q, y) PROVE p = q
  <2>1. PICK f \in BwcFields \cup {"latency"} :
            /\ x.suffix = IF f = "latency" THEN "Latency" ELSE "Bwc"
            /\ p = Sample(type, f, labels \o Extra(x.op, Direction(x)), Value1(x, f))
    BY <1>2
  <2>2. PICK g \in BwcFields \cup {"latency"} :
            /\ y.suffix = IF g = "latency" THEN "Latency" ELSE "Bwc"
            /\ q = Sample(type, g, labels \o Extra(y.op, Direction(y)), Value1(y, g))
    BY <1>2
  <2>3. f = g /\ labels \o Extra(x.op, Direction(x)) = labels \o Extra(y.op, Direction(y))
    BY <2>1, <2>2 DEF Sample
  <2>4. x.op = y.op /\ Direction(x) = Direction(y)  BY <2>3, ExtraTold
  <2>5. x.suffix = y.suffix /\ x.suffix \in {"Bwc", "Latency"}  BY <2>1, <2>2, <2>3
  <2>6. x.dir = y.dir  BY <2>4, <2>5 DEF NamedApart, Direction
  <2>7. x = y  BY <2>4, <2>5, <2>6 DEF NamedApart, StatName
  <2> QED  BY <2>1, <2>2, <2>3, <2>7
<1>3. ASSUME Sca(p, x), Sca(q, y) PROVE p = q
  <2>1. x.op = y.op  BY <1>3 DEF Sample
  <2>2. x.suffix = y.suffix /\ x.dir = y.dir  BY <1>3 DEF NamedApart
  <2>3. x = y  BY <2>1, <2>2 DEF NamedApart, StatName
  <2> QED  BY <1>3, <2>3
<1>4. ASSUME NEW s, NEW t, NEW u \in stats, NEW v \in stats, Acc(s, u), Sca(t, v) PROVE s.name # t.name
  <2>1. v.op \notin DerivedFields  BY <1>4 DEF NamedApart
  <2>2. t.name[2] = v.op  BY <1>4 DEF Sample
  <2>3. s.name[2] \in DerivedFields  BY <1>4 DEF Sample, BwcFields, DerivedFields
  <2> QED  BY <2>1, <2>2, <2>3
<1>5. (Acc(p, x) \/ Sca(p, x)) /\ (Acc(q, y) \/ Sca(q, y))  BY <1>1
<1> HIDE DEF Acc, Sca
<1> QED  BY <1>2, <1>3, <1>4, <1>5

-----------------------------------------------------------------------------
(* The same for Gen2.                                                       *)

Kinds == {"iops", "bw", "iosize", "latency"}
MetricForm(m) ==
    \/ \E kind \in Kinds : \E op, direction : m = <<kind, op, direction>>
    \/ \E name : name \notin DerivedFields \cup TakenFields /\ m = <<"scalar", name, "">>

\* The metrics of an I/O family are read as derived ones.
LEMMA FamilyForm ==
    ASSUME NEW kinds, NEW ops, NEW directions, kinds \subseteq Kinds,
           NEW m \in Family(kinds, ops, directions)
    PROVE  MetricForm(m)
<1>1. PICK kind \in kinds, op \in ops, direction \in directions : m = <<kind, op, direction>>
  BY DEF Family
<1> QED  BY <1>1, Zenon DEF MetricForm

\* The scalar metrics whose names nothing else takes are read as scalars.
LEMMA ScalarsForm ==
    ASSUME NEW names, names \cap (DerivedFields \cup TakenFields) = {}, NEW m \in Scalars(names)
    PROVE  MetricForm(m)
<1>1. PICK n \in names : m = <<"scalar", n, "">>  BY DEF Scalars
<1>2. n \notin DerivedFields \cup TakenFields  OBVIOUS
<1> QED  BY <1>1, <1>2, Zenon DEF MetricForm

\* The gauges of every capacity list are scalars of names nothing else takes.
LEMMA GaugesForm ==
    \A m \in PhysicalGauges \cup LogicalGauges \cup RatioGauges \cup RawGauges \cup SpareGauges :
        MetricForm(m)
<1> USE ScalarsForm, TakenAre DEF DerivedFields
<1>1. \A m \in PhysicalGauges : MetricForm(m)  BY DEF PhysicalGauges
<1>2. \A m \in LogicalGauges : MetricForm(m)  BY DEF LogicalGauges
<1>3. \A m \in RatioGauges : MetricForm(m)  BY DEF RatioGauges
<1>4. \A m \in RawGauges : MetricForm(m)  BY DEF RawGauges
<1>5. \A m \in SpareGauges : MetricForm(m)  BY DEF SpareGauges
<1> QED  BY <1>1, <1>2, <1>3, <1>4, <1>5

\* So every metric asked of a Gen2 resource is read in one of the two ways.
LEMMA V5Form ==
    ASSUME NEW type \in BuilderTypes["gen2"] \cup {"System"}, NEW m \in V5Metrics[type]
    PROVE  MetricForm(m)
<1>1. type \in {"System", "StorageNode", "Device", "Volume", "StoragePool", "Sdc", "DeviceGroup",
                "ProtectionDomain", "Sdt"}
  BY DEF BuilderTypes
<1>2. /\ IO \subseteq Kinds /\ IO \cup {"latency"} \subseteq Kinds /\ IO \cup {"iosize", "latency"} \subseteq Kinds
      /\ {"iosize"} \subseteq Kinds /\ {"iosize", "latency"} \subseteq Kinds
      /\ {"latency"} \subseteq Kinds /\ {"bw"} \subseteq Kinds
  BY DEF IO, Kinds
<1>3. \A k \in ControllerLatency : MetricForm(k)  BY <1>2, FamilyForm DEF ControllerLatency
<1>4. /\ \A k \in Scalars({"raw_total"}) : MetricForm(k)
      /\ \A k \in Scalars({"logical_used", "logical_provisioned"}) : MetricForm(k)
      /\ \A k \in Scalars({"raw_used", "over_provisioning_limit", "utilization_ratio"}) : MetricForm(k)
      /\ \A k \in Scalars({"raw_rebuild", "raw_health_degraded", "raw_health_degraded_critical",
                      "raw_health_failed"}) : MetricForm(k)
  BY ScalarsForm, TakenAre DEF DerivedFields
<1>5. CASE type = "System"
  <2>1. m \in V5System  BY <1>5 DEF V5Metrics
  <2> QED  BY <1>2, <1>3, <2>1, FamilyForm, GaugesForm DEF V5System
<1>6. CASE type = "StorageNode"
  <2>1. m \in V5StorageNode  BY <1>6 DEF V5Metrics
  <2> QED  BY <1>2, <1>4, <2>1, FamilyForm DEF V5StorageNode
<1>7. CASE type = "Device"
  <2>1. m \in V5Device  BY <1>7 DEF V5Metrics
  <2> QED  BY <1>2, <1>4, <2>1, FamilyForm DEF V5Device
<1>8. CASE type = "Volume"
  <2>1. m \in V5Volume  BY <1>8 DEF V5Metrics
  <2> QED  BY <1>2, <1>4, <2>1, FamilyForm DEF V5Volume
<1>9. CASE type = "StoragePool"
  <2>1. m \in V5StoragePool  BY <1>9 DEF V5Metrics
  <2> QED  BY <1>2, <1>4, <2>1, FamilyForm, GaugesForm DEF V5StoragePool
<1>10. CASE type = "Sdc"
  <2>1. m \in V5Sdc  BY <1>10 DEF V5Metrics
  <2> QED  BY <1>2, <1>3, <2>1, FamilyForm DEF V5Sdc
<1>11. CASE type = "DeviceGroup"
  <2>1. m \in V5DeviceGroup  BY <1>11 DEF V5Metrics
  <2> QED  BY <1>2, <1>4, <2>1, FamilyForm, GaugesForm DEF V5DeviceGroup
<1>12. CASE type = "ProtectionDomain"
  <2>1. m \in V5ProtectionDomain  BY <1>12 DEF V5Metrics
  <2> QED  BY <1>2, <2>1, FamilyForm, GaugesForm DEF V5ProtectionDomain
<1>13. CASE type = "Sdt"
  <2>1. m \in ControllerLatency  BY <1>13 DEF V5Metrics
  <2> QED  BY <1>3, <2>1
<1> QED  BY <1>1, <1>5, <1>6, <1>7, <1>8, <1>9, <1>10, <1>11, <1>12, <1>13

\* A resource has one metric of a name.
OneOfEach(stats) == \A x, y \in stats : x.metric = y.metric => x = y

\* The sample of one Gen2 metric.
IsOf2(s, type, labels, x) ==
    \/ \E kind \in Kinds : \E op, direction :
        /\ x.metric = <<kind, op, direction>>
        /\ s = Derived(type, V5Field[kind], labels, op, direction, <<x.value, 1>>)
    \/ \E name :
        /\ name \notin DerivedFields \cup TakenFields
        /\ x.metric = <<"scalar", name, "">>
        /\ s = Sample(type, name, labels, <<x.value, 1>>)

\* What deriveSamplesV5 emits is the sample of one of the Gen2 metrics.
LEMMA Gen2Parts ==
    ASSUME NEW type \in BuilderTypes["gen2"] \cup {"System"}, NEW labels, NEW stats,
           NEW s \in DeriveSamplesV5(type, labels, stats)
    PROVE  \E x \in stats : IsOf2(s, type, labels, x)
<1>1. PICK x \in stats :
          /\ x.metric \in V5Metrics[type]
          /\ s = IF x.metric[1] = "scalar" THEN Sample(type, x.metric[2], labels, <<x.value, 1>>)
                 ELSE Derived(type, V5Field[x.metric[1]], labels, x.metric[2], x.metric[3], <<x.value, 1>>)
  BY DEF DeriveSamplesV5
<1>2. MetricForm(x.metric)  BY <1>1, V5Form
<1>3. CASE \E kind \in Kinds : \E op, direction : x.metric = <<kind, op, direction>>
  <2>1. PICK kind \in Kinds : \E op, direction : x.metric = <<kind, op, direction>>  BY <1>3
  <2>2. PICK op, direction : x.metric = <<kind, op, direction>>  BY <2>1
  <2>3. x.metric[1] = kind /\ x.metric[2] = op /\ x.metric[3] = direction  BY <2>2
  <2>4. kind # "scalar"  BY DEF Kinds
  <2>5. s = Derived(type, V5Field[kind], labels, op, direction, <<x.value, 1>>)
    BY <1>1, <2>3, <2>4
  <2> QED  BY <2>2, <2>5, Zenon DEF IsOf2
<1>4. CASE \E name : name \notin DerivedFields \cup TakenFields /\ x.metric = <<"scalar", name, "">>
  <2>1. PICK name : name \notin DerivedFields \cup TakenFields /\ x.metric = <<"scalar", name, "">>
    BY <1>4
  <2> DEFINE kind == "scalar"
             direction == ""
  <2>2. x.metric[1] = kind /\ x.metric[2] = name
    <3>1. x.metric = <<kind, name, direction>>  BY <2>1, Zenon
    <3> HIDE DEF kind, direction
    <3> QED  BY <3>1
  <2>3. s = Sample(type, name, labels, <<x.value, 1>>)  BY <1>1, <2>2
  <2> QED  BY <2>1, <2>3, Zenon DEF IsOf2
<1> QED  BY <1>2, <1>3, <1>4 DEF MetricForm

\* Metrics of different kinds are exported under different derived fields.
LEMMA V5FieldsDiffer ==
    /\ \A kind \in Kinds : V5Field[kind] \in DerivedFields
    /\ \A k, l \in Kinds : V5Field[k] = V5Field[l] => k = l
<1>1. /\ V5Field["iops"] = "iops" /\ V5Field["bw"] = "bandwidth_bytes_per_second"
      /\ V5Field["iosize"] = "io_size_bytes" /\ V5Field["latency"] = "latency_microseconds"
  BY DEF V5Field
<1> QED  BY <1>1 DEF Kinds, DerivedFields

\* A sample of a Gen2 metric has the form of a statistic.
LEMMA Gen2Form ==
    ASSUME NEW type, NEW labels, NEW s, NEW x, IsOf2(s, type, labels, x)
    PROVE  StatForm(s, type, labels)
<1>1. ASSUME NEW kind \in Kinds, NEW op, NEW direction,
             s = Derived(type, V5Field[kind], labels, op, direction, <<x.value, 1>>)
      PROVE  StatForm(s, type, labels)
  BY <1>1, V5FieldsDiffer, DerivedForm
<1>2. ASSUME NEW name, name \notin DerivedFields \cup TakenFields,
             s = Sample(type, name, labels, <<x.value, 1>>)
      PROVE  StatForm(s, type, labels)
  BY <1>2, ScalarForm
<1> QED  BY <1>1, <1>2 DEF IsOf2

\* A name and its labels determine the Gen2 metric, and with it the value.
LEMMA Gen2Unique ==
    ASSUME NEW type, NEW S, NEW labels \in Seq(S), NEW stats, OneOfEach(stats),
           NEW p, NEW x \in stats, IsOf2(p, type, labels, x),
           NEW q, NEW y \in stats, IsOf2(q, type, labels, y),
           p.name = q.name, p.labels = q.labels
    PROVE  p = q
<1> DEFINE Acc(s, z) == \E kind \in Kinds : \E op, direction :
                /\ z.metric = <<kind, op, direction>>
                /\ s = Sample(type, V5Field[kind], labels \o Extra(op, direction), <<z.value, 1>>)
           Sca(s, z) == \E name :
                /\ name \notin DerivedFields /\ z.metric = <<"scalar", name, "">>
                /\ s = Sample(type, name, labels, <<z.value, 1>>)
<1>1. ASSUME NEW s, NEW z, IsOf2(s, type, labels, z) PROVE Acc(s, z) \/ Sca(s, z)
  <2>1. ASSUME NEW kind \in Kinds, NEW op, NEW direction, z.metric = <<kind, op, direction>>,
               s = Derived(type, V5Field[kind], labels, op, direction, <<z.value, 1>>)
        PROVE  Acc(s, z)
    <3>1. s = Sample(type, V5Field[kind], labels \o Extra(op, direction), <<z.value, 1>>)
      BY <2>1, V5FieldsDiffer, DerivedForm
    <3> QED  BY <2>1, <3>1
  <2>2. ASSUME NEW name, name \notin DerivedFields \cup TakenFields, z.metric = <<"scalar", name, "">>,
               s = Sample(type, name, labels, <<z.value, 1>>)
        PROVE  Sca(s, z)
    BY <2>2
  <2> HIDE DEF Acc, Sca
  <2> QED  BY <1>1, <2>1, <2>2 DEF IsOf2
<1>2. ASSUME Acc(p, x), Acc(q, y) PROVE p = q
  <2>1. PICK k \in Kinds : \E op, direction :
            /\ x.metric = <<k, op, direction>>
            /\ p = Sample(type, V5Field[k], labels \o Extra(op, direction), <<x.value, 1>>)
    BY <1>2
  <2>2. PICK o1, d1 : /\ x.metric = <<k, o1, d1>>
                      /\ p = Sample(type, V5Field[k], labels \o Extra(o1, d1), <<x.value, 1>>)
    BY <2>1
  <2>3. PICK l \in Kinds : \E op, direction :
            /\ y.metric = <<l, op, direction>>
            /\ q = Sample(type, V5Field[l], labels \o Extra(op, direction), <<y.value, 1>>)
    BY <1>2
  <2>4. PICK o2, d2 : /\ y.metric = <<l, o2, d2>>
                      /\ q = Sample(type, V5Field[l], labels \o Extra(o2, d2), <<y.value, 1>>)
    BY <2>3
  <2>5. V5Field[k] = V5Field[l] /\ labels \o Extra(o1, d1) = labels \o Extra(o2, d2)
    BY <2>2, <2>4 DEF Sample
  <2>6. o1 = o2 /\ d1 = d2 /\ k = l  BY <2>5, ExtraTold, V5FieldsDiffer
  <2>7. x = y  BY <2>2, <2>4, <2>6 DEF OneOfEach
  <2> QED  BY <2>2, <2>4, <2>6, <2>7
<1>3. ASSUME Sca(p, x), Sca(q, y) PROVE p = q
  <2>1. PICK n1 : /\ x.metric = <<"scalar", n1, "">>
                  /\ p = Sample(type, n1, labels, <<x.value, 1>>)
    BY <1>3
  <2>2. PICK n2 : /\ y.metric = <<"scalar", n2, "">>
                  /\ q = Sample(type, n2, labels, <<y.value, 1>>)
    BY <1>3
  <2>3. n1 = n2  BY <2>1, <2>2 DEF Sample
  <2>4. x = y  BY <2>1, <2>2, <2>3 DEF OneOfEach
  <2> QED  BY <2>1, <2>2, <2>3, <2>4
<1>4. ASSUME NEW s, NEW t, NEW u, NEW v, Acc(s, u), Sca(t, v) PROVE s.name # t.name
  <2>1. PICK k \in Kinds : \E op, direction :
            s = Sample(type, V5Field[k], labels \o Extra(op, direction), <<u.value, 1>>)
    BY <1>4
  <2>2. s.name[2] = V5Field[k]  BY <2>1 DEF Sample
  <2>3. PICK n : n \notin DerivedFields /\ t = Sample(type, n, labels, <<v.value, 1>>)
    BY <1>4
  <2>4. t.name[2] = n  BY <2>3 DEF Sample
  <2> QED  BY <2>2, <2>3, <2>4, V5FieldsDiffer
<1>5. (Acc(p, x) \/ Sca(p, x)) /\ (Acc(q, y) \/ Sca(q, y))  BY <1>1
<1> HIDE DEF Acc, Sca
<1> QED  BY <1>2, <1>3, <1>4, <1>5

-----------------------------------------------------------------------------
(* The statistics of a cycle.                                               *)

\* The greatest index of a set of indices is one of them.
LEMMA LastIndex ==
    ASSUME NEW n \in Nat, NEW S, S \subseteq 1 .. n, S # {}
    PROVE  Max(S) \in S
<1> DEFINE Up(i) == {j \in S : i <= j}
           T == {Up(i) : i \in S}
<1>1. IsFiniteSet(S)
  <2>1. IsFiniteSet(1 .. n)  BY FS_Interval
  <2> QED  BY <2>1, FS_Subset
<1>2. FiniteSubsetsOf(S) = SUBSET S  BY <1>1, FS_FiniteSubsetsOfFinite
<1>3. T \subseteq SUBSET S /\ T # {}  OBVIOUS
<1>4. PICK U \in T : \A V \in T : ~ (<<V, U>> \in StrictSubsetOrdering(S))
  <2> HIDE DEF T
  <2> QED  BY <1>2, <1>3, FS_StrictSubsetOrderingWellFounded, WFMin
<1>5. PICK i \in S : U = Up(i)  BY <1>4
<1>6. \A j \in S : i >= j
  <2> SUFFICES ASSUME NEW j \in S, ~(i >= j) PROVE FALSE  OBVIOUS
  <2>0. i \in Int /\ j \in Int /\ S \subseteq Int  OBVIOUS
  <2>1. ASSUME NEW k \in S, j <= k PROVE i <= k  BY <2>0, <2>1
  <2>2. i \in Up(i) /\ i \notin Up(j)  BY <2>0
  <2>3. Up(j) \in T /\ Up(j) \in SUBSET S /\ Up(i) \in SUBSET S  OBVIOUS
  <2>5. Up(j) \subseteq Up(i)  BY <2>1
  <2> HIDE DEF Up, T
  <2>4. <<Up(j), Up(i)>> \in StrictSubsetOrdering(S)
    BY <2>2, <2>3, <2>5 DEF StrictSubsetOrdering
  <2> QED  BY <1>4, <1>5, <2>3, <2>4
<1>7. (CHOOSE x \in S : \A y \in S : x >= y) \in S  BY <1>5, <1>6, Zenon
<1> QED  BY <1>7 DEF Max

Good(gen, stats) ==
    \A t \in DOMAIN stats : \A id \in DOMAIN stats[t] :
        IF gen = "gen1" THEN NamedApart(stats[t][id]) ELSE OneOfEach(stats[t][id])

\* Merging the responses of the statistics calls keeps names apart.
LEMMA MergeGood ==
    ASSUME NEW responses,
           \A r \in responses : \A t \in DOMAIN r : \A id \in DOMAIN r[t] : NamedApart(r[t][id])
    PROVE  Good("gen1", Merge(responses))
<1> DEFINE Having(t, id) == {r \in responses : t \in DOMAIN r /\ id \in DOMAIN r[t]}
           Ids(t) == UNION {DOMAIN r[t] : r \in {x \in responses : t \in DOMAIN x}}
           Of(t, id) == CHOOSE r \in Having(t, id) : TRUE
           ts == UNION {DOMAIN r : r \in responses}
<1>1. Merge(responses) = [t \in ts |-> [id \in Ids(t) |-> Of(t, id)[t][id]]]  BY Zenon DEF Merge
<1>2. ASSUME NEW t \in ts, NEW id \in Ids(t) PROVE NamedApart(Merge(responses)[t][id])
  <2>1. Having(t, id) # {}  OBVIOUS
  <2>2. Of(t, id) \in Having(t, id)
    <3> HIDE DEF Having
    <3> QED  BY <2>1, Zenon
  <2>3. Merge(responses)[t][id] = Of(t, id)[t][id]
    <3> HIDE DEF Of, Ids, ts
    <3> QED  BY <1>1
  <2> HIDE DEF Of
  <2> QED  BY <2>2, <2>3
<1>3. DOMAIN Merge(responses) = ts /\ \A t \in ts : DOMAIN Merge(responses)[t] = Ids(t)
  <2> HIDE DEF Of, Ids, ts
  <2> QED  BY <1>1
<1> HIDE DEF Of, Ids, ts
<1> QED  BY <1>2, <1>3 DEF Good

\* The last entry of a resource stands for it, with one metric of each name.
LEMMA ParseGood ==
    ASSUME NEW resources, Len(resources) \in Nat, DOMAIN resources = 1 .. Len(resources),
           \A r \in Range(resources) : \A m, n \in r.metrics : m.metric = n.metric => m = n,
           NEW id \in DOMAIN ParseV5(resources)
    PROVE  OneOfEach(ParseV5(resources)[id])
<1> DEFINE mine == {i \in DOMAIN resources : resources[i].id = id}
           r == resources[Max(mine)]
<1>1. id \in {x.id : x \in Range(resources)}  BY DEF ParseV5
<1>2. mine # {} /\ mine \subseteq 1 .. Len(resources)  BY <1>1 DEF Range
<1>3. r \in Range(resources)
  <2> HIDE DEF mine
  <2>1. Max(mine) \in mine  BY <1>2, LastIndex
  <2>2. Max(mine) \in DOMAIN resources  BY <2>1 DEF mine
  <2> QED  BY <2>2 DEF Range
<1>4. ParseV5(resources)[id] =
          {[metric |-> m.metric, value |-> Head(m.values)] : m \in {x \in r.metrics : x.values # <<>>}}
  BY <1>1 DEF ParseV5
<1> HIDE DEF r
<1> QED  BY <1>3, <1>4 DEF OneOfEach

\* The statistics of a sound answer name each statistic of an object once.
LEMMA StatsGood ==
    ASSUME NEW c \in Clusters, NEW n \in DOMAIN Gateway[c], Gateway[c][n].ok,
           Path(Gateway[c][n]) # "none"
    PROVE  Good(Path(Gateway[c][n]), Stats(c, Gateway[c][n], Path(Gateway[c][n])))
<1> DEFINE a == Gateway[c][n]
           p == Path(a)
<1>1. Sound(a)  BY GatewayAssumption
<1> HIDE DEF a
<1>2. p \in {"gen1", "gen2"} /\ a[p].ok
  <2> DEFINE first == IF DetectGeneration(a.in) = "gen2" THEN "gen2" ELSE "gen1"
             other == IF first = "gen2" THEN "gen1" ELSE "gen2"
  <2>1. p = IF ~a.ok THEN "none"
            ELSE IF a[first].ok THEN first ELSE IF a[other].ok THEN other ELSE "none"
    BY Zenon DEF Path
  <2>2. p \in {"gen1", "gen2"}  BY PathKinds DEF a
  <2> HIDE DEF first, other, p
  <2> QED  BY <2>1, <2>2
<1> HIDE DEF p
<1>3. CASE p = "gen1"
  <2>1. a.gen1.ok  BY <1>2, <1>3
  <2>2. Good("gen1", Merge(a.gen1.stats))  BY <1>1, <2>1, MergeGood DEF Sound
  <2>3. Stats(c, a, p) = Merge(a.gen1.stats)  BY <1>3 DEF Stats
  <2> QED  BY <1>3, <2>2, <2>3 DEF p, a
<1>4. CASE p = "gen2"
  <2>1. a.gen2.ok  BY <1>2, <1>4
  <2>2. Stats(c, a, p) = [t \in DOMAIN a.gen2.stats \ Skip(c) |-> ParseV5(a.gen2.stats[t])]
    BY <1>4 DEF Stats
  <2>3. ASSUME NEW t \in DOMAIN a.gen2.stats, NEW id \in DOMAIN ParseV5(a.gen2.stats[t])
        PROVE  OneOfEach(ParseV5(a.gen2.stats[t])[id])
    BY <1>1, <2>1, <2>3, ParseGood DEF Sound
  <2>4. Good("gen2", Stats(c, a, p))  BY <2>2, <2>3 DEF Good
  <2> QED  BY <1>4, <2>4 DEF p, a
<1> QED  BY <1>2, <1>3, <1>4

IsOf(gen, s, type, labels, x) ==
    IF gen = "gen1" THEN IsOf1(s, type, labels, x) ELSE IsOf2(s, type, labels, x)

\* A statistic is one of an object whose statistics are derived, and of one of them.
LEMMA StatParts ==
    ASSUME NEW gen \in {"gen1", "gen2"}, NEW c, NEW in, NEW stats, NEW enriched,
           NEW s \in StatSamples(gen, c, in, stats, enriched)
    PROVE  \E t \in BuilderTypes[gen] \cup {"System"} : \E o \in Derivable(gen, in, stats, t) :
               \E x \in stats[t][StatsKey(gen, t, o)] :
                   IsOf(gen, s, t, StatLabels(gen, c, in, enriched, t, o), x)
<1> DEFINE labels(t, o) == StatLabels(gen, c, in, enriched, t, o)
           raw(t, o) == stats[t][StatsKey(gen, t, o)]
<1>1. PICK t \in BuilderTypes[gen] \cup {"System"} :
          s \in UNION {IF gen = "gen1" THEN DeriveSamples(t, labels(t, o), raw(t, o))
                       ELSE DeriveSamplesV5(t, labels(t, o), raw(t, o)) :
                       o \in Derivable(gen, in, stats, t)}
  BY DEF StatSamples
<1>2. PICK o \in Derivable(gen, in, stats, t) :
          s \in IF gen = "gen1" THEN DeriveSamples(t, labels(t, o), raw(t, o))
                ELSE DeriveSamplesV5(t, labels(t, o), raw(t, o))
  BY <1>1, Zenon
<1> HIDE DEF labels, raw
<1>3. \E x \in raw(t, o) : IsOf(gen, s, t, labels(t, o), x)
  <2>1. CASE gen = "gen1"  BY <1>2, <2>1, Gen1Parts DEF IsOf
  <2>2. CASE gen = "gen2"  BY <1>2, <2>2, Gen2Parts DEF IsOf
  <2> QED  BY <2>1, <2>2
<1> QED  BY <1>3, Zenon DEF labels, raw

\* Of either generation, a statistic has the form of a statistic.
LEMMA IsOfForm ==
    ASSUME NEW gen \in {"gen1", "gen2"}, NEW in, NEW stats, Good(gen, stats), NEW t,
           NEW o \in Derivable(gen, in, stats, t), NEW labels, NEW s,
           NEW x \in stats[t][StatsKey(gen, t, o)], IsOf(gen, s, t, labels, x)
    PROVE  StatForm(s, t, labels)
<1>1. t \in DOMAIN stats /\ StatsKey(gen, t, o) \in DOMAIN stats[t]
  BY DEF Derivable, HasStats
<1>2. CASE gen = "gen1"  BY <1>1, <1>2, Gen1Form DEF Good, IsOf
<1>3. CASE gen = "gen2"  BY <1>3, Gen2Form DEF IsOf
<1> QED  BY <1>2, <1>3

\* Of either generation, a name and its labels determine the statistic.
LEMMA IsOfUnique ==
    ASSUME NEW gen \in {"gen1", "gen2"}, NEW in, NEW stats, Good(gen, stats), NEW t,
           NEW o \in Derivable(gen, in, stats, t), NEW S, NEW labels \in Seq(S),
           NEW p, NEW x \in stats[t][StatsKey(gen, t, o)], IsOf(gen, p, t, labels, x),
           NEW q, NEW y \in stats[t][StatsKey(gen, t, o)], IsOf(gen, q, t, labels, y),
           p.name = q.name, p.labels = q.labels
    PROVE  p = q
<1>1. t \in DOMAIN stats /\ StatsKey(gen, t, o) \in DOMAIN stats[t]
  BY DEF Derivable, HasStats
<1> DEFINE raw == stats[t][StatsKey(gen, t, o)]
<1>2. CASE gen = "gen1"
  <2>1. NamedApart(raw) /\ IsOf1(p, t, labels, x) /\ IsOf1(q, t, labels, y)
    BY <1>1, <1>2 DEF Good, IsOf
  <2> HIDE DEF raw
  <2> QED  BY <2>1, Gen1Unique DEF raw
<1>3. CASE gen = "gen2"
  <2>1. OneOfEach(raw) /\ IsOf2(p, t, labels, x) /\ IsOf2(q, t, labels, y)
    BY <1>1, <1>3 DEF Good, IsOf
  <2> HIDE DEF raw
  <2> QED  BY <2>1, Gen2Unique DEF raw
<1> QED  BY <1>2, <1>3

-----------------------------------------------------------------------------
(* Health: the gauges of a snapshot are those of the fetched instance list. *)

Resolving(gen, in, t) == {o \in Range(Objects(in, t)) : Resolved(gen, in, t, o)}
Gauge(gen, c, in, t, o) ==
    Sample(t, "health", ObjectLabels(gen, c, in, t, o), <<Health(o, StateFields(gen)[t]), 1>>)
Gauges(gen, c, in, t) == {Gauge(gen, c, in, t, o) : o \in Resolving(gen, in, t)}
GaugesOf(samples, t) == {s \in samples : s.name = <<t, "health">>}

HealthOK(c, r) ==
    r.up =>
        LET a == Gateway[c][r.answer]
        IN /\ r.answer \in DOMAIN Gateway[c] /\ a.ok /\ Path(a) \in {"gen1", "gen2"}
           /\ \A t \in DOMAIN StateFields(Path(a)) : GaugesOf(r.samples, t) = Gauges(Path(a), c, a.in, t)

HealthInv == \A c \in Clusters : HealthOK(c, result[c]) /\ HealthOK(c, store[c])

\* The names of a state metric and of an inventory sample.
LEMMA InventoryNamed ==
    ASSUME NEW c, NEW in, NEW s \in InventorySamples(c, in)
    PROVE  s.name[2] \in Range(InventoryField) /\ ~IsStateMetric(s.name)
<1>1. PICK k \in DOMAIN InventoryField : \E labels, value : s = Sample("System", InventoryField[k], labels, value)
  <2> DEFINE F(x, k) == Sample("System", InventoryField[k], BaseLabels(c, in), <<x.counts[k], 1>>)
             systems == Range(Objects(in, "System"))
             ks == DOMAIN InventoryField
  <2>0. s \in {F(x, k) : x \in systems, k \in ks}  BY DEF InventorySamples
  <2>1. \E k \in ks : \E x \in systems : s = F(x, k)
    <3> HIDE DEF F, systems, ks
    <3> QED  BY <2>0
  <2> QED  BY <2>1, Zenon
<1>2. s.name[2] = InventoryField[k]
  <2> HIDE DEF InventoryField
  <2> QED  BY <1>1 DEF Sample
<1>3. InventoryField[k] \in {"num_of_volumes", "num_of_sds", "num_of_devices"}
  BY DEF InventoryField
<1>4. InventoryField[k] \in Range(InventoryField)
  <2> HIDE DEF InventoryField
  <2> QED  BY DEF Range
<1> QED  BY <1>2, <1>3, <1>4 DEF IsStateMetric, StateMetrics

\* A statistic is never named like a state metric or an inventory sample.
LEMMA StatNamed ==
    ASSUME NEW gen \in {"gen1", "gen2"}, NEW c, NEW in, NEW stats, Good(gen, stats), NEW enriched,
           NEW s \in StatSamples(gen, c, in, stats, enriched)
    PROVE  s.name[2] \notin Range(InventoryField) /\ ~IsStateMetric(s.name)
<1>1. PICK t \in BuilderTypes[gen] \cup {"System"} : \E o \in Derivable(gen, in, stats, t) :
               \E x \in stats[t][StatsKey(gen, t, o)] :
                   IsOf(gen, s, t, StatLabels(gen, c, in, enriched, t, o), x)
  BY StatParts
<1>2. PICK o \in Derivable(gen, in, stats, t) : \E x \in stats[t][StatsKey(gen, t, o)] :
                   IsOf(gen, s, t, StatLabels(gen, c, in, enriched, t, o), x)
  BY <1>1
<1>3. PICK x \in stats[t][StatsKey(gen, t, o)] :
                   IsOf(gen, s, t, StatLabels(gen, c, in, enriched, t, o), x)
  BY <1>2
<1>4. StatForm(s, t, StatLabels(gen, c, in, enriched, t, o))  BY <1>3, IsOfForm
<1>5. s.name[2] \notin TakenFields  BY <1>4, Zenon DEF StatForm
<1> QED  BY <1>5, Zenon DEF TakenFields, IsStateMetric

\* The gauges among the state samples.
LEMMA StateGauges ==
    ASSUME NEW gen, NEW c, NEW in, NEW t \in DOMAIN StateFields(gen)
    PROVE  GaugesOf(DeriveStateSamples(gen, c, in), t) = Gauges(gen, c, in, t)
<1> DEFINE Info(u, o) == Sample(u, "info", ObjectLabels(gen, c, in, u, o)
                            \o [i \in DOMAIN StateFields(gen)[u] |->
                                   <<StateFields(gen)[u][i], o.states[StateFields(gen)[u][i]]>>], <<1, 1>>)
           Pair(u, o) == {Gauge(gen, c, in, u, o), Info(u, o)}
<1>1. \A u : EmitState(gen, c, in, u) = UNION {Pair(u, o) : o \in Resolving(gen, in, u)}
  BY Zenon DEF EmitState, Resolving, Gauge
<1>2. \A u, o : Info(u, o).name = <<u, "info">> /\ Gauge(gen, c, in, u, o).name = <<u, "health">>
  BY DEF Sample, Gauge
<1> HIDE DEF Info
<1>3. ASSUME NEW s \in VolumeMappingSamples(gen, c, in) PROVE s.name = <<"Volume", "mapped_sdc">>
  <2>1. \E labels, value : s = Sample("Volume", "mapped_sdc", labels, value)
    BY DEF VolumeMappingSamples
  <2> QED  BY <2>1 DEF Sample
<1>4. ASSUME NEW u, NEW s \in EmitState(gen, c, in, u), s.name = <<t, "health">>
      PROVE  s \in Gauges(gen, c, in, t)
  <2>1. PICK o \in Resolving(gen, in, u) : s \in Pair(u, o)  BY <1>1, <1>4
  <2>2. s # Info(u, o)  BY <1>2, <1>4
  <2>3. s = Gauge(gen, c, in, u, o)  BY <2>1, <2>2
  <2>4. u = t  BY <1>2, <1>4, <2>3
  <2> QED  BY <2>1, <2>3, <2>4 DEF Gauges
<1>5. ASSUME NEW s \in Gauges(gen, c, in, t)
      PROVE  s \in EmitState(gen, c, in, t) /\ s.name = <<t, "health">>
  <2>1. PICK o \in Resolving(gen, in, t) : s = Gauge(gen, c, in, t, o)  BY DEF Gauges
  <2>2. s \in Pair(t, o)  BY <2>1
  <2> QED  BY <1>1, <1>2, <2>1, <2>2
<1> QED  BY <1>3, <1>4, <1>5 DEF DeriveStateSamples, GaugesOf

\* What a cycle collects has the health gauges of the instance list it fetched.
LEMMA CollectedHealth ==
    ASSUME NEW c \in Clusters, NEW j, j.answer \in DOMAIN Gateway[c]
    PROVE  HealthOK(c, Collected(c, j))
<1> DEFINE a == Gateway[c][j.answer]
           p == Path(a)
           r == Collected(c, j)
           stats == Stats(c, a, p)
<1> SUFFICES ASSUME r.up
             PROVE  /\ r.answer = j.answer /\ a.ok /\ p \in {"gen1", "gen2"}
                    /\ \A t \in DOMAIN StateFields(p) : GaugesOf(r.samples, t) = Gauges(p, c, a.in, t)
  <2> HIDE DEF r, p
  <2> QED  BY DEF HealthOK, r, p
<1>1. /\ r.answer = j.answer /\ a.ok /\ p \in {"gen1", "gen2"}
      /\ r.samples = BuildSamples(p, c, a.in, stats, j.enriched)
                        \cup IF p = "gen2" THEN ReusePrior(store[c].samples, Skip(c)) ELSE {}
  BY CollectedParts
<1>2. Good(p, stats)
  <2> HIDE DEF p
  <2>1. Path(a) # "none"  BY <1>1 DEF p
  <2> QED  BY <1>1, <2>1, StatsGood DEF p
<1> HIDE DEF a, p, r, stats
<1>3. ASSUME NEW t \in DOMAIN StateFields(p)
      PROVE  GaugesOf(r.samples, t) = GaugesOf(DeriveStateSamples(p, c, a.in), t)
  <2>1. ASSUME NEW s \in r.samples, s.name = <<t, "health">>
        PROVE  s \in DeriveStateSamples(p, c, a.in)
    <3>1. IsStateMetric(s.name)  BY <2>1 DEF IsStateMetric, StateMetrics
    <3>2. s \notin ReusePrior(store[c].samples, Skip(c))  BY <3>1 DEF ReusePrior
    <3>3. s \notin InventorySamples(c, a.in)  BY <3>1, InventoryNamed
    <3>4. s \notin StatSamples(p, c, a.in, stats, j.enriched)  BY <1>1, <1>2, <3>1, StatNamed
    <3> QED  BY <1>1, <3>2, <3>3, <3>4 DEF BuildSamples
  <2>2. DeriveStateSamples(p, c, a.in) \subseteq r.samples  BY <1>1 DEF BuildSamples
  <2> QED  BY <2>1, <2>2 DEF GaugesOf
<1> QED  BY <1>1, <1>3, StateGauges

\* What a sound instance list has under one id is one object.
LEMMA OneObject ==
    ASSUME NEW c \in Clusters, NEW n \in DOMAIN Gateway[c], Gateway[c][n].ok, NEW t,
           NEW o \in Range(Objects(Gateway[c][n].in, t)), NEW p \in Range(Objects(Gateway[c][n].in, t)),
           t = "System" \/ o.id = p.id
    PROVE  o = p
<1> DEFINE in == Gateway[c][n].in
<1>1. \A u \in DOMAIN in : \A x, y \in Range(in[u]) : u = "System" \/ x.id = y.id => x = y
  BY GatewayAssumption DEF Sound
<1>2. Range(<<>>) = {}  BY DEF Range
<1> HIDE DEF in
<1>3. o \in Range(Objects(in, t)) /\ p \in Range(Objects(in, t))  BY DEF in
<1>4. t \in DOMAIN in  BY <1>2, <1>3 DEF Objects
<1> QED  BY <1>1, <1>3, <1>4 DEF Objects

\* The objects with states are of types that have an identifying label.
LEMMA StatesIdentified == ASSUME NEW gen PROVE DOMAIN StateFields(gen) \subseteq DOMAIN IdKey
BY DEF StateFields, IdKey

\* Gauges computed of the fetched instance list are honest.
LEMMA HealthProper == HealthInv => HealthHonest
<1> SUFFICES ASSUME HealthInv, NEW c \in Clusters, store[c].up, NEW type \in DOMAIN Fields(c)
             PROVE  LET objects == Described(c, type)
                        gauges == HealthGauges(c, type)
                    IN /\ \A s \in gauges : \E o \in objects : {p \in objects : IsFor(s, c, type, p)} = {o}
                       /\ \A o \in objects : \E s \in gauges :
                            /\ {g \in gauges : IsFor(g, c, type, o)} = {s}
                            /\ Reported(c, type, o) # {} =>
                                /\ s.value[1] = 0 <=> Reported(c, type, o) \subseteq Healthy
                                /\ s.value[1] = 2 <=> ~ (Reported(c, type, o) \subseteq Healthy \cup Transitional)
  BY Zenon DEF HealthHonest
<1> DEFINE in == Answer(c).in
           gen == Path(Answer(c))
           objects == Described(c, type)
           gauges == HealthGauges(c, type)
           G(o) == Gauge(gen, c, in, type, o)
           L(o) == ObjectLabels(gen, c, in, type, o)
<1>1. /\ store[c].answer \in DOMAIN Gateway[c] /\ Answer(c).ok /\ gen \in {"gen1", "gen2"}
      /\ \A t \in DOMAIN StateFields(gen) : GaugesOf(store[c].samples, t) = Gauges(gen, c, in, t)
  <2>1. HealthOK(c, store[c])  BY DEF HealthInv
  <2> HIDE DEF gen
  <2> QED  BY <2>1 DEF HealthOK, Answer, gen
<1>2. type \in DOMAIN IdKey  BY StatesIdentified DEF Fields
<1>3. gauges = {G(o) : o \in objects}
  BY <1>1 DEF GaugesOf, Gauges, Resolving, HealthGauges, Described, Fields
<1>4. ASSUME NEW o \in objects, NEW p \in objects, Range(L(p)) \subseteq Range(L(o))
      PROVE  o = p
  <2>1. /\ o \in Range(Objects(in, type)) /\ Resolved(gen, in, type, o)
        /\ p \in Range(Objects(in, type)) /\ Resolved(gen, in, type, p)
    BY DEF Described
  <2>2. o.id = p.id
    <3> HIDE DEF in, gen
    <3> QED  BY <1>2, <1>4, <2>1, LabelsTellApart
  <2> HIDE DEF gen
  <2> QED  BY <1>1, <2>1, <2>2, OneObject DEF Answer
<1>5. \A o : G(o).labels = L(o) /\ G(o).value[1] = Health(o, Fields(c)[type])
  BY DEF Gauge, Sample, Fields
<1>6. \A o, p \in objects : IsFor(G(o), c, type, p) <=> o = p
  <2> SUFFICES ASSUME NEW o \in objects, NEW p \in objects
               PROVE  IsFor(G(o), c, type, p) <=> o = p
    OBVIOUS
  <2>1. IsFor(G(o), c, type, p) <=> Range(L(p)) \subseteq Range(L(o))
    <3>1. IsFor(G(o), c, type, p) <=> Range(L(p)) \subseteq Range(G(o).labels)  BY Zenon DEF IsFor
    <3> HIDE DEF G, L
    <3> QED  BY <1>5, <3>1
  <2> HIDE DEF in, gen, objects, G, L
  <2> QED  BY <1>4, <2>1
<1>7. \A o : /\ G(o).value[1] = 0 <=> Reported(c, type, o) \subseteq Healthy
             /\ G(o).value[1] = 2 <=> ~ (Reported(c, type, o) \subseteq Healthy \cup Transitional)
  <2> HIDE DEF in, gen, G
  <2> QED  BY <1>5, HealthWorst, Zenon DEF Reported
<1> HIDE DEF in, gen, objects, gauges, G, L
<1>8. ASSUME NEW s \in gauges PROVE \E o \in objects : {p \in objects : IsFor(s, c, type, p)} = {o}
  <2>1. PICK o \in objects : s = G(o)  BY <1>3
  <2>2. {p \in objects : IsFor(s, c, type, p)} = {o}  BY <1>6, <2>1
  <2> QED  BY <2>2
<1>9. ASSUME NEW o \in objects
      PROVE  \E s \in gauges :
                /\ {g \in gauges : IsFor(g, c, type, o)} = {s}
                /\ s.value[1] = 0 <=> Reported(c, type, o) \subseteq Healthy
                /\ s.value[1] = 2 <=> ~ (Reported(c, type, o) \subseteq Healthy \cup Transitional)
  <2>1. G(o) \in gauges  BY <1>3
  <2>2. {g \in gauges : IsFor(g, c, type, o)} = {G(o)}
    <3>1. ASSUME NEW g \in gauges, IsFor(g, c, type, o) PROVE g = G(o)
      BY <1>3, <1>6, <3>1
    <3>2. IsFor(G(o), c, type, o)  BY <1>6
    <3> QED  BY <2>1, <3>1, <3>2
  <2> QED  BY <1>7, <2>1, <2>2, Zenon
<1> QED  BY <1>8, <1>9, Zenon DEF objects, gauges

-----------------------------------------------------------------------------
(* Label names: which ones the labels of a sample have, in which order.      *)

\* A list of labels whose names are these, all different and all in K.
Keyed(list, keys, K) ==
    /\ keys \in Seq(K) /\ IsInjective(keys)
    /\ list \in Seq(Range(list)) /\ Len(list) = Len(keys)
    /\ \A i \in 1 .. Len(keys) : list[i] = <<keys[i], list[i][2]>>

\* Names in K are names in any larger set.
LEMMA KeyedAmong ==
    ASSUME NEW list, NEW keys, NEW K, NEW M, Keyed(list, keys, K), K \subseteq M
    PROVE  Keyed(list, keys, M)
BY DEF Keyed

\* No labels have no names.
LEMMA KeyedNone == ASSUME NEW K PROVE Keyed(<<>>, <<>>, K)
<1>1. <<>> \in Seq(K) /\ <<>> \in Seq(Range(<<>>)) /\ Len(<<>>) = 0 /\ DOMAIN <<>> = {}  OBVIOUS
<1> QED  BY <1>1 DEF Keyed, IsInjective

\* One label has its name.
LEMMA KeyedOne == ASSUME NEW key, NEW v PROVE Keyed(<< <<key, v>> >>, <<key>>, {key})
<1> DEFINE a == <<key, v>>
<1>1. a = <<key, a[2]>>  OBVIOUS
<1> HIDE DEF a
<1>2. ListOf(<<a>>, {a})  BY ListOfOne
<1>3. <<a>> \in Seq(Range(<<a>>)) /\ Len(<<a>>) = 1 /\ <<a>>[1] = a  BY <1>2 DEF ListOf
<1>4. <<key>> \in Seq({key}) /\ Len(<<key>>) = 1 /\ <<key>>[1] = key /\ DOMAIN <<key>> = {1}  OBVIOUS
<1>5. \A i \in 1 .. 1 : i = 1  OBVIOUS
<1>6. Keyed(<<a>>, <<key>>, {key})
  BY <1>1, <1>3, <1>4, <1>5 DEF Keyed, IsInjective
<1> QED  BY <1>6 DEF a

\* Appending labels of other names appends the names.
LEMMA KeyedBoth ==
    ASSUME NEW a, NEW b, NEW k, NEW l, NEW K, NEW M, Keyed(a, k, K), Keyed(b, l, M), K \cap M = {}
    PROVE  Keyed(a \o b, k \o l, K \cup M)
<1> DEFINE ab == a \o b
           kl == k \o l
           m == Len(k)
           n == Len(l)
<1>1. /\ k \in Seq(K \cup M) /\ l \in Seq(K \cup M)
      /\ a \in Seq(Range(a) \cup Range(b)) /\ b \in Seq(Range(a) \cup Range(b))
      /\ m \in Nat /\ n \in Nat /\ Len(a) = m /\ Len(b) = n
  BY DEF Keyed
<1>2. /\ kl \in Seq(K \cup M) /\ Len(kl) = m + n
      /\ \A i \in 1 .. m + n : kl[i] = IF i <= m THEN k[i] ELSE l[i - m]
  BY <1>1
<1>3. /\ ab \in Seq(Range(a) \cup Range(b)) /\ Len(ab) = m + n
      /\ \A i \in 1 .. m + n : ab[i] = IF i <= m THEN a[i] ELSE b[i - m]
  BY <1>1
<1>4. ab \in Seq(Range(ab))
  <2>1. Range(ab) = Range(a) \cup Range(b)  BY <1>1, RangeConcatenation
  <2> QED  BY <1>3, <2>1
<1>5. /\ \A i \in 1 .. m : k[i] \in K /\ a[i] = <<k[i], a[i][2]>>
      /\ \A i \in 1 .. n : l[i] \in M /\ b[i] = <<l[i], b[i][2]>>
      /\ \A i, j \in 1 .. m : k[i] = k[j] => i = j
      /\ \A i, j \in 1 .. n : l[i] = l[j] => i = j
  <2>1. /\ k \in Seq(K) /\ l \in Seq(M) /\ IsInjective(k) /\ IsInjective(l)
        /\ \A i \in 1 .. m : a[i] = <<k[i], a[i][2]>>
        /\ \A i \in 1 .. n : b[i] = <<l[i], b[i][2]>>
    BY DEF Keyed
  <2>2. DOMAIN k = 1 .. m /\ DOMAIN l = 1 .. n /\ (\A i \in 1 .. m : k[i] \in K) /\ (\A i \in 1 .. n : l[i] \in M)
    BY <2>1
  <2> HIDE DEF m, n
  <2>3. (\A i, j \in 1 .. m : k[i] = k[j] => i = j) /\ (\A i, j \in 1 .. n : l[i] = l[j] => i = j)
    BY <2>1, <2>2, Zenon DEF IsInjective
  <2> QED  BY <2>1, <2>2, <2>3
<1>6. \A i \in 1 .. m + n : IF i <= m THEN i \in 1 .. m ELSE i - m \in 1 .. n  BY <1>1
<1> HIDE DEF ab, kl, m, n
<1>7. ASSUME NEW i \in 1 .. m + n PROVE ab[i] = <<kl[i], ab[i][2]>>
  <2>1. CASE i <= m  BY <1>2, <1>3, <1>5, <1>6, <2>1
  <2>2. CASE ~(i <= m)  BY <1>2, <1>3, <1>5, <1>6, <2>2
  <2> QED  BY <2>1, <2>2
<1>8. ASSUME NEW i \in 1 .. m + n, NEW j \in 1 .. m + n, kl[i] = kl[j] PROVE i = j
  <2>1. CASE i <= m /\ j <= m  BY <1>2, <1>5, <1>6, <1>8, <2>1
  <2>2. CASE ~(i <= m) /\ ~(j <= m)
    <3>1. i - m = j - m  BY <1>2, <1>5, <1>6, <1>8, <2>2
    <3> QED  BY <1>1, <3>1
  <2>3. CASE (i <= m /\ ~(j <= m)) \/ (~(i <= m) /\ j <= m)
    BY <1>2, <1>5, <1>6, <1>8, <2>3
  <2> QED  BY <2>1, <2>2, <2>3
<1>9. IsInjective(kl)
  <2>1. DOMAIN kl = 1 .. m + n  BY <1>2
  <2> QED  BY <1>8, <2>1 DEF IsInjective
<1>10. Keyed(ab, kl, K \cup M)  BY <1>2, <1>3, <1>4, <1>7, <1>9 DEF Keyed
<1> QED  BY <1>10 DEF ab, kl

\* Two labels of different names have these names.
LEMMA KeyedTwo ==
    ASSUME NEW k, NEW l, k # l, NEW v, NEW w
    PROVE  Keyed(<< <<k, v>>, <<l, w>> >>, <<k, l>>, {k, l})
<1> DEFINE a == <<k, v>>
           b == <<l, w>>
<1>1. a = <<k, a[2]>> /\ b = <<l, b[2]>>  OBVIOUS
<1> HIDE DEF a, b
<1>2. ListOf(<<a, b>>, {a, b})  BY ListOfTwo
<1>3. <<a, b>> \in Seq(Range(<<a, b>>)) /\ Len(<<a, b>>) = 2 /\ <<a, b>>[1] = a /\ <<a, b>>[2] = b
  BY <1>2 DEF ListOf
<1>4. /\ <<k, l>> \in Seq({k, l}) /\ Len(<<k, l>>) = 2 /\ <<k, l>>[1] = k /\ <<k, l>>[2] = l
      /\ DOMAIN <<k, l>> = {1, 2}
  OBVIOUS
<1>5. \A i \in 1 .. 2 : i = 1 \/ i = 2  OBVIOUS
<1>6. Keyed(<<a, b>>, <<k, l>>, {k, l})
  BY <1>1, <1>3, <1>4, <1>5 DEF Keyed, IsInjective
<1> QED  BY <1>6 DEF a, b

\* A list of labels that are of this cluster.
Headed(list, c) == list # <<>> /\ list[1] = <<"cluster", c>>

\* Appending to the labels of a cluster leaves them labels of that cluster.
LEMMA HeadedBoth ==
    ASSUME NEW S, NEW a \in Seq(S), NEW T, NEW b \in Seq(T), NEW c, Headed(a, c)
    PROVE  Headed(a \o b, c)
<1> DEFINE label == <<"cluster", c>>
<1>1. a # <<>> /\ a[1] = label  BY DEF Headed
<1> HIDE DEF label
<1>2. a \o b # <<>> /\ (a \o b)[1] = label  BY <1>1
<1> QED  BY <1>2 DEF Headed, label

-----------------------------------------------------------------------------
(* The label names of a type's objects.                                      *)

DomainList == <<"protection_domain_id", "protection_domain_name">>
PoolList == <<"storage_pool_id", "storage_pool_name">>
SdsList == <<"sds", "sds_id">>
NodeList == <<"storage_node_name", "storage_node_id">>
VolumeList == ((<<"volume_name", "volume_id">> \o <<"volume_type">>) \o PoolList) \o DomainList
DeviceList ==
    ((((SdsList \o NodeList) \o <<"device_name", "device_id">>) \o <<"device_path">>) \o PoolList)
        \o DomainList
OwnList(type) ==
    CASE type = "Sds" -> SdsList \o DomainList
      [] type = "StorageNode" -> NodeList \o DomainList
      [] type = "Device" -> DeviceList
      [] type = "Volume" -> VolumeList
      [] type = "StoragePool" -> PoolList \o DomainList
      [] type = "Sdc" -> <<"sdc_name", "sdc_id">>
      [] type = "DeviceGroup" -> (<<"device_group_name", "device_group_id">> \o <<"media_type">>) \o DomainList
      [] type = "ProtectionDomain" -> DomainList
      [] type = "Sdt" -> <<"sdt_name", "sdt_id">> \o DomainList
OwnKeysOf(type) == IF type = "Volume" THEN OwnKeys \ {"sdc_id"} ELSE OwnKeys

\* The names of an id and name pair, in either order.
LEMMA IdNameKeyed ==
    ASSUME NEW idKey, NEW nameKey, NEW o, idKey # nameKey
    PROVE  /\ Keyed(IdName(idKey, nameKey, o), <<idKey, nameKey>>, {idKey, nameKey})
           /\ Keyed(NameId(nameKey, idKey, o), <<nameKey, idKey>>, {nameKey, idKey})
BY KeyedTwo, Zenon DEF IdName, NameId

\* Appending a resolved protection domain appends the domain's two names.
LEMMA DomainKeyed ==
    ASSUME NEW list, NEW keys, NEW K, Keyed(list, keys, K), K \cap DomainKeys = {},
           NEW pd, WithDomain(list, pd) # <<>>
    PROVE  Keyed(WithDomain(list, pd), keys \o DomainList, K \cup DomainKeys)
<1>1. WithDomain(list, pd) = list \o DomainLabels(pd)  BY DEF WithDomain
<1>2. Keyed(DomainLabels(pd), DomainList, DomainKeys)
  BY IdNameKeyed, "protection_domain_id" # "protection_domain_name"
     DEF DomainLabels, DomainKeys, DomainList
<1> QED  BY <1>1, <1>2, KeyedBoth

\* A resolved volume, or the disk seen from an SDC, has the names of a volume.
LEMMA VolumeKeyed ==
    ASSUME NEW in, NEW o, NEW type, VolumeLabels(in, o, type) # <<>>
    PROVE  Keyed(VolumeLabels(in, o, type), VolumeList, OwnKeysOf("Volume"))
<1> DEFINE pool == FirstParent(in, o, "StoragePool")
           own == NameId("volume_name", "volume_id", o)
           kind == << <<"volume_type", type>> >>
           k1 == <<"volume_name", "volume_id">>
           k2 == <<"volume_type">>
           list == (own \o kind) \o PoolLabels(pool)
           keys == (k1 \o k2) \o PoolList
           K == ({"volume_name", "volume_id"} \cup {"volume_type"}) \cup {"storage_pool_id", "storage_pool_name"}
<1>1. Keyed(own, k1, {"volume_name", "volume_id"})  BY IdNameKeyed
<1>2. Keyed(kind, k2, {"volume_type"})  BY KeyedOne
<1>3. Keyed(PoolLabels(pool), PoolList, {"storage_pool_id", "storage_pool_name"})
  BY IdNameKeyed DEF PoolLabels, PoolList
<1>4. VolumeLabels(in, o, type) = WithDomain(list, Domain(in, pool))  BY DEF VolumeLabels
<1>5. VolumeList = keys \o DomainList  BY DEF VolumeList
<1> HIDE DEF own, kind, pool, k1, k2
<1>6. Keyed(own \o kind, k1 \o k2, {"volume_name", "volume_id"} \cup {"volume_type"})
  BY <1>1, <1>2, KeyedBoth
<1>7. Keyed(list, keys, K)  BY <1>3, <1>6, KeyedBoth
<1> HIDE DEF list, keys
<1>8. Keyed(WithDomain(list, Domain(in, pool)), keys \o DomainList, K \cup DomainKeys)
  BY <1>4, <1>7, DomainKeyed DEF DomainKeys
<1>9. K \cup DomainKeys \subseteq OwnKeysOf("Volume")  BY DEF DomainKeys, OwnKeys, OwnKeysOf
<1> QED  BY <1>4, <1>5, <1>8, <1>9, KeyedAmong

\* A resolved device has the names of a device, on either generation.
LEMMA DeviceKeyed ==
    ASSUME NEW sds, NEW node, NEW o, NEW pool, NEW pd, DeviceLabels(sds, node, o, pool, pd) # <<>>
    PROVE  Keyed(DeviceLabels(sds, node, o, pool, pd), DeviceList, OwnKeys)
<1> DEFINE a == NameId("sds", "sds_id", sds)
           b == NameId("storage_node_name", "storage_node_id", node)
           own == NameId("device_name", "device_id", o)
           path == << <<"device_path", o.path>> >>
           p == PoolLabels(pool)
           k3 == <<"device_name", "device_id">>
           k4 == <<"device_path">>
           list == (((a \o b) \o own) \o path) \o p
           keys == (((SdsList \o NodeList) \o k3) \o k4) \o PoolList
           K2 == {"sds", "sds_id"} \cup {"storage_node_name", "storage_node_id"}
           K3 == K2 \cup {"device_name", "device_id"}
           K4 == K3 \cup {"device_path"}
           K5 == K4 \cup {"storage_pool_id", "storage_pool_name"}
<1>1. /\ Keyed(a, SdsList, {"sds", "sds_id"})
      /\ Keyed(b, NodeList, {"storage_node_name", "storage_node_id"})
  BY IdNameKeyed DEF SdsList, NodeList
<1>2. Keyed(own, k3, {"device_name", "device_id"})  BY IdNameKeyed
<1>3. Keyed(path, k4, {"device_path"})  BY KeyedOne
<1>4. Keyed(p, PoolList, {"storage_pool_id", "storage_pool_name"})
  BY IdNameKeyed DEF PoolLabels, PoolList
<1>5. DeviceLabels(sds, node, o, pool, pd) = WithDomain(list, pd)  BY DEF DeviceLabels
<1>6. DeviceList = keys \o DomainList  BY DEF DeviceList
<1> HIDE DEF a, b, own, path, p, k3, k4
<1>7. Keyed(a \o b, SdsList \o NodeList, K2)  BY <1>1, KeyedBoth
<1>8. Keyed((a \o b) \o own, (SdsList \o NodeList) \o k3, K3)  BY <1>2, <1>7, KeyedBoth
<1>9. Keyed(((a \o b) \o own) \o path, ((SdsList \o NodeList) \o k3) \o k4, K4)
  BY <1>3, <1>8, KeyedBoth
<1>10. Keyed(list, keys, K5)  BY <1>4, <1>9, KeyedBoth
<1> HIDE DEF list, keys
<1>11. Keyed(WithDomain(list, pd), keys \o DomainList, K5 \cup DomainKeys)
  BY <1>5, <1>10, DomainKeyed DEF DomainKeys
<1>12. K5 \cup DomainKeys \subseteq OwnKeys  BY DEF DomainKeys, OwnKeys
<1> QED  BY <1>5, <1>6, <1>11, <1>12, KeyedAmong

\* A resolved device group has the names of a device group.
LEMMA DeviceGroupKeyed ==
    ASSUME NEW in, NEW o, DeviceGroupLabels(in, o) # <<>>
    PROVE  Keyed(DeviceGroupLabels(in, o), OwnList("DeviceGroup"), OwnKeys)
<1> DEFINE keys == OwnList("DeviceGroup")
           own == NameId("device_group_name", "device_group_id", o)
           media == << <<"media_type", IF o.media = "" THEN "unknown" ELSE o.media>> >>
           k1 == <<"device_group_name", "device_group_id">>
           k2 == <<"media_type">>
           K == {"device_group_name", "device_group_id"} \cup {"media_type"}
<1>1. Keyed(own, k1, {"device_group_name", "device_group_id"})  BY IdNameKeyed
<1>2. Keyed(media, k2, {"media_type"})  BY KeyedOne
<1>3. DeviceGroupLabels(in, o) = WithDomain(own \o media, Domain(in, o))  BY DEF DeviceGroupLabels
<1>4. keys = (k1 \o k2) \o DomainList  BY DEF OwnList
<1> HIDE DEF own, media, k1, k2, keys
<1>5. Keyed(own \o media, k1 \o k2, K)  BY <1>1, <1>2, KeyedBoth
<1>6. Keyed(WithDomain(own \o media, Domain(in, o)), (k1 \o k2) \o DomainList, K \cup DomainKeys)
  BY <1>3, <1>5, DomainKeyed DEF DomainKeys
<1>7. K \cup DomainKeys \subseteq OwnKeys  BY DEF DomainKeys, OwnKeys
<1> HIDE DEF K
<1> QED  BY <1>3, <1>4, <1>6, <1>7, KeyedAmong DEF keys

\* Whatever its type, generation and parents, an object of a type has the same
\* label names as any other.
LEMMA OwnKeyed ==
    ASSUME NEW gen, NEW in, NEW type \in DOMAIN IdKey, NEW o, Resolved(gen, in, type, o)
    PROVE  Keyed(OwnLabels(gen, in, type, o), OwnList(type), OwnKeysOf(type))
<1> DEFINE L == OwnLabels(gen, in, type, o)
           keys == OwnList(type)
           K == OwnKeysOf(type)
<1>1. L # <<>>  BY DEF Resolved
<1>2. ASSUME NEW k, NEW l, k # l, NEW x, NEW pd,
             L \in {WithDomain(NameId(k, l, x), pd), WithDomain(IdName(k, l, x), pd)},
             {k, l} \subseteq OwnKeys \ DomainKeys, keys = <<k, l>> \o DomainList, K = OwnKeys
      PROVE  Keyed(L, keys, K)
  <2> HIDE DEF L, keys, K
  <2>1. PICK list : Keyed(list, <<k, l>>, {k, l}) /\ L = WithDomain(list, pd)
    BY <1>2, IdNameKeyed
  <2>2. Keyed(L, <<k, l>> \o DomainList, {k, l} \cup DomainKeys)
    BY <1>1, <1>2, <2>1, DomainKeyed
  <2>3. {k, l} \cup DomainKeys \subseteq OwnKeys  BY <1>2 DEF DomainKeys, OwnKeys
  <2> QED  BY <1>2, <2>2, <2>3, KeyedAmong
<1>3. CASE type = "Sds"
  <2>1. L = WithDomain(NameId("sds", "sds_id", o), Domain(in, o))  BY <1>3 DEF OwnLabels, SdsLabels
  <2>2. keys = <<"sds", "sds_id">> \o DomainList /\ K = OwnKeys  BY <1>3 DEF OwnList, SdsList, OwnKeysOf
  <2> HIDE DEF L, keys, K
  <2>3. Keyed(L, keys, K)  BY <1>2, <2>1, <2>2 DEF OwnKeys, DomainKeys
  <2> QED  BY <2>3 DEF L, keys, K
<1>4. CASE type = "StorageNode"
  <2>1. L = WithDomain(NameId("storage_node_name", "storage_node_id", o), Domain(in, o))
    BY <1>4 DEF OwnLabels, StorageNodeLabels
  <2>2. keys = <<"storage_node_name", "storage_node_id">> \o DomainList /\ K = OwnKeys
    BY <1>4 DEF OwnList, NodeList, OwnKeysOf
  <2> HIDE DEF L, keys, K
  <2>3. Keyed(L, keys, K)  BY <1>2, <2>1, <2>2 DEF OwnKeys, DomainKeys
  <2> QED  BY <2>3 DEF L, keys, K
<1>5. CASE type = "StoragePool"
  <2>1. L = WithDomain(IdName("storage_pool_id", "storage_pool_name", o), Domain(in, o))
    BY <1>5 DEF OwnLabels, StoragePoolLabels, PoolLabels
  <2>2. keys = <<"storage_pool_id", "storage_pool_name">> \o DomainList /\ K = OwnKeys
    BY <1>5 DEF OwnList, PoolList, OwnKeysOf
  <2> HIDE DEF L, keys, K
  <2>3. Keyed(L, keys, K)  BY <1>2, <2>1, <2>2 DEF OwnKeys, DomainKeys
  <2> QED  BY <2>3 DEF L, keys, K
<1>6. CASE type = "Sdt"
  <2>1. L = WithDomain(NameId("sdt_name", "sdt_id", o), Domain(in, o))
    BY <1>6 DEF OwnLabels, SdtLabels
  <2>2. keys = <<"sdt_name", "sdt_id">> \o DomainList /\ K = OwnKeys  BY <1>6 DEF OwnList, OwnKeysOf
  <2> HIDE DEF L, keys, K
  <2>3. Keyed(L, keys, K)  BY <1>2, <2>1, <2>2 DEF OwnKeys, DomainKeys
  <2> QED  BY <2>3 DEF L, keys, K
<1>7. CASE type = "Device"
  <2>1. PICK sds, node, pool, pd : L = DeviceLabels(sds, node, o, pool, pd)
    <3>1. L \in {DeviceLabelsGen1(in, o), DeviceLabelsGen2(in, o)}  BY <1>7 DEF OwnLabels
    <3> HIDE DEF L
    <3> QED  BY <1>1, <3>1, Zenon DEF DeviceLabelsGen1, DeviceLabelsGen2, L
  <2>2. keys = DeviceList /\ K = OwnKeys  BY <1>7 DEF OwnList, OwnKeysOf
  <2> HIDE DEF L, keys, K
  <2>3. Keyed(L, keys, K)  BY <1>1, <2>1, <2>2, DeviceKeyed
  <2> QED  BY <2>3 DEF L, keys, K
<1>8. CASE type = "Volume"
  <2>1. PICK kind : L = VolumeLabels(in, o, kind)  BY <1>8 DEF OwnLabels
  <2>2. keys = VolumeList /\ K = OwnKeysOf("Volume")  BY <1>8 DEF OwnList
  <2> HIDE DEF L, keys, K
  <2>3. Keyed(L, keys, K)  BY <1>1, <2>1, <2>2, VolumeKeyed
  <2> QED  BY <2>3 DEF L, keys, K
<1>9. CASE type = "Sdc"
  <2>1. PICK name : L = << <<"sdc_name", name>>, <<"sdc_id", o.id>> >>
    BY <1>9, Zenon DEF OwnLabels, SdcLabels
  <2>2. keys = <<"sdc_name", "sdc_id">> /\ K = OwnKeys  BY <1>9 DEF OwnList, OwnKeysOf
  <2> HIDE DEF L, keys, K
  <2>3. Keyed(L, keys, {"sdc_name", "sdc_id"})  BY <2>1, <2>2, KeyedTwo
  <2>4. Keyed(L, keys, K)  BY <2>2, <2>3, KeyedAmong DEF OwnKeys
  <2> QED  BY <2>4 DEF L, keys, K
<1>10. CASE type = "DeviceGroup"
  <2>1. L = DeviceGroupLabels(in, o)  BY <1>10 DEF OwnLabels
  <2>2. keys = OwnList("DeviceGroup") /\ K = OwnKeys  BY <1>10 DEF OwnKeysOf
  <2> HIDE DEF L, keys, K
  <2>3. Keyed(L, keys, K)  BY <1>1, <2>1, <2>2, DeviceGroupKeyed
  <2> QED  BY <2>3 DEF L, keys, K
<1>11. CASE type = "ProtectionDomain"
  <2>1. L = IdName("protection_domain_id", "protection_domain_name", o)
    BY <1>11 DEF OwnLabels, ProtectionDomainLabels, DomainLabels
  <2>2. keys = <<"protection_domain_id", "protection_domain_name">> /\ K = OwnKeys
    BY <1>11 DEF OwnList, DomainList, OwnKeysOf
  <2> HIDE DEF L, keys, K
  <2>3. Keyed(L, keys, {"protection_domain_id", "protection_domain_name"})
    BY <2>1, <2>2, IdNameKeyed
  <2>4. Keyed(L, keys, K)  BY <2>2, <2>3, KeyedAmong DEF OwnKeys
  <2> QED  BY <2>4 DEF L, keys, K
<1> QED  BY <1>3, <1>4, <1>5, <1>6, <1>7, <1>8, <1>9, <1>10, <1>11 DEF IdKey

BaseList == <<"cluster", "cluster_id">>
ObjectList(type) == BaseList \o OwnList(type)
ObjectKeys(type) == BaseKeys \cup OwnKeysOf(type)

\* Labels with these names, of this cluster.
Labelled(list, c, keys, K) == Keyed(list, keys, K) /\ Headed(list, c)

\* Appending labels of other names to the labels of a cluster.
LEMMA LabelledBoth ==
    ASSUME NEW a, NEW b, NEW k, NEW l, NEW K, NEW M, NEW c,
           Labelled(a, c, k, K), Keyed(b, l, M), K \cap M = {}
    PROVE  Labelled(a \o b, c, k \o l, K \cup M)
<1>1. Keyed(a \o b, k \o l, K \cup M)  BY KeyedBoth DEF Labelled
<1>2. a \in Seq(Range(a)) /\ b \in Seq(Range(b)) /\ Headed(a, c)  BY DEF Labelled, Keyed
<1>3. Headed(a \o b, c)  BY <1>2, HeadedBoth
<1> QED  BY <1>1, <1>3 DEF Labelled

\* Every sample starts with the cluster and its id.
LEMMA BaseLabelled == ASSUME NEW c, NEW in PROVE Labelled(BaseLabels(c, in), c, BaseList, BaseKeys)
<1>1. Keyed(BaseLabels(c, in), BaseList, BaseKeys)
  BY KeyedTwo, "cluster" # "cluster_id" DEF BaseLabels, BaseList, BaseKeys
<1> DEFINE a == <<"cluster", c>>
           b == <<"cluster_id", SystemId(in)>>
<1>2. BaseLabels(c, in) = <<a, b>>  BY DEF BaseLabels
<1> HIDE DEF a, b
<1>3. <<a, b>> # <<>> /\ <<a, b>>[1] = a  OBVIOUS
<1> QED  BY <1>1, <1>2, <1>3 DEF Labelled, Headed, a

\* The names of an object, after those of its cluster.
LEMMA ObjectLabelled ==
    ASSUME NEW gen, NEW c, NEW in, NEW type \in DOMAIN IdKey, NEW o, Resolved(gen, in, type, o)
    PROVE  Labelled(ObjectLabels(gen, c, in, type, o), c, ObjectList(type), ObjectKeys(type))
<1>1. BaseKeys \cap OwnKeysOf(type) = {}  BY DEF BaseKeys, OwnKeys, OwnKeysOf
<1> QED  BY <1>1, BaseLabelled, OwnKeyed, LabelledBoth, Zenon DEF ObjectLabels, ObjectList, ObjectKeys

-----------------------------------------------------------------------------
(* The label names of a sample, by its name.                                 *)

WorkloadList == <<"namespace", "persistent_volume_claim", "persistent_volume", "storage_class">>
ReadList(type) ==
    IF enabled /\ type = "Volume" THEN WorkloadList
    ELSE IF enabled /\ type = "Sdc" THEN <<"k8s_node">> ELSE <<>>
StatList(type) == IF type = "System" THEN BaseList ELSE ObjectList(type) \o ReadList(type)
StatesOf(type) ==
    CASE type \in {"Sds", "StorageNode"} -> NodeStates
      [] type = "Device" -> DeviceStates
      [] type = "Sdc" -> <<"mdm_connection_state">>
      [] type = "Sdt" -> <<"sdt_state">>
SdcList == <<"sdc_id", "sdc_ip">>
ExtraList == <<"op", "direction">>

NameList(name) ==
    CASE name[2] = "health" -> ObjectList(name[1])
      [] name[2] = "info" -> ObjectList(name[1]) \o StatesOf(name[1])
      [] name[2] = "mapped_sdc" -> ObjectList("Volume") \o SdcList
      [] name[2] \in DerivedFields -> StatList(name[1]) \o ExtraList
      [] OTHER -> StatList(name[1])

\* The labels of a sample have the names that all samples of its name have.
Shaped(c, s) == \E K : Labelled(s.labels, c, NameList(s.name), K)

\* What was read for an object, and what the enricher appends to its labels.
ReadShaped(key, labels) ==
    /\ enabled /\ key[1] \in EnrichedTypes
    /\ Keyed(labels, ReadList(key[1]), KubernetesKeys)

\* Four labels of different names have these names.
LEMMA KeyedFour ==
    ASSUME NEW k1, NEW k2, NEW k3, NEW k4, k1 \notin {k2, k3, k4}, k2 \notin {k3, k4}, k3 # k4,
           NEW v1, NEW v2, NEW v3, NEW v4
    PROVE  Keyed(<< <<k1, v1>>, <<k2, v2>>, <<k3, v3>>, <<k4, v4>> >>, <<k1, k2, k3, k4>>,
                 {k1, k2, k3, k4})
<1> DEFINE a == <<k1, v1>>
           b == <<k2, v2>>
           c == <<k3, v3>>
           d == <<k4, v4>>
           list == <<a, b, c, d>>
           keys == <<k1, k2, k3, k4>>
<1>1. a = <<k1, a[2]>> /\ b = <<k2, b[2]>> /\ c = <<k3, c[2]>> /\ d = <<k4, d[2]>>  OBVIOUS
<1> HIDE DEF a, b, c, d
<1>2. ListOf(list, {a, b, c, d})  BY ListOfFour
<1>3. /\ list \in Seq(Range(list)) /\ Len(list) = 4
      /\ list[1] = a /\ list[2] = b /\ list[3] = c /\ list[4] = d
  BY <1>2 DEF ListOf
<1>4. /\ keys \in Seq({k1, k2, k3, k4}) /\ Len(keys) = 4 /\ DOMAIN keys = {1, 2, 3, 4}
      /\ keys[1] = k1 /\ keys[2] = k2 /\ keys[3] = k3 /\ keys[4] = k4
  OBVIOUS
<1>5. \A i \in 1 .. 4 : i = 1 \/ i = 2 \/ i = 3 \/ i = 4  OBVIOUS
<1> HIDE DEF list, keys
<1>6. \A i \in 1 .. 4 : list[i] = <<keys[i], list[i][2]>>  BY <1>1, <1>3, <1>4, <1>5
<1>7. IsInjective(keys)  BY <1>4 DEF IsInjective
<1>8. Keyed(list, keys, {k1, k2, k3, k4})  BY <1>3, <1>4, <1>6, <1>7 DEF Keyed
<1> QED  BY <1>8 DEF list, keys, a, b, c, d

\* What the enricher returns has the names it documents, mapped or not.
LEMMA ReadKeyed ==
    ASSUME enabled, NEW type \in EnrichedTypes, NEW o
    PROVE  ReadShaped(<<type, o.id>>, Read(o, type))
<1> DEFINE key == <<type, o.id>>
<1>0. key[1] = type  OBVIOUS
<1> HIDE DEF key
<1>1. CASE type = "Volume"
  <2> DEFINE m == Lookup(volumes, o.id, NoMeta)
  <2>1. Read(o, type) = << <<"namespace", m.namespace>>, <<"persistent_volume_claim", m.pvc>>,
                           <<"persistent_volume", m.pv>>, <<"storage_class", m.class>> >>
    BY <1>1 DEF Read, EnricherVolumeLabels, VolumeEnrichmentLabels
  <2>2. Keyed(Read(o, type), WorkloadList, VolumeKeys)
    BY <2>1, KeyedFour DEF WorkloadList, VolumeKeys
  <2>3. ReadList(type) = WorkloadList  BY <1>1 DEF ReadList
  <2>4. Keyed(Read(o, type), ReadList(type), KubernetesKeys)
    BY <2>2, <2>3, KeyedAmong DEF KubernetesKeys
  <2> QED  BY <1>0, <2>4 DEF ReadShaped, key
<1>2. CASE type = "Sdc"
  <2> DEFINE v == Lookup(nodes, o.ip, "")
             list == <<"k8s_node">>
  <2>1. Read(o, type) = << <<"k8s_node", v>> >>  BY <1>2 DEF Read, EnricherSDCLabels, SDCEnrichmentLabels
  <2>2. Keyed(<< <<"k8s_node", v>> >>, list, {"k8s_node"})  BY KeyedOne
  <2>3. ReadList(type) = list  BY <1>2 DEF ReadList
  <2> HIDE DEF v, list
  <2>4. Keyed(Read(o, type), ReadList(type), KubernetesKeys)
    BY <2>1, <2>2, <2>3, KeyedAmong DEF KubernetesKeys
  <2> QED  BY <1>0, <2>4 DEF ReadShaped, key
<1> QED  BY <1>1, <1>2 DEF EnrichedTypes

\* The labels of the statistics of an object.
LEMMA StatLabelledBy ==
    ASSUME NEW gen \in {"gen1", "gen2"}, NEW c, NEW in, NEW stats, NEW enriched,
           \A key \in DOMAIN enriched : ReadShaped(key, enriched[key]),
           NEW t \in BuilderTypes[gen] \cup {"System"}, NEW o \in Derivable(gen, in, stats, t),
           enabled /\ t \in EnrichedTypes => <<t, o.id>> \in DOMAIN enriched
    PROVE  Labelled(StatLabels(gen, c, in, enriched, t, o), c, StatList(t),
                    (BaseKeys \cup OwnKeys) \cup KubernetesKeys)
<1> DEFINE K == (BaseKeys \cup OwnKeys) \cup KubernetesKeys
<1>1. CASE t = "System"
  <2>1. Labelled(BaseLabels(c, in), c, BaseList, K)
    BY BaseLabelled, KeyedAmong DEF Labelled
  <2> QED  BY <1>1, <2>1 DEF StatLabels, StatList
<1>2. CASE t # "System"
  <2>1. t \in DOMAIN IdKey  BY <1>2 DEF BuilderTypes, IdKey
  <2>2. Resolved(gen, in, t, o)  BY <1>2, Zenon DEF Derivable
  <2>3. Labelled(ObjectLabels(gen, c, in, t, o), c, ObjectList(t), ObjectKeys(t))
    BY <2>1, <2>2, ObjectLabelled
  <2>4. Labelled(ObjectLabels(gen, c, in, t, o), c, ObjectList(t), BaseKeys \cup OwnKeys)
    BY <2>3, KeyedAmong DEF Labelled, ObjectKeys, OwnKeysOf
  <2>5. Keyed(Enriched(enriched, t, o), ReadList(t), KubernetesKeys)
    <3> DEFINE key == <<t, o.id>>
    <3>1. key[1] = t  OBVIOUS
    <3> HIDE DEF key
    <3>2. CASE key \in DOMAIN enriched
      <4>1. Enriched(enriched, t, o) = enriched[key]  BY <3>2 DEF Enriched, key
      <4> QED  BY <3>1, <3>2, <4>1 DEF ReadShaped
    <3>3. CASE key \notin DOMAIN enriched
      <4>1. Enriched(enriched, t, o) = <<>>  BY <3>3 DEF Enriched, key
      <4>2. ReadList(t) = <<>>  BY <3>3 DEF ReadList, EnrichedTypes, key
      <4> QED  BY <4>1, <4>2, KeyedNone
    <3> QED  BY <3>2, <3>3
  <2>6. (BaseKeys \cup OwnKeys) \cap KubernetesKeys = {}
    BY DEF BaseKeys, OwnKeys, KubernetesKeys, VolumeKeys
  <2>7. Labelled(ObjectLabels(gen, c, in, t, o) \o Enriched(enriched, t, o), c,
                 ObjectList(t) \o ReadList(t), K)
    BY <2>4, <2>5, <2>6, LabelledBoth
  <2> QED  BY <1>2, <2>7, Zenon DEF StatLabels, StatList
<1> QED  BY <1>1, <1>2

StateKeys ==
    {"mdm_connection_state", "membership_state", "maintenance_state", "device_state",
     "temperature_state", "ssd_end_of_life_state", "error_state", "sdt_state"}
\* A list of different state fields.
StateList(fields) == fields \in Seq(StateKeys) /\ IsInjective(fields)

\* Three different state fields.
LEMMA StateListOfThree ==
    ASSUME NEW a, NEW b, NEW c, {a, b, c} \subseteq StateKeys, a \notin {b, c}, b # c
    PROVE  StateList(<<a, b, c>>)
<1> DEFINE f == <<a, b, c>>
<1>1. f \in Seq({a, b, c}) /\ DOMAIN f = {1, 2, 3} /\ f[1] = a /\ f[2] = b /\ f[3] = c  OBVIOUS
<1> HIDE DEF f
<1>2. f \in Seq(StateKeys)  BY <1>1
<1>3. IsInjective(f)  BY <1>1 DEF IsInjective
<1> QED  BY <1>2, <1>3 DEF StateList, f

\* Four different state fields.
LEMMA StateListOfFour ==
    ASSUME NEW a, NEW b, NEW c, NEW d, {a, b, c, d} \subseteq StateKeys,
           a \notin {b, c, d}, b \notin {c, d}, c # d
    PROVE  StateList(<<a, b, c, d>>)
<1> DEFINE f == <<a, b, c, d>>
<1>1. /\ f \in Seq({a, b, c, d}) /\ DOMAIN f = {1, 2, 3, 4}
      /\ f[1] = a /\ f[2] = b /\ f[3] = c /\ f[4] = d
  OBVIOUS
<1> HIDE DEF f
<1>2. f \in Seq(StateKeys)  BY <1>1
<1>3. IsInjective(f)  BY <1>1 DEF IsInjective
<1> QED  BY <1>2, <1>3 DEF StateList, f

\* One state field.
LEMMA StateListOfOne == ASSUME NEW a \in StateKeys PROVE StateList(<<a>>)
<1> DEFINE f == <<a>>
<1>1. f \in Seq({a}) /\ DOMAIN f = {1} /\ f[1] = a  OBVIOUS
<1> HIDE DEF f
<1>2. f \in Seq(StateKeys)  BY <1>1
<1>3. IsInjective(f)  BY <1>1 DEF IsInjective
<1> QED  BY <1>2, <1>3 DEF StateList, f

\* The state fields of a type do not depend on the generation.
LEMMA StatesListed ==
    ASSUME NEW gen, NEW t \in DOMAIN StateFields(gen)
    PROVE  StateFields(gen)[t] = StatesOf(t) /\ StateList(StatesOf(t))
<1>1. StateFields(gen)[t] = StatesOf(t)
  <2> HIDE DEF NodeStates, DeviceStates
  <2>1. CASE gen = "gen1"  BY <2>1 DEF StateFields, StatesOf
  <2>2. CASE gen # "gen1"  BY <2>2 DEF StateFields, StatesOf
  <2> QED  BY <2>1, <2>2
<1>2. StateList(NodeStates)  BY StateListOfThree DEF NodeStates, StateKeys
<1>3. StateList(DeviceStates)  BY StateListOfFour DEF DeviceStates, StateKeys
<1>4. StateList(<<"mdm_connection_state">>) /\ StateList(<<"sdt_state">>)
  BY StateListOfOne DEF StateKeys
<1>5. t \in {"Sds", "StorageNode", "Device", "Sdc", "Sdt"}  BY DEF StateFields
<1> HIDE DEF StateList
<1>6. StateList(StatesOf(t))
  <2>1. CASE t \in {"Sds", "StorageNode"}  BY <1>2, <2>1 DEF StatesOf
  <2>2. CASE t = "Device"  BY <1>3, <2>2 DEF StatesOf
  <2>3. CASE t = "Sdc"  BY <1>4, <2>3 DEF StatesOf
  <2>4. CASE t = "Sdt"  BY <1>4, <2>4 DEF StatesOf
  <2> QED  BY <1>5, <2>1, <2>2, <2>3, <2>4
<1> QED  BY <1>1, <1>6

\* The state labels are named after the state fields.
LEMMA StatesKeyed ==
    ASSUME NEW fields, StateList(fields), NEW states
    PROVE  Keyed([i \in DOMAIN fields |-> <<fields[i], states[fields[i]]>>], fields, StateKeys)
<1> DEFINE list == [i \in DOMAIN fields |-> <<fields[i], states[fields[i]]>>]
           n == Len(fields)
<1>1. fields \in Seq(StateKeys) /\ IsInjective(fields)  BY DEF StateList
<1>2. n \in Nat /\ DOMAIN fields = 1 .. n  BY <1>1
<1>3. list = [i \in 1 .. n |-> <<fields[i], states[fields[i]]>>]  BY <1>2
<1>4. \A i \in 1 .. n : list[i] = <<fields[i], list[i][2]>>  BY <1>3
<1> HIDE DEF n
<1>5. DOMAIN list = 1 .. n  BY <1>3
<1>6. \A i \in 1 .. n : list[i] \in Range(list)
  <2> HIDE DEF list
  <2> QED  BY <1>5 DEF Range
<1>7. list \in Seq(Range(list)) /\ Len(list) = n
  <2>1. list = [i \in 1 .. n |-> list[i]]  BY <1>3, <1>5
  <2>2. n \in Nat  BY <1>2
  <2> HIDE DEF list
  <2> QED  BY <1>6, <2>1, <2>2
<1>8. Keyed(list, fields, StateKeys)
  <2> HIDE DEF list
  <2> QED  BY <1>1, <1>4, <1>7 DEF Keyed, n
<1> QED  BY <1>8

\* The samples of a cycle have the labels that all samples of their names have.
LEMMA StatShaped ==
    ASSUME NEW gen \in {"gen1", "gen2"}, NEW c, NEW in, NEW stats, Good(gen, stats), NEW enriched,
           \A key \in DOMAIN enriched : ReadShaped(key, enriched[key]),
           \A t \in EnrichedTypes : \A o \in Derivable(gen, in, stats, t) :
               enabled => <<t, o.id>> \in DOMAIN enriched,
           NEW s \in StatSamples(gen, c, in, stats, enriched)
    PROVE  Shaped(c, s)
<1>1. PICK t \in BuilderTypes[gen] \cup {"System"} : \E o \in Derivable(gen, in, stats, t) :
               \E x \in stats[t][StatsKey(gen, t, o)] :
                   IsOf(gen, s, t, StatLabels(gen, c, in, enriched, t, o), x)
  BY StatParts
<1>2. PICK o \in Derivable(gen, in, stats, t) : \E x \in stats[t][StatsKey(gen, t, o)] :
                   IsOf(gen, s, t, StatLabels(gen, c, in, enriched, t, o), x)
  BY <1>1
<1> DEFINE labels == StatLabels(gen, c, in, enriched, t, o)
           K == (BaseKeys \cup OwnKeys) \cup KubernetesKeys
<1>3. StatForm(s, t, labels)  BY <1>2, IsOfForm
<1>4. Labelled(labels, c, StatList(t), K)  BY StatLabelledBy
<1> HIDE DEF labels
<1>5. s.name[1] = t
  <2>1. s = Sample(t, s.name[2], s.labels, s.value)  BY <1>3, Zenon DEF StatForm
  <2>2. s.name = <<t, s.name[2]>>  BY <2>1 DEF Sample
  <2> QED  BY <2>2
<1>6. s.name[2] \notin {"health", "info", "mapped_sdc"}
  BY <1>3, TakenAre DEF StatForm
<1>7. CASE s.name[2] \in DerivedFields
  <2>1. PICK op, direction : s.labels = labels \o Extra(op, direction)  BY <1>3, <1>7, Zenon DEF StatForm
  <2>2. Keyed(Extra(op, direction), ExtraList, ExtraKeys)
    BY KeyedTwo, "op" # "direction" DEF Extra, ExtraList, ExtraKeys
  <2>3. K \cap ExtraKeys = {}
    BY DEF BaseKeys, OwnKeys, KubernetesKeys, VolumeKeys, ExtraKeys
  <2> HIDE DEF K
  <2>4. Labelled(s.labels, c, StatList(t) \o ExtraList, K \cup ExtraKeys)
    BY <1>4, <2>1, <2>2, <2>3, LabelledBoth
  <2>5. NameList(s.name) = StatList(t) \o ExtraList
    <3> DEFINE field == s.name[2]
    <3>1. NameList(s.name) =
              CASE field = "health" -> ObjectList(t)
                [] field = "info" -> ObjectList(t) \o StatesOf(t)
                [] field = "mapped_sdc" -> ObjectList("Volume") \o SdcList
                [] field \in DerivedFields -> StatList(t) \o ExtraList
                [] OTHER -> StatList(t)
      BY <1>5, Zenon DEF NameList
    <3> HIDE DEF field
    <3>2. field \notin {"health", "info", "mapped_sdc"} /\ field \in DerivedFields
      BY <1>6, <1>7 DEF field
    <3> QED  BY <3>1, <3>2
  <2> QED  BY <2>4, <2>5, Zenon DEF Shaped
<1>8. CASE s.name[2] \notin DerivedFields
  <2>1. s.labels = labels  BY <1>3, <1>8, Zenon DEF StatForm
  <2>2. NameList(s.name) = StatList(t)
    <3> DEFINE field == s.name[2]
    <3>1. NameList(s.name) =
              CASE field = "health" -> ObjectList(t)
                [] field = "info" -> ObjectList(t) \o StatesOf(t)
                [] field = "mapped_sdc" -> ObjectList("Volume") \o SdcList
                [] field \in DerivedFields -> StatList(t) \o ExtraList
                [] OTHER -> StatList(t)
      BY <1>5, Zenon DEF NameList
    <3> HIDE DEF field
    <3>2. field \notin {"health", "info", "mapped_sdc"} /\ field \notin DerivedFields
      BY <1>6, <1>8 DEF field
    <3> QED  BY <3>1, <3>2
  <2> QED  BY <1>4, <2>1, <2>2, Zenon DEF Shaped
<1> QED  BY <1>7, <1>8

\* A state sample is a health gauge, an info or a mapping of an object.
StateLabelsOf(t, o) == [i \in DOMAIN StatesOf(t) |-> <<StatesOf(t)[i], o.states[StatesOf(t)[i]]>>]
Info(gen, c, in, t, o) ==
    Sample(t, "info", ObjectLabels(gen, c, in, t, o) \o StateLabelsOf(t, o), <<1, 1>>)
SdcOf(m) == << <<"sdc_id", m.id>>, <<"sdc_ip", m.ip>> >>
Mapping(gen, c, in, v, m) ==
    Sample("Volume", "mapped_sdc", ObjectLabels(gen, c, in, "Volume", v) \o SdcOf(m), <<1, 1>>)

\* A state sample is a health gauge, an info or a mapping of an object.
LEMMA StateParts ==
    ASSUME NEW gen, NEW c, NEW in, NEW s \in DeriveStateSamples(gen, c, in)
    PROVE  \/ \E t \in DOMAIN StateFields(gen) : \E o \in Resolving(gen, in, t) :
                 s = Gauge(gen, c, in, t, o) \/ s = Info(gen, c, in, t, o)
           \/ \E v \in Resolving(gen, in, "Volume") : \E m : s = Mapping(gen, c, in, v, m)
<1> DEFINE InfoOf(f, t, o) ==
               Sample(t, "info", ObjectLabels(gen, c, in, t, o)
                                   \o [i \in DOMAIN f |-> <<f[i], o.states[f[i]]>>], <<1, 1>>)
<1>1. ASSUME NEW t \in DOMAIN StateFields(gen), s \in EmitState(gen, c, in, t)
      PROVE  \E o \in Resolving(gen, in, t) : s = Gauge(gen, c, in, t, o) \/ s = Info(gen, c, in, t, o)
  <2>1. EmitState(gen, c, in, t) =
            UNION {{Gauge(gen, c, in, t, o), InfoOf(StateFields(gen)[t], t, o)} : o \in Resolving(gen, in, t)}
    BY Zenon DEF EmitState, Resolving, Gauge
  <2>2. \A o : InfoOf(StatesOf(t), t, o) = Info(gen, c, in, t, o)  BY Zenon DEF Info, StateLabelsOf
  <2> HIDE DEF InfoOf
  <2> QED  BY <1>1, <2>1, <2>2, StatesListed
<1>2. ASSUME s \in VolumeMappingSamples(gen, c, in)
      PROVE  \E v \in Resolving(gen, in, "Volume") : \E m : s = Mapping(gen, c, in, v, m)
  <2>1. VolumeMappingSamples(gen, c, in) =
            UNION {{Mapping(gen, c, in, v, m) : m \in v.mapped} : v \in Resolving(gen, in, "Volume")}
    BY Zenon DEF VolumeMappingSamples, Resolving, Mapping, SdcOf
  <2>2. PICK v \in Resolving(gen, in, "Volume") : s \in {Mapping(gen, c, in, v, m) : m \in v.mapped}
    BY <1>2, <2>1
  <2> QED  BY <2>2
<1>3. \/ s \in VolumeMappingSamples(gen, c, in)
      \/ \E t \in DOMAIN StateFields(gen) : s \in EmitState(gen, c, in, t)
  BY DEF DeriveStateSamples
<1> QED  BY <1>1, <1>2, <1>3, Zenon

\* What the labels of the state samples are called.
LEMMA NameListIs ==
    ASSUME NEW name, NEW t, name[1] = t
    PROVE  /\ name[2] = "health" => NameList(name) = ObjectList(t)
           /\ name[2] = "info" => NameList(name) = ObjectList(t) \o StatesOf(t)
           /\ name[2] = "mapped_sdc" => NameList(name) = ObjectList("Volume") \o SdcList
           /\ name[2] \notin StateMetrics =>
                  NameList(name) = IF name[2] \in DerivedFields THEN StatList(t) \o ExtraList ELSE StatList(t)
<1> DEFINE field == name[2]
           A == ObjectList(t)
           B == ObjectList(t) \o StatesOf(t)
           C == ObjectList("Volume") \o SdcList
           D == StatList(t) \o ExtraList
           E == StatList(t)
<1>1. NameList(name) = CASE field = "health" -> A
                         [] field = "info" -> B
                         [] field = "mapped_sdc" -> C
                         [] field \in DerivedFields -> D
                         [] OTHER -> E
  BY Zenon DEF NameList
<1>2. DerivedFields \cap StateMetrics = {}  BY DEF DerivedFields, StateMetrics
<1> HIDE DEF field, A, B, C, D, E
<1>3. /\ field = "health" => NameList(name) = A
      /\ field = "info" => NameList(name) = B
      /\ field = "mapped_sdc" => NameList(name) = C
      /\ field \notin StateMetrics => NameList(name) = IF field \in DerivedFields THEN D ELSE E
  BY <1>1, <1>2 DEF StateMetrics
<1> QED  BY <1>3, Zenon DEF field, A, B, C, D, E

\* The labels of a health gauge, and the names it must have.
LEMMA GaugeShape ==
    ASSUME NEW gen, NEW c, NEW in, NEW t, NEW o, NEW s, s = Gauge(gen, c, in, t, o)
    PROVE  s.labels = ObjectLabels(gen, c, in, t, o) /\ NameList(s.name) = ObjectList(t)
<1>1. s.name = <<t, "health">> /\ s.labels = ObjectLabels(gen, c, in, t, o)
  BY DEF Gauge, Sample
<1>2. s.name[1] = t /\ s.name[2] = "health"  BY <1>1
<1> QED  BY <1>1, <1>2, NameListIs

\* The labels of an info sample, and the names it must have.
LEMMA InfoShape ==
    ASSUME NEW gen, NEW c, NEW in, NEW t, NEW o, NEW s, s = Info(gen, c, in, t, o)
    PROVE  /\ s.labels = ObjectLabels(gen, c, in, t, o) \o StateLabelsOf(t, o)
           /\ NameList(s.name) = ObjectList(t) \o StatesOf(t)
<1>1. s.name = <<t, "info">> /\ s.labels = ObjectLabels(gen, c, in, t, o) \o StateLabelsOf(t, o)
  BY DEF Info, Sample
<1>2. s.name[1] = t /\ s.name[2] = "info"  BY <1>1
<1> QED  BY <1>1, <1>2, NameListIs

\* The labels of a mapped SDC, and the names it must have.
LEMMA MappingShape ==
    ASSUME NEW gen, NEW c, NEW in, NEW v, NEW m, NEW s, s = Mapping(gen, c, in, v, m)
    PROVE  /\ s.labels = ObjectLabels(gen, c, in, "Volume", v) \o SdcOf(m)
           /\ NameList(s.name) = ObjectList("Volume") \o SdcList
<1>1. s.name = <<"Volume", "mapped_sdc">> /\ s.labels = ObjectLabels(gen, c, in, "Volume", v) \o SdcOf(m)
  BY DEF Mapping, Sample
<1>2. s.name[2] = "mapped_sdc"  BY <1>1
<1> QED  BY <1>1, <1>2, NameListIs

\* So every state sample has the names of its metric.
LEMMA StateShaped ==
    ASSUME NEW gen, NEW c, NEW in, NEW s \in DeriveStateSamples(gen, c, in)
    PROVE  Shaped(c, s)
<1>1. ASSUME NEW t \in DOMAIN StateFields(gen), NEW o \in Resolving(gen, in, t)
      PROVE  Labelled(ObjectLabels(gen, c, in, t, o), c, ObjectList(t), BaseKeys \cup OwnKeys)
  <2>1. t \in DOMAIN IdKey  BY StatesIdentified
  <2>2. Labelled(ObjectLabels(gen, c, in, t, o), c, ObjectList(t), ObjectKeys(t))
    BY <2>1, ObjectLabelled DEF Resolving
  <2> QED  BY <2>2, KeyedAmong DEF Labelled, ObjectKeys, OwnKeysOf
<1>2. ASSUME NEW t \in DOMAIN StateFields(gen), NEW o \in Resolving(gen, in, t),
             s = Gauge(gen, c, in, t, o)
      PROVE  Shaped(c, s)
  <2>1. s.labels = ObjectLabels(gen, c, in, t, o) /\ NameList(s.name) = ObjectList(t)
    BY <1>2, GaugeShape
  <2> QED  BY <1>1, <2>1, Zenon DEF Shaped
<1>3. ASSUME NEW t \in DOMAIN StateFields(gen), NEW o \in Resolving(gen, in, t),
             s = Info(gen, c, in, t, o)
      PROVE  Shaped(c, s)
  <2>1. Keyed(StateLabelsOf(t, o), StatesOf(t), StateKeys)
    <3>1. StateList(StatesOf(t))  BY StatesListed
    <3> QED  BY <3>1, StatesKeyed DEF StateLabelsOf
  <2>2. (BaseKeys \cup OwnKeys) \cap StateKeys = {}  BY DEF BaseKeys, OwnKeys, StateKeys
  <2>3. Labelled(ObjectLabels(gen, c, in, t, o) \o StateLabelsOf(t, o), c,
                 ObjectList(t) \o StatesOf(t), (BaseKeys \cup OwnKeys) \cup StateKeys)
    BY <1>1, <2>1, <2>2, LabelledBoth
  <2>4. /\ s.labels = ObjectLabels(gen, c, in, t, o) \o StateLabelsOf(t, o)
        /\ NameList(s.name) = ObjectList(t) \o StatesOf(t)
    BY <1>3, InfoShape
  <2> QED  BY <2>3, <2>4, Zenon DEF Shaped
<1>4. ASSUME NEW v \in Resolving(gen, in, "Volume"), NEW m, s = Mapping(gen, c, in, v, m)
      PROVE  Shaped(c, s)
  <2>1. Keyed(SdcOf(m), SdcList, {"sdc_id", "sdc_ip"})
    BY KeyedTwo, "sdc_id" # "sdc_ip" DEF SdcOf, SdcList
  <2>2. Labelled(ObjectLabels(gen, c, in, "Volume", v), c, ObjectList("Volume"), ObjectKeys("Volume"))
    <3>1. "Volume" \in DOMAIN IdKey  BY DEF IdKey
    <3> QED  BY <3>1, ObjectLabelled DEF Resolving
  <2>3. ObjectKeys("Volume") \cap {"sdc_id", "sdc_ip"} = {}
    BY DEF ObjectKeys, BaseKeys, OwnKeys, OwnKeysOf
  <2>4. Labelled(ObjectLabels(gen, c, in, "Volume", v) \o SdcOf(m), c, ObjectList("Volume") \o SdcList,
                 ObjectKeys("Volume") \cup {"sdc_id", "sdc_ip"})
    BY <2>1, <2>2, <2>3, LabelledBoth
  <2>5. /\ s.labels = ObjectLabels(gen, c, in, "Volume", v) \o SdcOf(m)
        /\ NameList(s.name) = ObjectList("Volume") \o SdcList
    BY <1>4, MappingShape
  <2> QED  BY <2>4, <2>5, Zenon DEF Shaped
<1> QED  BY <1>2, <1>3, <1>4, StateParts

\* So has every inventory sample.
LEMMA InventoryShaped ==
    ASSUME NEW c, NEW in, NEW s \in InventorySamples(c, in)
    PROVE  Shaped(c, s)
<1> DEFINE F(x, k) == Sample("System", InventoryField[k], BaseLabels(c, in), <<x.counts[k], 1>>)
           systems == Range(Objects(in, "System"))
           ks == DOMAIN InventoryField
<1>1. s \in {F(x, k) : x \in systems, k \in ks}  BY DEF InventorySamples
<1>2. PICK k \in ks : \E x \in systems : s = F(x, k)
  <2> HIDE DEF F, systems, ks
  <2> QED  BY <1>1
<1>3. InventoryField[k] \notin {"health", "info", "mapped_sdc"} \cup DerivedFields
  BY DEF InventoryField, DerivedFields
<1> DEFINE field == InventoryField[k]
<1> HIDE DEF field
<1>4. s.name = <<"System", field>> /\ s.labels = BaseLabels(c, in)
  BY <1>2 DEF Sample, field
<1>5. s.name[1] = "System" /\ s.name[2] = field  BY <1>4
<1>6. NameList(s.name) = StatList("System")  BY <1>3, <1>5 DEF NameList, field
<1>7. StatList("System") = BaseList  BY DEF StatList
<1> QED  BY <1>4, <1>6, <1>7, BaseLabelled, Zenon DEF Shaped

\* The labels of every object that has some are read by the time a goroutine returns.
HasRead(c, j) == \A k \in ToRead(c, j) : <<k[1], k[2].id>> \in DOMAIN j.enriched
AllReadShaped(j) == \A key \in DOMAIN j.enriched : ReadShaped(key, j.enriched[key])

\* So has everything a cycle collects, reused samples included.
LEMMA CollectedShaped ==
    ASSUME NEW c \in Clusters, NEW j, j.answer \in DOMAIN Gateway[c], AllReadShaped(j), HasRead(c, j),
           \A s \in store[c].samples : Shaped(c, s),
           NEW s \in Collected(c, j).samples
    PROVE  Shaped(c, s)
<1> DEFINE a == Gateway[c][j.answer]
           p == Path(a)
           stats == Stats(c, a, p)
           reused == IF p = "gen2" THEN ReusePrior(store[c].samples, Skip(c)) ELSE {}
<1>1. /\ a.ok /\ p \in {"gen1", "gen2"}
      /\ s \in BuildSamples(p, c, a.in, stats, j.enriched) \cup reused
  <2> HIDE DEF reused, p
  <2> QED  BY CollectedParts DEF reused, p
<1>2. Good(p, stats)
  <2> HIDE DEF p
  <2>1. Path(a) # "none"  BY <1>1 DEF p
  <2> QED  BY <1>1, <2>1, StatsGood DEF p
<1>3. ASSUME enabled, NEW t \in EnrichedTypes, NEW o \in Derivable(p, a.in, stats, t)
      PROVE  <<t, o.id>> \in DOMAIN j.enriched
  <2>1. ToRead(c, j) = UNION {{<<u, x>> : x \in Derivable(p, a.in, stats, u)} : u \in EnrichedTypes}
    <3>1. p # "none"  BY <1>1
    <3> QED  BY <1>3, <3>1, Zenon DEF ToRead
  <2>2. <<t, o>> \in ToRead(c, j)
    <3> HIDE DEF p, stats, a
    <3> QED  BY <2>1
  <2>3. <<t, o>>[1] = t /\ <<t, o>>[2] = o  BY Zenon
  <2> QED  BY <2>2, <2>3, Zenon DEF HasRead
<1> HIDE DEF a, p, stats
<1>4. CASE s \in StatSamples(p, c, a.in, stats, j.enriched)
  BY <1>1, <1>2, <1>3, <1>4, StatShaped DEF AllReadShaped
<1>5. CASE s \in DeriveStateSamples(p, c, a.in)  BY <1>5, StateShaped
<1>6. CASE s \in InventorySamples(c, a.in)  BY <1>6, InventoryShaped
<1>7. CASE s \in reused  BY <1>7 DEF ReusePrior
<1> QED  BY <1>1, <1>4, <1>5, <1>6, <1>7 DEF BuildSamples

-----------------------------------------------------------------------------
(* No two samples of a cluster have one name and the same labels.           *)

OneOf(samples) == \A s, t \in samples : s.name = t.name /\ s.labels = t.labels => s = t

\* No two statistics of a cycle have one name and the same labels.
LEMMA StatsOne ==
    ASSUME NEW c \in Clusters, NEW n \in DOMAIN Gateway[c], Gateway[c][n].ok,
           NEW gen \in {"gen1", "gen2"}, NEW stats, Good(gen, stats), NEW enriched,
           \A key \in DOMAIN enriched : Within(enriched[key], KubernetesKeys)
    PROVE  OneOf(StatSamples(gen, c, Gateway[c][n].in, stats, enriched))
<1> DEFINE in == Gateway[c][n].in
           all == StatSamples(gen, c, in, stats, enriched)
           Labels(t, o) == StatLabels(gen, c, in, enriched, t, o)
           Of(s, t, o) == \E x \in stats[t][StatsKey(gen, t, o)] : IsOf(gen, s, t, Labels(t, o), x)
<1>1. ASSUME NEW s \in all
      PROVE  \E t \in BuilderTypes[gen] \cup {"System"} : \E o \in Derivable(gen, in, stats, t) :
                 /\ Of(s, t, o) /\ s.name[1] = t /\ FromLabels(s, Labels(t, o))
  <2> HIDE DEF in
  <2>1. PICK t \in BuilderTypes[gen] \cup {"System"} : \E o \in Derivable(gen, in, stats, t) : Of(s, t, o)
    BY StatParts
  <2>2. PICK o \in Derivable(gen, in, stats, t) : Of(s, t, o)  BY <2>1
  <2>3. StatForm(s, t, Labels(t, o))  BY <2>2, IsOfForm
  <2> HIDE DEF Labels, Of
  <2>4. s.name[1] = t
    <3>1. s = Sample(t, s.name[2], s.labels, s.value)  BY <2>3, Zenon DEF StatForm
    <3>2. s.name = <<t, s.name[2]>>  BY <3>1 DEF Sample
    <3> QED  BY <3>2
  <2>5. FromLabels(s, Labels(t, o))  BY <2>3, Zenon DEF StatForm, FromLabels, Extra
  <2> QED  BY <2>2, <2>4, <2>5
<1>2. ASSUME NEW s \in all, NEW r \in all, s.name = r.name, s.labels = r.labels PROVE s = r
  <2>1. PICK t \in BuilderTypes[gen] \cup {"System"} : \E o \in Derivable(gen, in, stats, t) :
            /\ Of(s, t, o) /\ s.name[1] = t /\ FromLabels(s, Labels(t, o))
    BY <1>1
  <2>2. PICK o \in Derivable(gen, in, stats, t) : 
            Of(s, t, o) /\ s.name[1] = t /\ FromLabels(s, Labels(t, o))
    BY <2>1
  <2>3. PICK u \in BuilderTypes[gen] \cup {"System"} : \E p \in Derivable(gen, in, stats, u) :
            /\ Of(r, u, p) /\ r.name[1] = u /\ FromLabels(r, Labels(u, p))
    BY <1>1
  <2>4. PICK p \in Derivable(gen, in, stats, u) : 
            Of(r, u, p) /\ r.name[1] = u /\ FromLabels(r, Labels(u, p))
    BY <2>3
  <2>5. u = t  BY <1>2, <2>2, <2>4
  <2>6. o \in Range(Objects(in, t)) /\ p \in Range(Objects(in, t))  BY <2>5, Zenon DEF Derivable
  <2>7. o = p /\ \E S : Labels(t, o) \in Seq(S)
    <3>1. CASE t = "System"
      <4>1. o = p  BY <2>6, <3>1, OneObject
      <4>2. Labels(t, o) = BaseLabels(c, in)  BY <3>1 DEF StatLabels
      <4>3. BaseLabels(c, in) \in Seq(Range(BaseLabels(c, in)))  BY BaseLabelled DEF Labelled, Keyed
      <4> QED  BY <4>1, <4>2, <4>3
    <3>2. CASE t # "System"
      <4>1. t \in DOMAIN IdKey  BY <3>2 DEF BuilderTypes, IdKey
      <4>2. Resolved(gen, in, t, o) /\ Resolved(gen, in, t, p)  BY <2>5, <3>2, Zenon DEF Derivable
      <4> DEFINE read(x) == Enriched(enriched, t, x)
      <4>3. \A x : Within(read(x), KubernetesKeys)  BY NothingWithin DEF Enriched
      <4>4. \A x : Labels(t, x) = ObjectLabels(gen, c, in, t, x) \o read(x)
        BY <3>2, Zenon DEF StatLabels
      <4> HIDE DEF in, read, Labels
      <4>5. Legible(s, c, t, o.id, read(o), ObjectLabels(gen, c, in, t, o))
        BY <2>2, <4>1, <4>2, <4>3, <4>4, StatLabelled
      <4>6. Legible(r, c, t, p.id, read(p), ObjectLabels(gen, c, in, t, p))
        BY <2>4, <2>5, <4>1, <4>2, <4>3, <4>4, StatLabelled
      <4>7. LabelValue(s, IdKey[t]) = LabelValue(r, IdKey[t])  BY <1>2 DEF LabelValue, Keys, Values
      <4>8. o.id = p.id  BY <4>5, <4>6, <4>7 DEF Legible
      <4>9. o = p  BY <2>6, <4>8, OneObject DEF in
      <4>10. Within(ObjectLabels(gen, c, in, t, o), BaseKeys \cup OwnKeys)
        BY <4>1, <4>2, ObjectIdentified DEF Identifies
      <4>11. Within(ObjectLabels(gen, c, in, t, o) \o read(o), (BaseKeys \cup OwnKeys) \cup KubernetesKeys)
        BY <4>3, <4>10, WithinBoth, Zenon
      <4>12. Labels(t, o) \in Seq(Range(Labels(t, o)))  BY <4>4, <4>11 DEF Within, ListOf
      <4> QED  BY <4>9, <4>12
    <3> QED  BY <3>1, <3>2
  <2>8. PICK S : Labels(t, o) \in Seq(S)  BY <2>7
  <2>9. Of(s, t, o) /\ Of(r, t, o)  BY <2>2, <2>4, <2>5, <2>7
  <2> HIDE DEF in, Labels
  <2> QED  BY <1>2, <2>8, <2>9, IsOfUnique
<1> QED  BY <1>2 DEF OneOf

\* No two state samples of a cycle have one name and the same labels.
LEMMA StatesOne ==
    ASSUME NEW c \in Clusters, NEW n \in DOMAIN Gateway[c], Gateway[c][n].ok, NEW gen
    PROVE  OneOf(DeriveStateSamples(gen, c, Gateway[c][n].in))
<1> DEFINE in == Gateway[c][n].in
           all == DeriveStateSamples(gen, c, in)
           IsGauge(s) == \E t \in DOMAIN StateFields(gen) : \E o \in Resolving(gen, in, t) :
                             s = Gauge(gen, c, in, t, o)
           IsFixed(s) == s = Sample(s.name[1], s.name[2], s.labels, <<1, 1>>) /\ s.name[2] # "health"
<1>1. ASSUME NEW s \in all PROVE IsGauge(s) \/ IsFixed(s)
  <2>1. ASSUME NEW type, NEW field, NEW labels, field # "health", s = Sample(type, field, labels, <<1, 1>>)
        PROVE  IsFixed(s)
    <3>1. s.name = <<type, field>> /\ s.labels = labels  BY <2>1 DEF Sample
    <3>2. s.name[1] = type /\ s.name[2] = field  BY <3>1
    <3> QED  BY <2>1, <3>1, <3>2, Zenon
  <2>2. ASSUME NEW t, NEW o, s = Info(gen, c, in, t, o) PROVE IsFixed(s)
    <3> HIDE DEF IsFixed
    <3> QED  BY <2>1, <2>2 DEF Info
  <2>3. ASSUME NEW v, NEW m, s = Mapping(gen, c, in, v, m) PROVE IsFixed(s)
    <3> HIDE DEF IsFixed
    <3> QED  BY <2>1, <2>3 DEF Mapping
  <2> HIDE DEF IsFixed, in
  <2> QED  BY <2>2, <2>3, StateParts
<1>2. ASSUME NEW s \in all, IsGauge(s) PROVE s.name[2] = "health"
  BY <1>2 DEF Gauge, Sample
<1>3. ASSUME NEW s \in all, NEW r \in all, IsGauge(s), IsGauge(r), s.name = r.name, s.labels = r.labels
      PROVE  s = r
  <2>1. PICK t \in DOMAIN StateFields(gen) : \E o \in Resolving(gen, in, t) : s = Gauge(gen, c, in, t, o)
    BY <1>3
  <2>2. PICK o \in Resolving(gen, in, t) : s = Gauge(gen, c, in, t, o)  BY <2>1
  <2>3. PICK u \in DOMAIN StateFields(gen) : \E p \in Resolving(gen, in, u) : r = Gauge(gen, c, in, u, p)
    BY <1>3
  <2>4. PICK p \in Resolving(gen, in, u) : r = Gauge(gen, c, in, u, p)  BY <2>3
  <2>5. s.name = <<t, "health">> /\ s.labels = ObjectLabels(gen, c, in, t, o)  BY <2>2 DEF Gauge, Sample
  <2>6. r.name = <<u, "health">> /\ r.labels = ObjectLabels(gen, c, in, u, p)  BY <2>4 DEF Gauge, Sample
  <2>7. u = t
    <3>1. s.name[1] = t /\ r.name[1] = u  BY <2>5, <2>6
    <3> QED  BY <1>3, <3>1
  <2>8. ObjectLabels(gen, c, in, t, o) = ObjectLabels(gen, c, in, t, p)  BY <1>3, <2>5, <2>6, <2>7
  <2>9. t \in DOMAIN IdKey  BY StatesIdentified
  <2>10. o.id = p.id
    <3> HIDE DEF in
    <3>1. Range(ObjectLabels(gen, c, in, t, p)) \subseteq Range(ObjectLabels(gen, c, in, t, o))
      BY <2>8
    <3> QED  BY <2>7, <2>9, <3>1, LabelsTellApart DEF Resolving
  <2>11. o = p  BY <2>7, <2>10, OneObject DEF Resolving
  <2> QED  BY <2>2, <2>4, <2>7, <2>11
<1>4. ASSUME NEW s, NEW r, IsFixed(s), IsFixed(r), s.name = r.name, s.labels = r.labels PROVE s = r
  <2> DEFINE A(x) == Sample(x.name[1], x.name[2], x.labels, <<1, 1>>)
  <2>1. A(s) = A(r)  BY <1>4, Zenon
  <2> QED  BY <1>4, <2>1, Zenon
<1>5. ASSUME NEW s, IsFixed(s) PROVE s.name[2] # "health"  BY <1>5, Zenon
<1> HIDE DEF all, IsGauge, IsFixed
<1>6. ASSUME NEW s \in all, NEW r \in all, s.name = r.name, s.labels = r.labels PROVE s = r
  BY <1>1, <1>2, <1>3, <1>4, <1>5, <1>6
<1> QED  BY <1>6 DEF OneOf, all

\* No two inventory samples of a cycle have one name and the same labels.
LEMMA InventoryOne ==
    ASSUME NEW c \in Clusters, NEW n \in DOMAIN Gateway[c], Gateway[c][n].ok
    PROVE  OneOf(InventorySamples(c, Gateway[c][n].in))
<1> DEFINE in == Gateway[c][n].in
           F(x, k) == Sample("System", InventoryField[k], BaseLabels(c, in), <<x.counts[k], 1>>)
           systems == Range(Objects(in, "System"))
           ks == DOMAIN InventoryField
           all == InventorySamples(c, in)
<1>1. ASSUME NEW s \in all PROVE \E k \in ks : \E x \in systems : s = F(x, k)
  <2>1. s \in {F(x, k) : x \in systems, k \in ks}  BY DEF InventorySamples
  <2> HIDE DEF F, systems, ks
  <2> QED  BY <2>1
<1>2. \A k, l \in ks : InventoryField[k] = InventoryField[l] => k = l  BY DEF InventoryField
<1>3. \A x, y \in systems : x = y  BY OneObject
<1>4. \A x, k : F(x, k).name[2] = InventoryField[k]
  <2> DEFINE field(k) == InventoryField[k]
  <2> HIDE DEF field
  <2>1. \A x, k : Sample("System", field(k), BaseLabels(c, in), <<x.counts[k], 1>>).name[2] = field(k)
    BY DEF Sample
  <2> QED  BY <2>1 DEF field
<1> HIDE DEF F, systems, ks, all
<1>5. ASSUME NEW s \in all, NEW r \in all, s.name = r.name PROVE s = r
  <2>1. PICK k \in ks : \E x \in systems : s = F(x, k)  BY <1>1
  <2>2. PICK l \in ks : \E x \in systems : r = F(x, l)  BY <1>1
  <2>3. k = l  BY <1>2, <1>4, <1>5, <2>1, <2>2
  <2> QED  BY <1>3, <2>1, <2>2, <2>3
<1> QED  BY <1>5 DEF OneOf, all

\* What a cycle collects of a cluster has no two samples of one name and the same
\* labels: fresh and reused statistics are of different types.
LEMMA CollectedOne ==
    ASSUME "System" \notin SlowTypes,
           NEW c \in Clusters, NEW j, j.answer \in DOMAIN Gateway[c],
           \A key \in DOMAIN j.enriched : Within(j.enriched[key], KubernetesKeys),
           OneOf(store[c].samples)
    PROVE  OneOf(Collected(c, j).samples)
<1> DEFINE a == Gateway[c][j.answer]
           p == Path(a)
           in == a.in
           stats == Stats(c, a, p)
           all == Collected(c, j).samples
           A == StatSamples(p, c, in, stats, j.enriched)
           B == DeriveStateSamples(p, c, in)
           C == InventorySamples(c, in)
           D == IF p = "gen2" THEN ReusePrior(store[c].samples, Skip(c)) ELSE {}
<1>1. all = {} \/ (a.ok /\ p \in {"gen1", "gen2"} /\ all = ((A \cup B) \cup C) \cup D)
  <2>1. all = {} \/ (a.ok /\ p \in {"gen1", "gen2"} /\ all = BuildSamples(p, c, in, stats, j.enriched) \cup D)
    <3> HIDE DEF p, D
    <3> QED  BY CollectedParts DEF p, D
  <2> HIDE DEF p, D, all
  <2> QED  BY <2>1 DEF BuildSamples
<1>2. CASE all = {}  BY <1>2 DEF OneOf
<1>3. CASE a.ok /\ p \in {"gen1", "gen2"} /\ all = ((A \cup B) \cup C) \cup D
  <2>1. Good(p, stats)
    <3> HIDE DEF p
    <3>1. Path(a) # "none"  BY <1>3 DEF p
    <3> QED  BY <1>3, <3>1, StatsGood DEF p
  <2>2. OneOf(A)
    <3> HIDE DEF p, stats
    <3> QED  BY <1>3, <2>1, StatsOne
  <2>3. OneOf(B) /\ OneOf(C)  BY <1>3, StatesOne, InventoryOne
  <2>4. OneOf(D)  BY DEF OneOf, ReusePrior
  <2>5. p = "gen2" => DOMAIN stats \cap Skip(c) = {}
    <3> HIDE DEF a, p
    <3> QED  BY DEF Stats
  <2>6. Skip(c) \subseteq SlowTypes  BY DEF Skip
  <2> HIDE DEF a, p, in, stats, all
  <2>7. ASSUME NEW s \in A
        PROVE  /\ ~IsStateMetric(s.name) /\ s.name[2] \notin Range(InventoryField)
               /\ s.name[1] \in DOMAIN stats
    <3>1. PICK t \in BuilderTypes[p] \cup {"System"} : \E o \in Derivable(p, in, stats, t) :
              s.name[1] = t /\ FromLabels(s, StatLabels(p, c, in, j.enriched, t, o))
      BY StatShape
    <3>2. s.name[1] \in DOMAIN stats  BY <3>1, Zenon DEF Derivable, HasStats
    <3> QED  BY <1>3, <2>1, <3>2, StatNamed
  <2>8. ASSUME NEW s \in B PROVE IsStateMetric(s.name)  BY StateShape
  <2>9. ASSUME NEW s \in C
        PROVE  ~IsStateMetric(s.name) /\ s.name[2] \in Range(InventoryField) /\ s.name[1] = "System"
    BY InventoryNamed, InventoryShape
  <2>10. ASSUME NEW s \in D PROVE ~IsStateMetric(s.name) /\ s.name[1] \in Skip(c) /\ p = "gen2"
    BY DEF ReusePrior
  <2> HIDE DEF A, B, C, D
  <2>11. ASSUME NEW s \in all, NEW r \in all, s.name = r.name, s.labels = r.labels PROVE s = r
    <3>1. (s \in A /\ r \in A) \/ (s \in B /\ r \in B) \/ (s \in C /\ r \in C) \/ (s \in D /\ r \in D)
      BY <1>3, <2>5, <2>6, <2>7, <2>8, <2>9, <2>10, <2>11
    <3> QED  BY <2>2, <2>3, <2>4, <2>11, <3>1 DEF OneOf
  <2> QED  BY <2>11 DEF OneOf, all
<1> QED  BY <1>1, <1>2, <1>3

-----------------------------------------------------------------------------
(* The steps of a cycle.                                                    *)

ReadsInv == \A c \in Clusters : AllReadShaped(job[c])
\* A goroutine of c that is ready to return.
Returns(c, j) ==
    /\ j.answer \in DOMAIN Gateway[c] /\ AllReadShaped(j) /\ HasRead(c, j)
    /\ \A key \in DOMAIN j.enriched : Within(j.enriched[key], KubernetesKeys)

ShapeInv ==
    \A c \in Clusters : \A s \in result[c].samples \cup store[c].samples : Shaped(c, s)
OneInv == \A c \in Clusters : OneOf(result[c].samples) /\ OneOf(store[c].samples)

\* Which names a metric has depends on nothing that a step changes.
LEMMA ShapesStay ==
    ASSUME enabled' = enabled
    PROVE  /\ \A key, labels : ReadShaped(key, labels)' <=> ReadShaped(key, labels)
           /\ \A c, s : Shaped(c, s)' <=> Shaped(c, s)
BY DEF ReadShaped, ReadList, Shaped, NameList, StatList

\* A goroutine reads labels until every object has some, and then returns.
LEMMA ProceedReads ==
    ASSUME CollectTypeOK, ReadsInv, enabled' = enabled, UNCHANGED store,
           NEW c \in Clusters, NEW j, Proceed(c, j), AllReadShaped(j), JobReads(c, j), j.pc = "labels"
    PROVE  /\ ReadsInv'
           /\ \A d \in Clusters :
                  \/ result'[d] \in {result[d], Blank} /\ store'[d] \in {store[d], result[d]}
                  \/ \E k : Returns(d, k) /\ result'[d] = Collected(d, k) /\ store'[d] = store[d]
<1>1. \A d \in Clusters \ {c} : job'[d] = job[d] /\ result'[d] = result[d]
  BY DEF Proceed, CollectTypeOK
<1>2. /\ job'[c] \in {j, Done}
      /\ result'[c] = result[c] \/ (HasRead(c, j) /\ result'[c] = Collected(c, j))
  BY DEF Proceed, CollectTypeOK, HasRead
<1>3. AllReadShaped(Done)  BY DEF AllReadShaped, Done, Queued, NoMap
<1>4. ReadsInv'
  <2>1. \A d \in Clusters : AllReadShaped(job'[d])  BY <1>1, <1>2, <1>3 DEF ReadsInv
  <2> QED  BY <2>1, ShapesStay DEF ReadsInv, AllReadShaped
<1>5. HasRead(c, j) => Returns(c, j)  BY DEF Returns, JobReads
<1> QED  BY <1>1, <1>2, <1>4, <1>5

\* A step changes the snapshots only by a return, a publication or a reset.
LEMMA NextReads ==
    ASSUME ExpositionInv, IdentityInv, ReadsInv, [Next]_vars
    PROVE  /\ ReadsInv' /\ enabled' = enabled
           /\ \A d \in Clusters :
                  \/ result'[d] \in {result[d], Blank} /\ store'[d] \in {store[d], result[d]}
                  \/ \E k : Returns(d, k) /\ result'[d] = Collected(d, k) /\ store'[d] = store[d]
<1> DEFINE Goal == /\ ReadsInv'
                   /\ \A d \in Clusters :
                          \/ result'[d] \in {result[d], Blank} /\ store'[d] \in {store[d], result[d]}
                          \/ \E k : Returns(d, k) /\ result'[d] = Collected(d, k) /\ store'[d] = store[d]
<1>0. CollectTypeOK /\ EnrichmentTypeOK  BY DEF ExpositionInv, EnrichmentInv
<1>00. enabled' = enabled
  <2>1. [EnrichmentNext]_enrichmentVars
    BY DEF Next, vars, CollectStep, StartCycle, Publish, Fetch, ReadLabels, EnsureStep, EnsureLoad,
           EnsureRegister
  <2> QED  BY <1>0, <2>1, StepsInTime
<1>s. \A key, labels : ReadShaped(key, labels)' <=> ReadShaped(key, labels)  BY <1>00, ShapesStay
<1>1. ASSUME UNCHANGED collectVars PROVE Goal
  <2>1. job' = job /\ result' = result /\ store' = store  BY <1>1 DEF collectVars
  <2>2. ReadsInv'  BY <1>s, <2>1 DEF ReadsInv, AllReadShaped
  <2> QED  BY <2>1, <2>2
<1>2. ASSUME StartCycle PROVE Goal
  <2>1. DOMAIN Queued.enriched = {}  BY DEF Queued, NoMap
  <2>2. ReadsInv'  BY <1>2, <2>1 DEF StartCycle, ReadsInv, AllReadShaped
  <2>3. \A d \in Clusters : result'[d] = Blank /\ store'[d] = store[d]  BY <1>2 DEF StartCycle
  <2> QED  BY <2>2, <2>3
<1>3. ASSUME Publish PROVE Goal
  <2>1. job' = job /\ result' = result /\ store' = result  BY <1>3 DEF Publish
  <2>2. ReadsInv'  BY <1>s, <2>1 DEF ReadsInv, AllReadShaped
  <2> QED  BY <2>1, <2>2
<1>4. ASSUME NEW c \in Clusters, Fetch(c) PROVE Goal
  <2>1. PICK a \in DOMAIN Gateway[c] : Proceed(c, [pc |-> "labels", answer |-> a, enriched |-> NoMap])
    BY <1>4 DEF Fetch
  <2> DEFINE j == [pc |-> "labels", answer |-> a, enriched |-> NoMap]
  <2>2. JobReads(c, j) /\ AllReadShaped(j) /\ j.pc = "labels"  BY DEF JobReads, AllReadShaped, NoMap
  <2>3. Proceed(c, j)  BY <2>1
  <2>4. UNCHANGED store  BY <1>4 DEF Fetch
  <2> HIDE DEF j
  <2> QED  BY <1>0, <1>00, <2>2, <2>3, <2>4, ProceedReads
<1>5. ASSUME NEW c \in Clusters, ReadLabels(c) PROVE Goal
  <2>1. PICK k \in ToRead(c, job[c]) :
            LET key == <<k[1], k[2].id>>
                before == job[c].enriched
                with == [x \in DOMAIN before \cup {key} |-> IF x = key THEN Read(k[2], k[1]) ELSE before[x]]
            IN Proceed(c, [job[c] EXCEPT !.enriched = with])
    BY <1>5, Zenon DEF ReadLabels
  <2> DEFINE key == <<k[1], k[2].id>>
             before == job[c].enriched
             map == [x \in DOMAIN before \cup {key} |-> IF x = key THEN Read(k[2], k[1]) ELSE before[x]]
             j == [job[c] EXCEPT !.enriched = map]
  <2>2. Proceed(c, j)  BY <2>1, Zenon
  <2>3. j.enriched = map /\ j.pc = job[c].pc /\ j.answer = job[c].answer  BY <1>0 DEF CollectTypeOK, JobOK
  <2>4. enabled /\ k[1] \in EnrichedTypes
    <3> DEFINE a == Gateway[c][job[c].answer]
               p == Path(a)
               S(t) == {<<t, o>> : o \in Derivable(p, a.in, Stats(c, a, p), t)}
    <3>1. ToRead(c, job[c]) = IF ~enabled \/ p = "none" THEN {} ELSE UNION {S(t) : t \in EnrichedTypes}
      BY Zenon DEF ToRead
    <3>2. \A t : \A x \in S(t) : x[1] = t  OBVIOUS
    <3> HIDE DEF S, p
    <3> QED  BY <3>1, <3>2
  <2>5. ReadShaped(key, Read(k[2], k[1]))  BY <2>4, ReadKeyed
  <2>6. Within(Read(k[2], k[1]), KubernetesKeys)  BY ReadWithin
  <2>7. JobReads(c, job[c]) /\ AllReadShaped(job[c]) /\ job[c].pc = "labels"
    BY <1>5 DEF IdentityInv, ReadsInv, ReadLabels
  <2> HIDE DEF key
  <2>8. \A x \in DOMAIN map : Within(map[x], KubernetesKeys) /\ ReadShaped(x, map[x])
    BY <2>5, <2>6, <2>7 DEF JobReads, AllReadShaped
  <2> HIDE DEF map, j
  <2>9. JobReads(c, j) /\ AllReadShaped(j) /\ j.pc = "labels"
    BY <2>3, <2>7, <2>8 DEF JobReads, AllReadShaped
  <2>10. UNCHANGED store  BY <1>5 DEF ReadLabels
  <2> QED  BY <1>0, <1>00, <2>2, <2>9, <2>10, ProceedReads
<1> HIDE DEF Goal
<1>6. Goal
  BY <1>1, <1>2, <1>3, <1>4, <1>5 DEF Next, vars, CollectStep, EnsureStep, EnsureLoad, EnsureRegister, Goal
<1> QED  BY <1>00, <1>6 DEF Goal

ExportInv == ExpositionInv /\ IdentityInv /\ ReadsInv /\ ShapeInv /\ HealthInv

\* Nothing is collected or published yet.
LEMMA InitExport == Init => ExportInv /\ OneInv
<1> SUFFICES ASSUME Init PROVE ExportInv /\ OneInv  OBVIOUS
<1>1. Blank.samples = {} /\ ~Blank.up /\ DOMAIN Done.enriched = {}
  BY DEF Blank, Done, Queued, NoMap
<1>2. \A c \in Clusters : job[c] = Done /\ result[c] = Blank /\ store[c] = Blank  BY DEF Init
<1>3. ReadsInv  BY <1>1, <1>2 DEF ReadsInv, AllReadShaped
<1>4. ShapeInv  BY <1>1, <1>2 DEF ShapeInv
<1>5. HealthInv  BY <1>1, <1>2 DEF HealthInv, HealthOK
<1>6. OneInv  BY <1>1, <1>2 DEF OneInv, OneOf
<1> QED  BY <1>3, <1>4, <1>5, <1>6, InitExposition, InitIdentity DEF ExportInv

\* The step: a return is covered by the lemmas on Collected, the rest copies.
LEMMA NextExport == ExportInv /\ [Next]_vars => ExportInv'
<1> SUFFICES ASSUME ExportInv, [Next]_vars PROVE ExportInv'  OBVIOUS
<1>1. /\ ReadsInv' /\ enabled' = enabled
      /\ \A d \in Clusters :
            \/ result'[d] \in {result[d], Blank} /\ store'[d] \in {store[d], result[d]}
            \/ \E k : Returns(d, k) /\ result'[d] = Collected(d, k) /\ store'[d] = store[d]
  BY NextReads DEF ExportInv
<1>2. ASSUME NEW d \in Clusters
      PROVE  /\ \A s \in result'[d].samples \cup store'[d].samples : Shaped(d, s)
             /\ HealthOK(d, result'[d]) /\ HealthOK(d, store'[d])
  <2>1. /\ \A s \in result[d].samples \cup store[d].samples : Shaped(d, s)
        /\ HealthOK(d, result[d]) /\ HealthOK(d, store[d])
    BY DEF ExportInv, ShapeInv, HealthInv
  <2>2. Blank.samples = {} /\ HealthOK(d, Blank)  BY DEF Blank, HealthOK
  <2>3. CASE result'[d] \in {result[d], Blank} /\ store'[d] \in {store[d], result[d]}
    BY <2>1, <2>2, <2>3
  <2>4. ASSUME NEW k, Returns(d, k), result'[d] = Collected(d, k), store'[d] = store[d]
        PROVE  /\ \A s \in result'[d].samples \cup store'[d].samples : Shaped(d, s)
               /\ HealthOK(d, result'[d]) /\ HealthOK(d, store'[d])
    <3>1. HealthOK(d, Collected(d, k))  BY <2>4, CollectedHealth DEF Returns
    <3>2. \A s \in Collected(d, k).samples : Shaped(d, s)  BY <2>1, <2>4, CollectedShaped DEF Returns
    <3> QED  BY <2>1, <2>4, <3>1, <3>2
  <2> QED  BY <1>1, <2>3, <2>4
<1>3. ShapeInv'  BY <1>1, <1>2, ShapesStay DEF ShapeInv
<1>4. HealthInv'  BY <1>2 DEF HealthInv, HealthOK
<1> QED  BY <1>1, <1>3, <1>4, NextExposition, NextIdentity DEF ExportInv

\* The inductive invariant of what is exported.
THEOREM AlwaysExport == Spec => []ExportInv
BY InitExport, NextExport, PTL DEF Spec

\* The step for OneInv: reused samples are of the slow types only.
LEMMA NextOne ==
    ASSUME "System" \notin SlowTypes, ExportInv, OneInv, [Next]_vars
    PROVE  OneInv'
<1>1. \A d \in Clusters :
            \/ result'[d] \in {result[d], Blank} /\ store'[d] \in {store[d], result[d]}
            \/ \E k : Returns(d, k) /\ result'[d] = Collected(d, k) /\ store'[d] = store[d]
  BY NextReads DEF ExportInv
<1>2. ASSUME NEW d \in Clusters PROVE OneOf(result'[d].samples) /\ OneOf(store'[d].samples)
  <2>1. OneOf(result[d].samples) /\ OneOf(store[d].samples)  BY DEF OneInv
  <2>2. OneOf(Blank.samples)  BY DEF Blank, OneOf
  <2>3. CASE result'[d] \in {result[d], Blank} /\ store'[d] \in {store[d], result[d]}
    BY <2>1, <2>2, <2>3
  <2>4. ASSUME NEW k, Returns(d, k), result'[d] = Collected(d, k), store'[d] = store[d]
        PROVE  OneOf(result'[d].samples) /\ OneOf(store'[d].samples)
    BY <2>1, <2>4, CollectedOne DEF Returns
  <2> QED  BY <1>1, <2>3, <2>4
<1> QED  BY <1>2 DEF OneInv, OneOf

\* The health gauge of every published snapshot is that of an object the gateway
\* listed and classifies its reported states: 0 only when all are healthy, 2 exactly
\* when one is neither healthy nor transitional. No statistic, inventory sample or
\* reused sample is ever named like a gauge (deriveStateSamples, isStateMetric in
\* reusePriorSlowSamples).
THEOREM HealthIsHonest == Spec => []HealthHonest
<1>1. ExportInv => HealthHonest  BY HealthProper DEF ExportInv
<1> QED  BY <1>1, AlwaysExport, PTL

\* Labels with the same names and the same values are the same.
LEMMA ValuesTell ==
    ASSUME NEW p, NEW q, NEW keys, NEW K, NEW M, Keyed(p.labels, keys, K), Keyed(q.labels, keys, M)
    PROVE  /\ Keys(p) = keys /\ Keys(q) = keys
           /\ Values(p) = Values(q) => p.labels = q.labels
<1> DEFINE a == p.labels
           b == q.labels
           n == Len(keys)
<1>1. /\ n \in Nat /\ keys \in Seq(K) /\ DOMAIN keys = 1 .. n
      /\ a \in Seq(Range(a)) /\ DOMAIN a = 1 .. n /\ b \in Seq(Range(b)) /\ DOMAIN b = 1 .. n
      /\ \A i \in 1 .. n : a[i] = <<keys[i], a[i][2]>>
      /\ \A i \in 1 .. n : b[i] = <<keys[i], b[i][2]>>
  BY DEF Keyed
<1> HIDE DEF n
<1>2. /\ Keys(p) = [i \in 1 .. n |-> a[i][1]] /\ Values(p) = [i \in 1 .. n |-> a[i][2]]
      /\ Keys(q) = [i \in 1 .. n |-> b[i][1]] /\ Values(q) = [i \in 1 .. n |-> b[i][2]]
  BY <1>1 DEF Keys, Values
<1> HIDE DEF a, b
<1>0. ASSUME NEW S, NEW f \in Seq(S), DOMAIN f = 1 .. n
      PROVE  f = [i \in 1 .. n |-> f[i]]
  <2>1. \E m \in Nat : f \in [1 .. m -> S]  BY <1>0
  <2> QED  BY <1>0, <2>1, Zenon
<1>3. keys = [i \in 1 .. n |-> keys[i]] /\ a = [i \in 1 .. n |-> a[i]] /\ b = [i \in 1 .. n |-> b[i]]
  <2>1. keys = [i \in 1 .. n |-> keys[i]]  BY <1>0, <1>1
  <2>2. a = [i \in 1 .. n |-> a[i]]  BY <1>0, <1>1
  <2>3. b = [i \in 1 .. n |-> b[i]]  BY <1>0, <1>1
  <2> QED  BY <2>1, <2>2, <2>3
<1>4. \A i \in 1 .. n : a[i][1] = keys[i] /\ b[i][1] = keys[i]  BY <1>1
<1>5. Keys(p) = keys /\ Keys(q) = keys  BY <1>2, <1>3, <1>4
<1>6. ASSUME Values(p) = Values(q) PROVE a = b
  <2>1. \A i \in 1 .. n : a[i][2] = b[i][2]  BY <1>2, <1>6
  <2>2. \A i \in 1 .. n : a[i] = b[i]  BY <1>1, <2>1
  <2> QED  BY <1>3, <2>2
<1> QED  BY <1>5, <1>6 DEF a, b

\* A scrape never meets two samples of one metric with the same label values, label
\* names that repeat, or two label lists under one metric name: those are what the
\* Prometheus collector would have to refuse. It needs the System type not to be
\* configured slow: with it, the cluster's statistics are both fresh and reused.
THEOREM FaithfulScrape ==
    ASSUME "System" \notin SlowTypes
    PROVE  Spec => []ScrapeIsFaithful
<1>1. ExportInv /\ OneInv => ScrapeIsFaithful
  <2> SUFFICES ASSUME ExportInv, OneInv, NEW p \in Served
               PROVE  /\ IsInjective(Keys(p))
                      /\ \A q \in Served : q.name = p.name =>
                             Keys(p) = Keys(q) /\ (Values(p) = Values(q) => p = q)
    BY Zenon DEF ScrapeIsFaithful
  <2>1. PICK c \in Clusters : p \in store[c].samples  BY DEF Served
  <2>2. Shaped(c, p)  BY <2>1 DEF ExportInv, ShapeInv
  <2>3. PICK K : Labelled(p.labels, c, NameList(p.name), K)  BY <2>2 DEF Shaped
  <2>4. IsInjective(Keys(p))
    <3>1. Keyed(p.labels, NameList(p.name), K)  BY <2>3 DEF Labelled
    <3>2. Keys(p) = NameList(p.name)  BY <3>1, ValuesTell
    <3> QED  BY <3>1, <3>2 DEF Keyed
  <2>5. ASSUME NEW q \in Served, q.name = p.name
        PROVE  Keys(p) = Keys(q) /\ (Values(p) = Values(q) => p = q)
    <3>1. PICK d \in Clusters : q \in store[d].samples  BY DEF Served
    <3>2. Shaped(d, q)  BY <3>1 DEF ExportInv, ShapeInv
    <3>3. PICK M : Labelled(q.labels, d, NameList(p.name), M)  BY <2>5, <3>2 DEF Shaped
    <3>4. Keys(p) = Keys(q) /\ (Values(p) = Values(q) => p.labels = q.labels)
      BY <2>3, <3>3, ValuesTell DEF Labelled
    <3>5. ASSUME Values(p) = Values(q) PROVE p = q
      <4>1. p.labels = q.labels  BY <3>4, <3>5
      <4>2. <<"cluster", c>> = <<"cluster", d>>  BY <2>3, <3>3, <4>1 DEF Labelled, Headed
      <4>3. c = d  BY <4>2
      <4> QED  BY <2>1, <2>5, <3>1, <4>1, <4>3 DEF OneInv, OneOf
    <3> QED  BY <3>4, <3>5
  <2> QED  BY <2>4, <2>5
<1>2. Init => ExportInv /\ OneInv  BY InitExport
<1>3. ExportInv /\ OneInv /\ [Next]_vars => ExportInv' /\ OneInv'  BY NextExport, NextOne
<1> QED  BY <1>1, <1>2, <1>3, PTL DEF Spec

=============================================================================
