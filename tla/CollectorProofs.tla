---------------------------- MODULE CollectorProofs ----------------------------
(***************************************************************************)
(* Proofs about the collection loop, for any clusters, object types, slow  *)
(* types, decimation, concurrency cap and timeouts.                        *)
(***************************************************************************)
EXTENDS Collector, TLAPS

\* Between cycles no goroutine runs; during one, the store is what it was when
\* the cycle began.
LoopShape ==
    /\ ~polling => \A c \in Clusters : pc[c] = "done"
    /\ polling => prior = store

\* A snapshot is honest: up without an error, or down with nothing but an error.
Honest(s) ==
    /\ s.up => ~s.scrapeError /\ s.generation # "none"
    /\ ~s.up => s.samples = {} /\ s.scrapeError

\* How far collectCluster got, seen in the snapshot under construction.
ResultShape ==
    polling => \A c \in Clusters :
        /\ pc[c] \in {"queued", "instances"} => result[c] = Blank
        /\ pc[c] \in {"v5", "v5fallback", "gen1", "gen1fallback"} =>
            ~result[c].up /\ result[c].generation # "none" /\ result[c].samples = {}
        /\ pc[c] = "done" => Honest(result[c])

StoreShape == \A c \in Clusters : store[c] = Blank \/ Honest(store[c])

\* What the position in the decimation round says about the age of samples.
MaxAge == IF cycle = 0 THEN EveryN - 1 ELSE cycle - 1

AgeInv ==
    /\ \A c \in Clusters : \A s \in store[c].samples : s.age <= MaxAge
    /\ polling => \A c \in Clusters : \A s \in result[c].samples : s.age <= cycle

\* State samples are new in both.
FreshInv ==
    /\ StateIsFresh
    /\ polling => \A c \in Clusters : \A s \in result[c].samples : s.kind = "state" => s.age = 0

LoopInv ==
    TypeOK /\ LoopShape /\ ResultShape /\ StoreShape /\ AgeInv /\ FreshInv

-----------------------------------------------------------------------------
(* Samples.                                                                 *)

\* What buildSamplesGen1 and buildSamplesGen2 return: fresh samples.
LEMMA BuildFresh ==
    ASSUME NEW src \in {"gen1", "gen2"}, NEW answered \in SUBSET Types, NEW generation,
           NEW samples \in Built(src, answered, generation)
    PROVE  /\ samples \subseteq Sample
           /\ \A s \in samples : s.age = 0
<1>1. SystemType \in Types
    BY CollectorAssumption DEF Types
<1>2. \A t \in Types, kind \in {"stat", "state", "inventory"} :
        Fresh(t, kind, src) \in Sample /\ Fresh(t, kind, src).age = 0
    BY DEF Fresh, Sample
<1>3. CASE samples = {}
    BY <1>3
<1>4. CASE samples = BuildSamples(src, answered)
    BY <1>1, <1>2, <1>4 DEF BuildSamples, Types
<1> QED BY <1>3, <1>4 DEF Built

\* What reusePriorStatSamples returns: samples of the prior snapshot, one cycle
\* older, none of them a state metric.
LEMMA ReuseAges ==
    ASSUME NEW p, p.samples \subseteq Sample, NEW skip
    PROVE  /\ ReusePrior(p, skip) \subseteq Sample
           /\ \A s \in ReusePrior(p, skip) :
                /\ s.kind # "state"
                /\ \E x \in p.samples : s.age = x.age + 1
<1> SUFFICES ASSUME NEW s \in ReusePrior(p, skip)
             PROVE  s \in Sample /\ s.kind # "state" /\ \E x \in p.samples : s.age = x.age + 1
    OBVIOUS
<1>1. PICK x \in p.samples : x.kind # "state" /\ s = [x EXCEPT !.age = @ + 1]
    BY DEF ReusePrior
<1>2. x \in Sample
    OBVIOUS
<1>3. s \in Sample /\ s.age = x.age + 1 /\ s.kind = x.kind
    BY <1>1, <1>2 DEF Sample
<1> QED BY <1>1, <1>3

\* A cluster whose goroutine has not returned is polled in a running cycle.
LEMMA RunningPolls ==
    ASSUME LoopInv, NEW c \in Clusters, pc[c] # "done"
    PROVE  polling
BY DEF LoopInv, LoopShape

-----------------------------------------------------------------------------
(* One goroutine's step: only c's snapshot and program counter move.        *)

LEMMA GoroutineStep ==
    ASSUME LoopInv, polling, NEW c \in Clusters,
           NEW r \in ClusterSnapshot,
           NEW at \in {"instances", "v5", "v5fallback", "gen1", "gen1fallback", "done"},
           result' = [result EXCEPT ![c] = r],
           pc' = [pc EXCEPT ![c] = at],
           UNCHANGED <<cycleVars, elapsed>>,
           started' \in [Clusters -> Nat], hung' \in [Clusters -> HungKinds],
           fault' \in [Clusters -> {"none", "partial", "total"}],
           at = "instances" => r = Blank,
           at \in {"v5", "v5fallback", "gen1", "gen1fallback"} =>
               ~r.up /\ r.generation # "none" /\ r.samples = {},
           at = "done" => Honest(r),
           \A s \in r.samples : s.age <= cycle /\ (s.kind = "state" => s.age = 0)
    PROVE  LoopInv'
<1> USE DEF LoopInv
<1>1. UNCHANGED <<mode, polling, cycle, store, prior, cancelled, elapsed>>
    BY DEF cycleVars
<1>2. TypeOK'
    BY <1>1 DEF TypeOK
<1>3. /\ pc'[c] = at /\ result'[c] = r
      /\ \A d \in Clusters : d # c => pc'[d] = pc[d] /\ result'[d] = result[d]
    BY DEF TypeOK
<1>4. LoopShape' /\ StoreShape'
    BY <1>1 DEF LoopShape, StoreShape
<1>5. ResultShape'
    BY <1>1, <1>3 DEF ResultShape
<1>6. AgeInv'
    BY <1>1, <1>3 DEF AgeInv, MaxAge
<1>7. FreshInv'
    BY <1>1, <1>3 DEF FreshInv, StateIsFresh
<1> QED BY <1>2, <1>4, <1>5, <1>6, <1>7

LEMMA StartClusterLoop ==
    ASSUME LoopInv, NEW c \in Clusters, StartCluster(c)
    PROVE  LoopInv'
<1>1. polling
    BY RunningPolls DEF StartCluster
<1>2. result[c] = Blank /\ result[c] \in ClusterSnapshot
    BY <1>1 DEF StartCluster, LoopInv, ResultShape, TypeOK
<1>3. result' = [result EXCEPT ![c] = result[c]] /\ pc' = [pc EXCEPT ![c] = "instances"]
    BY DEF StartCluster, LoopInv, TypeOK
<1>4. /\ started' \in [Clusters -> Nat] /\ hung' \in [Clusters -> HungKinds]
      /\ fault' \in [Clusters -> {"none", "partial", "total"}]
    BY DEF StartCluster, LoopInv, TypeOK, env
<1>5. UNCHANGED <<cycleVars, elapsed>> /\ result[c].samples = {}
    BY <1>2 DEF StartCluster, Blank
<1> QED BY <1>1, <1>2, <1>3, <1>4, <1>5, GoroutineStep

LEMMA InstancesLoop ==
    ASSUME LoopInv, NEW c \in Clusters, Instances(c)
    PROVE  LoopInv'
<1>1. polling
    BY RunningPolls DEF Instances
<1>2. PICK gen \in {"gen1", "gen2", "unknown"} :
        /\ result' = [result EXCEPT ![c].generation = gen]
        /\ pc' = [pc EXCEPT ![c] = IF gen = "gen2" THEN "v5" ELSE "gen1"]
    BY DEF Instances
<1>3. result[c] = Blank /\ result \in [Clusters -> ClusterSnapshot]
    BY <1>1 DEF Instances, LoopInv, ResultShape, TypeOK
<1> DEFINE r == [Blank EXCEPT !.generation = gen]
<1>4. result' = [result EXCEPT ![c] = r]
    BY <1>2, <1>3
<1>5. /\ r \in ClusterSnapshot /\ ~r.up /\ r.generation # "none" /\ r.samples = {}
    BY DEF Blank, ClusterSnapshot
<1>6. /\ started' \in [Clusters -> Nat] /\ hung' \in [Clusters -> HungKinds]
      /\ fault' \in [Clusters -> {"none", "partial", "total"}]
      /\ UNCHANGED <<cycleVars, elapsed>>
    BY DEF Instances, LoopInv, TypeOK, env
<1>7. \A s \in r.samples : s.age <= cycle /\ (s.kind = "state" => s.age = 0)
    BY <1>5
<1> HIDE DEF r
<1>8. CASE gen = "gen2"
    BY <1>1, <1>2, <1>4, <1>5, <1>6, <1>7, <1>8, GoroutineStep
<1>9. CASE gen # "gen2"
    BY <1>1, <1>2, <1>4, <1>5, <1>6, <1>7, <1>9, GoroutineStep
<1> QED BY <1>8, <1>9

\* A statistics path succeeds with samples that are fresh enough.
LEMMA SucceedLoop ==
    ASSUME LoopInv, NEW c \in Clusters, pc[c] \in {"v5", "v5fallback", "gen1", "gen1fallback"},
           NEW gen \in {"gen1", "gen2", "unknown"}, NEW samples \in SUBSET Sample,
           NEW answered, Succeed(c, gen, samples), Degrade(c, answered),
           pc' = [pc EXCEPT ![c] = "done"],
           UNCHANGED <<cycleVars, elapsed, started, hung>>,
           \A s \in samples : s.age <= cycle /\ (s.kind = "state" => s.age = 0)
    PROVE  LoopInv'
<1>1. polling
    BY RunningPolls
<1> DEFINE r == [up |-> TRUE, generation |-> gen, scrapeError |-> FALSE, samples |-> samples]
<1>2. r \in ClusterSnapshot /\ Honest(r) /\ r.samples = samples
    BY DEF ClusterSnapshot, Honest
<1>3. result' = [result EXCEPT ![c] = r]
    BY DEF Succeed
<1>4. /\ started' \in [Clusters -> Nat] /\ hung' \in [Clusters -> HungKinds]
    BY DEF LoopInv, TypeOK
<1>5. fault' \in [Clusters -> {"none", "partial", "total"}]
    BY DEF Degrade, LoopInv, TypeOK
<1> HIDE DEF r
<1> QED BY <1>1, <1>2, <1>3, <1>4, <1>5, GoroutineStep

LEMMA CollectGen1Loop ==
    ASSUME LoopInv, NEW c \in Clusters, CollectGen1(c)
    PROVE  LoopInv'
<1>0. PICK answered \in SUBSET Gen1Types :
        /\ \E samples \in Built("gen1", answered, result[c].generation) :
            Succeed(c, result[c].generation, samples)
        /\ Degrade(c, answered)
    BY DEF CollectGen1
<1>1. PICK samples \in Built("gen1", answered, result[c].generation) :
        Succeed(c, result[c].generation, samples)
    BY <1>0
<1>2. answered \in SUBSET Types
    BY DEF Types
<1>3. pc[c] \in {"gen1", "gen1fallback"}
    BY DEF CollectGen1
<1>4. result[c].generation \in {"gen1", "gen2", "unknown"}
    BY <1>3, RunningPolls DEF LoopInv, ResultShape, TypeOK, ClusterSnapshot
<1>5. 0 <= cycle
    BY DEF LoopInv, TypeOK
<1>6. samples \in SUBSET Sample /\ \A s \in samples : s.age = 0
    BY <1>2, BuildFresh
<1>7. /\ pc' = [pc EXCEPT ![c] = "done"]
      /\ UNCHANGED <<cycleVars, elapsed, started, hung>>
    BY DEF CollectGen1
<1> QED
    BY <1>0, <1>1, <1>3, <1>4, <1>5, <1>6, <1>7, SucceedLoop

LEMMA CollectGen2Loop ==
    ASSUME LoopInv, NEW c \in Clusters, CollectGen2(c)
    PROVE  LoopInv'
<1> DEFINE skip == SlowSkip(prior[c])
           reused == ReusePrior(prior[c], skip)
<1>0. PICK answered \in SUBSET Gen2Types :
        /\ \E built \in Built("gen2", answered, result[c].generation) :
            Succeed(c, "gen2", built \cup reused)
        /\ Degrade(c, answered)
    BY DEF CollectGen2
<1>1. PICK built \in Built("gen2", answered, result[c].generation) :
        Succeed(c, "gen2", built \cup reused)
    BY <1>0
<1>2. answered \in SUBSET Types
    BY DEF Types
<1>3. pc[c] \in {"v5", "v5fallback"}
    BY DEF CollectGen2
<1>4. polling /\ prior = store
    BY <1>3, RunningPolls DEF LoopInv, LoopShape
<1>5. prior[c].samples \subseteq Sample
    BY DEF LoopInv, TypeOK, ClusterSnapshot
<1>6. reused \subseteq Sample
    BY <1>5, ReuseAges
<1>7. \A s \in reused : s.age <= cycle /\ s.kind # "state"
  <2> SUFFICES ASSUME NEW s \in reused PROVE s.age <= cycle /\ s.kind # "state"
      OBVIOUS
  <2>1. PICK x \in prior[c].samples : s.age = x.age + 1
    BY <1>5, ReuseAges
  <2>2. s.kind # "state"
    BY <1>5, ReuseAges
  <2>3. skip # {}
    BY DEF ReusePrior
  <2>4. cycle # 0
    BY <2>3 DEF SlowSkip
  <2>5. x.age <= cycle - 1 /\ x.age \in Nat
    BY <1>4, <1>5, <2>4 DEF LoopInv, AgeInv, MaxAge, Sample
  <2> QED BY <2>1, <2>2, <2>5 DEF LoopInv, TypeOK
<1> DEFINE samples == built \cup reused
<1>8. built \in SUBSET Sample /\ \A s \in built : s.age = 0
    BY <1>2, BuildFresh
<1>9. 0 <= cycle
    BY DEF LoopInv, TypeOK
<1>10. \A s \in samples : s.age <= cycle /\ (s.kind = "state" => s.age = 0)
    BY <1>7, <1>8, <1>9
<1>11. /\ pc' = [pc EXCEPT ![c] = "done"]
       /\ UNCHANGED <<cycleVars, elapsed, started, hung>>
    BY DEF CollectGen2
<1>12. Succeed(c, "gen2", samples) /\ Degrade(c, answered) /\ samples \in SUBSET Sample
    BY <1>0, <1>1, <1>6, <1>8
<1> HIDE DEF samples, skip
<1> QED BY <1>3, <1>10, <1>11, <1>12, SucceedLoop

LEMMA CallFailsLoop ==
    ASSUME LoopInv, NEW c \in Clusters, CallFails(c)
    PROVE  LoopInv'
<1>1. c \in Running /\ pc[c] \notin {"queued", "done"}
    BY DEF CallFails, Running
<1>2. polling
    BY <1>1, RunningPolls
<1> DEFINE r == [result[c] EXCEPT !.scrapeError = TRUE]
           at == CASE pc[c] = "v5" -> "gen1fallback"
                   [] pc[c] = "gen1" -> "v5fallback"
                   [] OTHER -> "done"
<1>3. /\ result' = [result EXCEPT ![c] = r] /\ pc' = [pc EXCEPT ![c] = at]
      /\ UNCHANGED <<cycleVars, elapsed>>
    BY DEF CallFails, LoopInv, TypeOK, ClusterSnapshot
<1>4. result[c] \in ClusterSnapshot /\ ~result[c].up /\ result[c].samples = {}
    BY <1>1, <1>2 DEF LoopInv, TypeOK, ResultShape, Blank
<1>5. r \in ClusterSnapshot /\ r.samples = {} /\ Honest(r)
      /\ ~r.up /\ r.generation = result[c].generation
    BY <1>4 DEF ClusterSnapshot, Honest
<1>6. at \in {"v5fallback", "gen1fallback", "done"}
    OBVIOUS
<1>7. at # "done" => r.generation # "none"
    BY <1>2, <1>5 DEF LoopInv, ResultShape
<1>8. /\ started' \in [Clusters -> Nat] /\ hung' \in [Clusters -> HungKinds]
      /\ fault' \in [Clusters -> {"none", "partial", "total"}]
    BY DEF CallFails, LoopInv, TypeOK
<1> HIDE DEF r, at
<1> QED BY <1>2, <1>3, <1>5, <1>6, <1>7, <1>8, GoroutineStep

-----------------------------------------------------------------------------
(* The loop's own steps and the environment's.                              *)

LEMMA InitLoop == Init => LoopInv
<1> SUFFICES ASSUME Init PROVE LoopInv
    OBVIOUS
<1>1. Blank \in ClusterSnapshot /\ Blank.samples = {}
    BY DEF Blank, ClusterSnapshot
<1>2. TypeOK
  <2>1. /\ store \in [Clusters -> ClusterSnapshot] /\ prior \in [Clusters -> ClusterSnapshot]
        /\ result \in [Clusters -> ClusterSnapshot]
    BY <1>1 DEF Init
  <2>2. cycle \in 0 .. EveryN - 1
    BY CollectorAssumption DEF Init
  <2>3. /\ pc \in [Clusters -> {"done"}] /\ started \in [Clusters -> Nat]
        /\ hung \in [Clusters -> HungKinds] /\ fault \in [Clusters -> {"none"}]
    BY DEF Init, HungKinds
  <2>4. mode = "startup" /\ polling = FALSE /\ elapsed = 0 /\ cancelled = FALSE
    BY DEF Init
  <2> QED BY <2>1, <2>2, <2>3, <2>4 DEF TypeOK
<1>3. /\ ~polling /\ \A c \in Clusters : pc[c] = "done" /\ store[c] = Blank
    BY DEF Init
<1>4. LoopShape /\ ResultShape /\ StoreShape
    BY <1>3 DEF LoopShape, ResultShape, StoreShape
<1>5. AgeInv /\ FreshInv
    BY <1>1, <1>3 DEF AgeInv, FreshInv, StateIsFresh
<1> QED BY <1>2, <1>4, <1>5 DEF LoopInv

LEMMA StartCycleLoop ==
    ASSUME LoopInv, StartCycle
    PROVE  LoopInv'
<1> USE DEF LoopInv
<1>1. Blank \in ClusterSnapshot /\ Blank.samples = {}
    BY DEF Blank, ClusterSnapshot
<1>2. TypeOK'
    BY <1>1 DEF StartCycle, TypeOK, HungKinds
<1>3. LoopShape' /\ StoreShape'
    BY DEF StartCycle, LoopShape, StoreShape
<1>4. ResultShape'
    BY DEF StartCycle, ResultShape
<1>5. AgeInv' /\ FreshInv'
    BY <1>1 DEF StartCycle, AgeInv, MaxAge, FreshInv, StateIsFresh
<1> QED BY <1>2, <1>3, <1>4, <1>5

LEMMA PublishLoop ==
    ASSUME LoopInv, Publish
    PROVE  LoopInv'
<1> USE DEF LoopInv
<1>1. /\ polling /\ ~polling' /\ store' = result
      /\ cycle' = IF cycle + 1 = EveryN THEN 0 ELSE cycle + 1
      /\ \A c \in Clusters : pc[c] = "done" /\ pc'[c] = "done"
    BY DEF Publish, TypeOK
<1>2. cycle \in 0 .. EveryN - 1 /\ EveryN \in Nat
    BY CollectorAssumption DEF TypeOK
<1>3. TypeOK'
  <2>1. Blank \in ClusterSnapshot
    BY DEF Blank, ClusterSnapshot
  <2>2. cycle' \in 0 .. EveryN - 1
    BY <1>1, <1>2
  <2>3. /\ mode' \in {"startup", "loop", "stopped"} /\ polling' \in BOOLEAN
        /\ store' \in [Clusters -> ClusterSnapshot]
        /\ prior' \in [Clusters -> ClusterSnapshot]
    BY <2>1 DEF Publish, TypeOK
  <2>4. UNCHANGED <<cancelled, elapsed, pc, started, result, hung, fault>>
    BY DEF Publish, env
  <2> QED BY <2>2, <2>3, <2>4 DEF TypeOK
<1>4. LoopShape' /\ ResultShape'
    BY <1>1 DEF LoopShape, ResultShape
<1>5. StoreShape'
    BY <1>1 DEF ResultShape, StoreShape
<1>6. AgeInv'
  <2>1. MaxAge' = cycle
    BY <1>1, <1>2 DEF MaxAge
  <2> QED BY <1>1, <2>1 DEF AgeInv
<1>7. FreshInv'
    BY <1>1 DEF FreshInv, StateIsFresh
<1> QED BY <1>3, <1>4, <1>5, <1>6, <1>7

\* Steps that touch no snapshot and no program counter.
LEMMA QuietLoop ==
    ASSUME LoopInv,
           StopLoop \/ Cancel \/ Tick \/ (\E c \in Clusters : Hang(c)) \/ UNCHANGED vars
    PROVE  LoopInv'
<1> USE DEF LoopInv
<1>1. UNCHANGED <<polling, cycle, store, prior, pc, started, result>>
    BY DEF StopLoop, Cancel, Tick, Hang, vars, cycleVars
<1>2. TypeOK'
  <2>1. /\ mode' \in {"startup", "loop", "stopped"} /\ cancelled' \in BOOLEAN
        /\ elapsed' \in Nat
    <3>1. mode \in {"startup", "loop", "stopped"} /\ cancelled \in BOOLEAN /\ elapsed \in Nat
      BY DEF TypeOK
    <3> HIDE DEF LoopInv
    <3>2. mode' \in {mode, "stopped"} /\ cancelled' \in {cancelled, TRUE}
      BY DEF StopLoop, Cancel, Tick, Hang, vars, cycleVars
    <3>3. elapsed' \in {elapsed, elapsed + 1}
      BY DEF StopLoop, Cancel, Tick, Hang, vars, cycleVars
    <3>4. elapsed' \in Nat
      BY <3>1, <3>3
    <3>5. cancelled' \in BOOLEAN /\ mode' \in {"startup", "loop", "stopped"}
      BY <3>1, <3>2
    <3> QED BY <3>4, <3>5
  <2>2. hung' \in [Clusters -> HungKinds] /\ fault' \in [Clusters -> {"none", "partial", "total"}]
    <3>1. CASE \E c \in Clusters : Hang(c)
      BY <3>1 DEF Hang, TypeOK, HungKinds
    <3>2. CASE StopLoop \/ Cancel \/ Tick \/ UNCHANGED vars
      BY <3>2 DEF StopLoop, Cancel, Tick, vars, env, TypeOK
    <3> QED BY <3>1, <3>2
  <2> QED BY <1>1, <2>1, <2>2 DEF TypeOK
<1>3. LoopShape' /\ StoreShape' /\ ResultShape'
    BY <1>1 DEF LoopShape, StoreShape, ResultShape
<1>4. AgeInv' /\ FreshInv'
    BY <1>1 DEF AgeInv, MaxAge, FreshInv, StateIsFresh
<1> QED BY <1>2, <1>3, <1>4

LEMMA NextLoop == LoopInv /\ [Next]_vars => LoopInv'
<1> SUFFICES ASSUME LoopInv, [Next]_vars PROVE LoopInv'
    OBVIOUS
<1>1. ASSUME NEW c \in Clusters, ClusterStep(c) PROVE LoopInv'
    BY <1>1, StartClusterLoop, InstancesLoop, CollectGen2Loop, CollectGen1Loop, CallFailsLoop
    DEF ClusterStep
<1> QED BY <1>1, StartCycleLoop, PublishLoop, QuietLoop DEF Next

-----------------------------------------------------------------------------
\* The inductive invariant holds in every reachable state.
THEOREM LoopInvariant == Spec => []LoopInv
<1> QED BY InitLoop, NextLoop, PTL DEF Spec

\* The variables keep their types; the position in the decimation round stays
\* below EveryN.
THEOREM TypeCorrect == Spec => []TypeOK
<1>1. LoopInv => TypeOK BY DEF LoopInv
<1> QED BY <1>1, LoopInvariant, PTL

\* Through failed cycles, fallbacks and changes of generation, no published
\* sample is EveryN or more cycles old.
THEOREM StalenessBounded == Spec => []StatAgeBounded
<1>1. LoopInv => StatAgeBounded
  <2> SUFFICES ASSUME LoopInv, NEW c \in Clusters, NEW s \in store[c].samples
               PROVE  s.age < EveryN
      BY DEF StatAgeBounded
  <2>1. s.age \in Nat
    <3>1. store[c] \in ClusterSnapshot
      BY DEF LoopInv, TypeOK
    <3>2. s \in Sample
      BY <3>1 DEF ClusterSnapshot
    <3> QED BY <3>2 DEF Sample
  <2>2. s.age <= MaxAge
    BY DEF LoopInv, AgeInv
  <2> QED BY <2>1, <2>2, CollectorAssumption DEF MaxAge, LoopInv, TypeOK
<1> QED BY <1>1, LoopInvariant, PTL

\* Decimation never reuses a state metric.
THEOREM StateAlwaysFresh == Spec => []StateIsFresh
<1>1. LoopInv => StateIsFresh
    BY DEF LoopInv, FreshInv, StateIsFresh
<1> QED BY <1>1, LoopInvariant, PTL

\* pflex_up is honest: a published cluster is up without an error, or down with an
\* error and without samples.
THEOREM UpAlwaysHonest == Spec => []UpIsHonest
<1>1. LoopInv => UpIsHonest
  <2> SUFFICES ASSUME LoopInv, NEW c \in Clusters
               PROVE  /\ store[c].up => ~store[c].scrapeError /\ store[c].generation # "none"
                      /\ ~store[c].up => store[c].samples = {}
                                            /\ (store[c] = Blank \/ store[c].scrapeError)
      BY DEF UpIsHonest
  <2>1. CASE store[c] = Blank
    BY <2>1 DEF Blank
  <2>2. CASE Honest(store[c])
    BY <2>2 DEF Honest
  <2> QED BY <2>1, <2>2 DEF LoopInv, StoreShape
<1> QED BY <1>1, LoopInvariant, PTL
-----------------------------------------------------------------------------
(* No series twice.                                                         *)

\* A snapshot's samples are told apart by type and kind, and only System has
\* inventory counts.
Distinct(samples) ==
    /\ \A s, u \in samples : s.type = u.type /\ s.kind = u.kind => s = u
    /\ \A s \in samples : s.kind = "inventory" => s.type = SystemType

DistinctInv ==
    /\ \A c \in Clusters : Distinct(store[c].samples)
    /\ polling => \A c \in Clusters : Distinct(result[c].samples)

\* Fresh samples are distinct, and statistics are those of answered types.
LEMMA BuildDistinct ==
    ASSUME NEW src, NEW answered, NEW generation, NEW samples \in Built(src, answered, generation)
    PROVE  /\ Distinct(samples)
           /\ \A s \in samples : s.kind = "stat" => s.type \in answered
<1>1. \A t, kind : /\ Fresh(t, kind, src).type = t /\ Fresh(t, kind, src).kind = kind
    BY DEF Fresh
<1>2. \A s \in BuildSamples(src, answered) :
        /\ s = Fresh(s.type, s.kind, src)
        /\ s.kind = "stat" => s.type \in answered
        /\ s.kind = "inventory" => s.type = SystemType
    BY <1>1 DEF BuildSamples
<1>3. samples = {} \/ samples = BuildSamples(src, answered)
    BY DEF Built
<1> QED BY <1>2, <1>3 DEF Distinct

\* What is reused are statistics of skipped types, if System is not one of them.
LEMMA ReuseDistinct ==
    ASSUME NEW p, p.samples \subseteq Sample, Distinct(p.samples), NEW skip, SystemType \notin skip
    PROVE  /\ Distinct(ReusePrior(p, skip))
           /\ \A s \in ReusePrior(p, skip) : s.kind = "stat" /\ s.type \in skip
<1> DEFINE Older(x) == [x EXCEPT !.age = @ + 1]
<1>1. \A x \in Sample : Older(x).type = x.type /\ Older(x).kind = x.kind
    BY DEF Sample
<1>2. \A s \in ReusePrior(p, skip) : \E x \in p.samples :
        s = Older(x) /\ x.type \in skip /\ x.kind # "state"
    BY DEF ReusePrior
<1>3. \A x \in p.samples : x \in Sample /\ x.kind \in {"stat", "state", "inventory"}
    BY DEF Sample
<1>4. \A s \in ReusePrior(p, skip) : \E x \in p.samples :
        /\ s = Older(x) /\ s.type = x.type /\ s.kind = x.kind
        /\ x.kind = "stat" /\ x.type \in skip
  <2> SUFFICES ASSUME NEW s \in ReusePrior(p, skip)
               PROVE  \E x \in p.samples : /\ s = Older(x) /\ s.type = x.type /\ s.kind = x.kind
                                           /\ x.kind = "stat" /\ x.type \in skip
    OBVIOUS
  <2>1. PICK x \in p.samples : s = Older(x) /\ x.type \in skip /\ x.kind # "state"
    BY <1>2
  <2>2. x.kind = "stat"
    BY <1>3, <2>1 DEF Distinct
  <2> HIDE DEF Older
  <2> QED BY <1>1, <1>3, <2>1, <2>2
<1> HIDE DEF Older
<1>5. \A s, u \in ReusePrior(p, skip) : s.type = u.type /\ s.kind = u.kind => s = u
    BY <1>4 DEF Distinct
<1> QED BY <1>4, <1>5 DEF Distinct

\* A Gen2 success: fresh statistics and reused ones are of different types.
LEMMA CollectGen2Distinct ==
    ASSUME SystemType \notin SlowTypes, LoopInv, DistinctInv, NEW c \in Clusters, CollectGen2(c)
    PROVE  Distinct(result'[c].samples)
<1> DEFINE skip == SlowSkip(prior[c])
           reused == ReusePrior(prior[c], skip)
<1>1. PICK answered \in SUBSET Gen2Types :
        /\ StatisticsReturn(c, answered)
        /\ \E built \in Built("gen2", answered, result[c].generation) :
            Succeed(c, "gen2", built \cup reused)
    BY DEF CollectGen2
<1>2. PICK built \in Built("gen2", answered, result[c].generation) :
        Succeed(c, "gen2", built \cup reused)
    BY <1>1
<1>3. answered \subseteq Gen2Types \ skip
    BY <1>1 DEF CollectGen2, StatisticsReturn, Attempted
<1>4. prior = store /\ prior[c].samples \subseteq Sample /\ Distinct(prior[c].samples)
  <2>1. prior = store
    BY RunningPolls DEF CollectGen2, LoopInv, LoopShape
  <2>2. prior[c] \in ClusterSnapshot
    BY DEF LoopInv, TypeOK
  <2> QED BY <2>1, <2>2 DEF DistinctInv, ClusterSnapshot
<1>5. SystemType \notin skip
    BY DEF SlowSkip
<1>6. Distinct(reused) /\ \A s \in reused : s.kind = "stat" /\ s.type \in skip
    BY <1>4, <1>5, ReuseDistinct
<1>7. Distinct(built) /\ \A s \in built : s.kind = "stat" => s.type \in answered
    BY BuildDistinct
<1> HIDE DEF skip, reused
<1>8. Distinct(built \cup reused)
    BY <1>3, <1>6, <1>7 DEF Distinct
<1>9. result'[c].samples = built \cup reused
    BY <1>2 DEF Succeed, LoopInv, TypeOK
<1> QED BY <1>8, <1>9

LEMMA CollectGen1Distinct ==
    ASSUME LoopInv, NEW c \in Clusters, CollectGen1(c)
    PROVE  Distinct(result'[c].samples)
<1>1. PICK answered \in SUBSET Gen1Types :
        \E built \in Built("gen1", answered, result[c].generation) :
            Succeed(c, result[c].generation, built)
    BY DEF CollectGen1
<1>2. PICK built \in Built("gen1", answered, result[c].generation) :
        Succeed(c, result[c].generation, built)
    BY <1>1
<1>3. result'[c].samples = built
    BY <1>2 DEF Succeed, LoopInv, TypeOK
<1> QED BY <1>3, BuildDistinct

LEMMA NextDistinct ==
    ASSUME SystemType \notin SlowTypes, LoopInv, DistinctInv, [Next]_vars
    PROVE  DistinctInv'
<1>0. result \in [Clusters -> ClusterSnapshot]
    BY DEF LoopInv, TypeOK
<1>1. CASE StartCycle
  <2>1. store' = store /\ \A c \in Clusters : result'[c].samples = {}
    BY <1>1 DEF StartCycle, Blank
  <2>2. Distinct({})
    BY DEF Distinct
  <2> QED BY <2>1, <2>2 DEF DistinctInv
<1>2. CASE Publish
    BY <1>2 DEF Publish, DistinctInv
<1>3. ASSUME NEW c \in Clusters, CollectGen1(c) \/ CollectGen2(c) PROVE DistinctInv'
  <2>1. Distinct(result'[c].samples)
    BY <1>3, CollectGen1Distinct, CollectGen2Distinct
  <2>2. polling /\ UNCHANGED <<polling, store>>
    BY <1>3, RunningPolls DEF CollectGen1, CollectGen2, cycleVars
  <2>3. \A d \in Clusters : d # c => result'[d] = result[d]
    BY <1>0, <1>3 DEF CollectGen1, CollectGen2, Succeed
  <2> QED BY <2>1, <2>2, <2>3 DEF DistinctInv
<1>4. ASSUME NEW c \in Clusters, Instances(c) \/ CallFails(c) PROVE DistinctInv'
  <2>1. UNCHANGED <<polling, store>>
    BY <1>4 DEF Instances, CallFails, cycleVars
  <2>2. \A d \in Clusters : result'[d].samples = result[d].samples
    BY <1>0, <1>4 DEF Instances, CallFails, ClusterSnapshot
  <2> QED BY <2>1, <2>2 DEF DistinctInv
<1>5. CASE \/ StopLoop \/ Cancel \/ Tick \/ UNCHANGED vars
           \/ \E c \in Clusters : StartCluster(c) \/ Hang(c)
  <2>1. UNCHANGED <<polling, store, result>>
    BY <1>5 DEF StopLoop, Cancel, Tick, StartCluster, Hang, vars, cycleVars
  <2> QED BY <2>1 DEF DistinctInv
<1> QED BY <1>1, <1>2, <1>3, <1>4, <1>5 DEF Next, ClusterStep

\* Through every sequence of full, skipping, partial, failed and fallback cycles, no
\* snapshot holds a series twice, provided that System, whose inventory counts are
\* derived in every cycle, is not a slow type.
THEOREM SeriesUnique == ASSUME SystemType \notin SlowTypes PROVE Spec => []OneSamplePerSeries
<1>1. Init => DistinctInv
    BY DEF Init, DistinctInv, Distinct, Blank
<1>2. LoopInv /\ DistinctInv /\ [Next]_vars => DistinctInv'
    BY NextDistinct
<1>3. DistinctInv => OneSamplePerSeries
    BY DEF DistinctInv, Distinct, OneSamplePerSeries
<1> QED BY <1>1, <1>2, <1>3, LoopInvariant, PTL DEF Spec

-----------------------------------------------------------------------------
(* Isolation.                                                               *)

\* In a cycle of the loop, time has not passed since the timeout of a cluster
\* began whose gateway still answers, however long it queued; and a gateway that
\* stopped answering is known to have.
IsolationInv ==
    polling =>
        /\ \A c \in Clusters : hung[c] = "total" => fault[c] = "total"
        /\ mode = "loop" /\ ~cancelled => \A c \in Clusters :
            c \in Running /\ hung[c] = "no" => started[c] = elapsed

\* So its context is not done when it fails: only its own error ends it.
LEMMA AnsweringInTime ==
    ASSUME LoopInv, IsolationInv, mode = "loop", ~cancelled,
           NEW c \in Running, hung[c] = "no"
    PROVE  ~Expired(c)
<1>1. c \in Clusters /\ polling
    BY RunningPolls DEF Running
<1>2. started[c] = elapsed /\ elapsed \in Nat
    BY <1>1 DEF IsolationInv, LoopInv, TypeOK
<1> QED BY <1>2, CollectorAssumption DEF Expired

LEMMA NextIsolation ==
    ASSUME LoopInv, IsolationInv, [Next]_vars
    PROVE  IsolationInv'
<1>0. /\ pc \in [Clusters -> {"queued", "instances", "v5", "v5fallback", "gen1", "gen1fallback",
                             "done"}]
      /\ started \in [Clusters -> Nat] /\ elapsed \in Nat
      /\ hung \in [Clusters -> HungKinds] /\ fault \in [Clusters -> {"none", "partial", "total"}]
    BY DEF LoopInv, TypeOK
<1>1. CASE StartCycle
    BY <1>1 DEF StartCycle, IsolationInv, Running
<1>2. CASE Publish
    BY <1>2 DEF Publish, IsolationInv
<1>3. ASSUME NEW c \in Clusters, StartCluster(c) PROVE IsolationInv'
  <2>1. /\ UNCHANGED <<polling, mode, cancelled, elapsed, hung, fault>>
        /\ started' = [started EXCEPT ![c] = elapsed] /\ pc' = [pc EXCEPT ![c] = "instances"]
    BY <1>3 DEF StartCluster, cycleVars, env
  <2>2. \A d \in Clusters : d \in Running' /\ d # c => d \in Running
    BY <1>0, <2>1 DEF Running
  <2>3. started'[c] = elapsed' /\ \A d \in Clusters : d # c => started'[d] = started[d]
    BY <1>0, <2>1
  <2> QED BY <2>1, <2>2, <2>3 DEF IsolationInv
<1>4. ASSUME NEW c \in Clusters, Instances(c) \/ CollectGen1(c) \/ CollectGen2(c) \/ CallFails(c)
      PROVE  IsolationInv'
  <2>1. /\ UNCHANGED <<polling, mode, cancelled, elapsed, started, hung>>
        /\ c \in Running
    BY <1>4 DEF Instances, CollectGen1, CollectGen2, CallFails, cycleVars, env, Running
  <2>2. Running' \subseteq Running
    BY <1>0, <1>4, <2>1 DEF Instances, CollectGen1, CollectGen2, CallFails, Running
  <2>3. \A d \in Clusters : fault[d] = "total" => fault'[d] = "total"
    BY <1>0, <1>4 DEF Instances, CollectGen1, CollectGen2, CallFails, Degrade, env
  <2> QED BY <2>1, <2>2, <2>3 DEF IsolationInv
<1>5. ASSUME NEW c \in Clusters, Hang(c) PROVE IsolationInv'
  <2>1. UNCHANGED <<polling, mode, cancelled, elapsed, started, pc>>
    BY <1>5 DEF Hang, cycleVars
  <2>2. \A d \in Clusters : hung'[d] = "no" => hung[d] = "no"
    BY <1>0, <1>5 DEF Hang
  <2>3. \A d \in Clusters : hung'[d] = "total" => hung[d] = "total" \/ fault'[d] = "total"
    BY <1>0, <1>5 DEF Hang
  <2>4. \A d \in Clusters : fault[d] = "total" => fault'[d] = "total"
    BY <1>0, <1>5 DEF Hang
  <2> QED BY <2>1, <2>2, <2>3, <2>4 DEF IsolationInv, Running
<1>6. CASE Tick
    BY <1>6 DEF Tick, IsolationInv, Running, cycleVars, env
<1>7. CASE StopLoop \/ Cancel \/ UNCHANGED vars
    BY <1>7 DEF StopLoop, Cancel, vars, cycleVars, env, IsolationInv, Running
<1> QED BY <1>1, <1>2, <1>3, <1>4, <1>5, <1>6, <1>7 DEF Next, ClusterStep

\* Whoever is done was given all its answers, or its gateway failed it.
LEMMA NextIsolated ==
    ASSUME LoopInv, IsolationInv, LoopIsolation, [Next]_vars
    PROVE  LoopIsolation'
<1> SUFFICES ASSUME (mode = "loop" /\ ~cancelled)', NEW c \in Clusters, pc'[c] = "done", polling',
                    fault'[c] # "total"
             PROVE  result'[c].up
    BY DEF LoopIsolation, Isolated
<1>0. /\ pc \in [Clusters -> {"queued", "instances", "v5", "v5fallback", "gen1", "gen1fallback",
                             "done"}]
      /\ result \in [Clusters -> ClusterSnapshot]
      /\ fault \in [Clusters -> {"none", "partial", "total"}] /\ hung \in [Clusters -> HungKinds]
    BY DEF LoopInv, TypeOK
<1>1. CASE StartCycle
    BY <1>1 DEF StartCycle
<1>2. CASE Publish
    BY <1>2 DEF Publish
<1>3. CASE CollectGen1(c) \/ CollectGen2(c)
    BY <1>0, <1>3 DEF CollectGen1, CollectGen2, Succeed
<1>4. CASE CallFails(c)
  <2>1. c \in Running /\ mode = "loop" /\ ~cancelled
    BY <1>4 DEF CallFails, cycleVars
  <2>2. polling
    BY <2>1, RunningPolls DEF Running
  <2>3. CASE hung[c] = "no"
    <3>1. fault' = [fault EXCEPT ![c] = "total"]
        BY <1>4, <2>1, <2>3, AnsweringInTime DEF CallFails
    <3> QED BY <1>0, <3>1
  <2>4. CASE hung[c] = "total"
    <3>1. fault[c] = "total"
        BY <2>2, <2>4 DEF IsolationInv
    <3>2. fault'[c] = "total"
        BY <1>0, <1>4, <3>1 DEF CallFails
    <3> QED BY <3>2
  <2> QED BY <1>4, <2>3, <2>4 DEF CallFails
<1>5. CASE StartCluster(c) \/ Instances(c)
    BY <1>0, <1>5 DEF StartCluster, Instances
<1>6. ASSUME NEW d \in Clusters, d # c, ClusterStep(d) PROVE result'[c].up
  <2>1. /\ pc'[c] = pc[c] /\ result'[c] = result[c] /\ fault'[c] = fault[c]
        /\ UNCHANGED <<polling, mode, cancelled>>
    BY <1>0, <1>6 DEF ClusterStep, StartCluster, Instances, CollectGen1, CollectGen2, CallFails,
        Succeed, Degrade, cycleVars, env
  <2> QED BY <2>1 DEF LoopIsolation, Isolated
<1>7. CASE Tick \/ (\E d \in Clusters : Hang(d)) \/ UNCHANGED vars
  <2>1. UNCHANGED <<pc, result, polling, mode, cancelled>>
    BY <1>7 DEF Tick, Hang, vars, cycleVars
  <2>2. fault[c] # "total"
    BY <1>0, <1>7 DEF Tick, Hang, vars, env
  <2> QED BY <2>1, <2>2 DEF LoopIsolation, Isolated
<1>8. ~StopLoop /\ ~Cancel
    BY DEF StopLoop, Cancel
<1> QED BY <1>1, <1>2, <1>3, <1>4, <1>5, <1>6, <1>7, <1>8 DEF Next, ClusterStep

\* "One cluster's failure does not affect the others": in every cycle of the loop
\* that is not cancelled, whatever hangs and however few run at once, a cluster
\* whose gateway answered each call, possibly in part, is up.
THEOREM LoopIsolates == Spec => []LoopIsolation
<1>1. Init => IsolationInv /\ LoopIsolation
    BY DEF Init, IsolationInv, LoopIsolation
<1>2. LoopInv /\ IsolationInv /\ LoopIsolation /\ [Next]_vars => IsolationInv' /\ LoopIsolation'
    BY NextIsolation, NextIsolated
<1> QED BY <1>1, <1>2, LoopInvariant, PTL DEF Spec
================================================================================
