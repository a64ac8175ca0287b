------------------------------ MODULE Collector ------------------------------
(***************************************************************************)
(* The collection loop (powerflex.Collector): a first synchronous cycle    *)
(* under a deadline (CollectOnce), then one cycle per tick (Run).  A cycle *)
(* polls every cluster in its own goroutine, at most MaxConcurrent at once,*)
(* each under its own timeout, and publishes one snapshot when the last    *)
(* goroutine has returned.  Statistics come from the Gen1 or the Gen2 path,*)
(* with a fallback to the other one; on Gen2, the slow object types are    *)
(* fetched every EveryN-th cycle only and their samples reused in between. *)
(*                                                                         *)
(* One client call (GetInstances, GetStatistics, GetStatisticsV5) is one   *)
(* action: the goroutines of a cycle share nothing but the prior snapshot, *)
(* which is immutable, and the cycle counter, which moves after the cycle. *)
(***************************************************************************)
EXTENDS Integers, FiniteSets

CONSTANTS
    Clusters,       \* configured clusters, one client each
    SystemType,     \* the object type System
    Gen1Types,      \* object types GetStatistics queries
    Gen2Types,      \* object types GetStatisticsV5 queries
    StateTypes,     \* object types with state metrics (deriveStateSamples)
    SlowTypes,      \* collection.slowResourceTypes
    EveryN,         \* collection.slowResourceEveryN
    MaxConcurrent,  \* collection.maxConcurrentClusters, 0 = unlimited
    Timeout,        \* collection.timeout, in ticks of 5 s
    Grace           \* what startCollection adds to it for the first cycle

ASSUME CollectorAssumption ==
    /\ IsFiniteSet(Clusters)
    /\ SystemType \in Gen1Types \cap Gen2Types
    /\ StateTypes \subseteq (Gen1Types \cup Gen2Types) \ {SystemType}
    /\ SlowTypes \subseteq Gen1Types \cup Gen2Types
    /\ EveryN \in Nat \ {0} /\ MaxConcurrent \in Nat
    /\ Timeout \in Nat \ {0} /\ Grace \in Nat \ {0}

VARIABLES
    mode,       \* "startup" (CollectOnce), "loop" (Run) or "stopped"
    polling,    \* is a cycle under way (collectAll)?
    cycle,      \* Collector.cycle, modulo EveryN: all the code looks at
    store,      \* SnapshotStore.current, per cluster
    prior,      \* collectAll's copy of it
    elapsed,    \* time since the cycle began
    cancelled,  \* the loop's context is cancelled
    pc,         \* per cluster: where its goroutine is in collectCluster
    started,    \* per cluster: value of elapsed when its timeout began
    result,     \* per cluster: the ClusterSnapshot under construction
    hung,       \* per cluster: has the gateway stopped answering?
    fault       \* history: the worst the gateway did in this cycle

env == <<hung, fault>>
cycleVars == <<mode, polling, cycle, store, prior, cancelled>>
vars == <<cycleVars, elapsed, pc, started, result, env>>

-----------------------------------------------------------------------------
(* Samples and snapshots.                                                   *)

Types == Gen1Types \cup Gen2Types

\* A sample stands for all samples of an object type from one source: its
\* statistics, its state metrics (_health, _info, _mapped_sdc), or System's
\* inventory counts.  src is the path it came by, age the number of cycles ago.
Sample == [type : Types, kind : {"stat", "state", "inventory"},
           src : {"gen1", "gen2"}, age : Nat]

Fresh(type, kind, src) == [type |-> type, kind |-> kind, src |-> src, age |-> 0]

\* buildSamplesGen1 and buildSamplesGen2: statistics of the types whose query was
\* answered, and the state metrics and inventory counts of the instance list.
BuildSamples(src, answered) ==
    {Fresh(t, "stat", src) : t \in answered}
        \cup {Fresh(t, "state", src) :
                t \in StateTypes \cap (IF src = "gen1" THEN Gen1Types ELSE Gen2Types)}
        \cup {Fresh(SystemType, "inventory", src)}

\* The same, for an instance list that may be empty if no generation was detected
\* in it.  Other omissions only make the set smaller, which the properties and
\* the code, looking no further than whether it is empty, do not tell apart.
Built(src, answered, generation) ==
    {BuildSamples(src, answered)} \cup IF generation = "unknown" THEN {{}} ELSE {}

\* Generation "none" is the empty string of a cluster not detected yet.
ClusterSnapshot == [up : BOOLEAN, generation : {"none", "gen1", "gen2", "unknown"},
                    scrapeError : BOOLEAN, samples : SUBSET Sample]

\* The snapshot collectCluster starts from; also stands for "no entry".
Blank == [up |-> FALSE, generation |-> "none", scrapeError |-> FALSE, samples |-> {}]

\* A gateway is responsive; or it stopped answering, either in a statistics call
\* that already had some of its answers ("part") or otherwise ("total").
HungKinds == {"no", "part", "total"}

TypeOK ==
    /\ mode \in {"startup", "loop", "stopped"}
    /\ polling \in BOOLEAN /\ cancelled \in BOOLEAN
    /\ cycle \in 0 .. EveryN - 1
    /\ store \in [Clusters -> ClusterSnapshot]
    /\ prior \in [Clusters -> ClusterSnapshot]
    /\ result \in [Clusters -> ClusterSnapshot]
    /\ elapsed \in Nat
    /\ pc \in [Clusters -> {"queued", "instances", "v5", "v5fallback",
                            "gen1", "gen1fallback", "done"}]
    /\ started \in [Clusters -> Nat]
    /\ hung \in [Clusters -> HungKinds]
    /\ fault \in [Clusters -> {"none", "partial", "total"}]

Init ==
    /\ mode = "startup" /\ polling = FALSE /\ cycle = 0
    /\ store = [c \in Clusters |-> Blank]
    /\ prior = store
    /\ elapsed = 0 /\ cancelled = FALSE
    /\ pc = [c \in Clusters |-> "done"]
    /\ started = [c \in Clusters |-> 0]
    /\ result = store
    /\ hung = [c \in Clusters |-> "no"]
    /\ fault = [c \in Clusters |-> "none"]

-----------------------------------------------------------------------------
(* Mutations.                                                               *)

\* One timeout for the whole cycle.
MutExpiredShared(c) == cancelled \/ elapsed >= Timeout

\* Decimation that never collects in full; reuse that forgets the state metrics.
MutSkipForever(p) ==
    IF p.generation # "gen2" \/ p.samples = {} THEN {} ELSE SlowTypes
MutReuseAll(p, skip) == {[s EXCEPT !.age = @ + 1] : s \in {x \in p.samples : x.type \in skip}}

\* An error that sticks when the fallback succeeds.
MutSucceedKeepsError(c, gen, samples) ==
    result' = [result EXCEPT ![c].up = TRUE, ![c].generation = gen, ![c].samples = samples]

\* A cycle counter compared with EveryN without taking the remainder.
MutPublishNoWrap ==
    /\ polling
    /\ \A c \in Clusters : pc[c] = "done"
    /\ polling' = FALSE
    /\ cycle' = cycle + 1
    /\ store' = result
    /\ prior' = [c \in Clusters |-> Blank]
    /\ mode' = "loop"
    /\ UNCHANGED <<cancelled, elapsed, pc, started, result, env>>

\* A loop that prefers the ticker to the cancelled context.
MutStopLoop ==
    /\ mode = "loop" /\ ~polling /\ cancelled /\ FALSE
    /\ UNCHANGED vars

-----------------------------------------------------------------------------
(* Contexts and the limit on goroutines.                                    *)

Running == {c \in Clusters : pc[c] \notin {"queued", "done"}}

\* errgroup.SetLimit: only a positive cap limits the goroutines.
SlotFree == MaxConcurrent = 0 \/ Cardinality(Running) < MaxConcurrent

\* c's context is done: its own timeout is over, the first cycle's deadline has
\* passed, or the loop was cancelled.
Expired(c) ==
    \/ cancelled
    \/ elapsed >= started[c] + Timeout
    \/ mode = "startup" /\ elapsed >= Timeout + Grace

-----------------------------------------------------------------------------
(* Decimation.                                                              *)

\* slowSkipFor: nothing is skipped on an EveryN-th cycle or without a Gen2 prior
\* snapshot that has samples.
SlowSkip(p) ==
    IF cycle = 0 \/ p.generation # "gen2" \/ p.samples = {} THEN {} ELSE SlowTypes

\* reusePriorStatSamples: every sample of the prior snapshot whose name has the
\* prefix of a skipped type, unless it is a state metric.  Inventory counts
\* carry System's prefix and no state suffix.
ReusePrior(p, skip) ==
    {[s EXCEPT !.age = @ + 1] : s \in {x \in p.samples : x.type \in skip /\ x.kind # "state"}}

-----------------------------------------------------------------------------
(* A cycle.                                                                 *)

\* CollectOnce or a tick of Run.  Run's select may still take a tick that is
\* ready when the context is cancelled.
StartCycle ==
    /\ ~polling /\ mode # "stopped"
    /\ polling' = TRUE
    /\ prior' = store
    /\ elapsed' = 0
    /\ pc' = [c \in Clusters |-> "queued"]
    /\ started' = [c \in Clusters |-> 0]
    /\ result' = [c \in Clusters |-> Blank]
    /\ hung' = [c \in Clusters |-> "no"]
    /\ fault' = [c \in Clusters |-> "none"]
    /\ UNCHANGED <<mode, cycle, store, cancelled>>

\* errgroup runs c's goroutine, whose timeout begins.
StartCluster(c) ==
    /\ pc[c] = "queued"
    /\ SlotFree
    /\ pc' = [pc EXCEPT ![c] = "instances"]
    /\ started' = [started EXCEPT ![c] = elapsed]
    /\ UNCHANGED <<cycleVars, elapsed, result, env>>

\* GetInstances is answered; detectGeneration chooses the first path.
Instances(c) ==
    /\ pc[c] = "instances" /\ ~Expired(c) /\ hung[c] = "no"
    /\ \E gen \in {"gen1", "gen2", "unknown"} :
        /\ result' = [result EXCEPT ![c].generation = gen]
        /\ pc' = [pc EXCEPT ![c] = IF gen = "gen2" THEN "v5" ELSE "gen1"]
    /\ UNCHANGED <<cycleVars, elapsed, started, env>>

\* What collectGen1 and collectGen2 do on success.
Succeed(c, gen, samples) ==
    result' = [result EXCEPT ![c] = [up |-> TRUE, generation |-> gen,
                                     scrapeError |-> FALSE, samples |-> samples]]

\* GetStatisticsV5 that skips every type it knows makes no call and cannot fail.
NoCall(c) == pc[c] \in {"v5", "v5fallback"} /\ Gen2Types \subseteq SlowSkip(prior[c])

\* The per-type queries of the path c is on.
Attempted(c) ==
    CASE pc[c] \in {"v5", "v5fallback"} -> Gen2Types \ SlowSkip(prior[c])
      [] pc[c] \in {"gen1", "gen1fallback"} -> Gen1Types
      [] OTHER -> {}

\* GetStatistics and GetStatisticsV5 succeed with the answered queries of the
\* attempted ones: any may fail, but not all.  When the gateway stops answering
\* between two answers, the context ends the call, which keeps what it has.
StatisticsReturn(c, answered) ==
    \/ NoCall(c) /\ answered = {}
    \/ /\ answered \in (SUBSET Attempted(c)) \ {{}}
       /\ \/ hung[c] = "no" /\ ~Expired(c)
          \/ hung[c] = "part" /\ Expired(c) /\ answered # Attempted(c)

Degrade(c, answered) ==
    fault' = [fault EXCEPT ![c] =
                IF answered # Attempted(c) /\ @ = "none" THEN "partial" ELSE @]

\* collectGen2 succeeds: fresh samples and, for skipped types, reused ones.
CollectGen2(c) ==
    /\ pc[c] \in {"v5", "v5fallback"}
    /\ \E answered \in SUBSET Gen2Types :
        /\ StatisticsReturn(c, answered)
        /\ \E samples \in Built("gen2", answered, result[c].generation) :
            Succeed(c, "gen2", samples \cup ReusePrior(prior[c], SlowSkip(prior[c])))
        /\ Degrade(c, answered)
    /\ pc' = [pc EXCEPT ![c] = "done"]
    /\ UNCHANGED <<cycleVars, elapsed, started, hung>>

\* collectGen1 succeeds; the detected generation stays as it is.
CollectGen1(c) ==
    /\ pc[c] \in {"gen1", "gen1fallback"}
    /\ \E answered \in SUBSET Gen1Types :
        /\ StatisticsReturn(c, answered)
        /\ \E samples \in Built("gen1", answered, result[c].generation) :
            Succeed(c, result[c].generation, samples)
        /\ Degrade(c, answered)
    /\ pc' = [pc EXCEPT ![c] = "done"]
    /\ UNCHANGED <<cycleVars, elapsed, started, hung>>

\* Mutation: either statistics path falls back to the other, for ever.
MutCallFailsAlternates(c) ==
    /\ c \in Running /\ ~NoCall(c)
    /\ hung[c] = "no" \/ (hung[c] = "total" /\ Expired(c))
    /\ result' = [result EXCEPT ![c].scrapeError = TRUE]
    /\ pc' = [pc EXCEPT ![c] = CASE @ \in {"v5", "v5fallback"} -> "gen1fallback"
                                 [] @ \in {"gen1", "gen1fallback"} -> "v5fallback"
                                 [] OTHER -> "done"]
    /\ fault' = IF Expired(c) THEN fault ELSE [fault EXCEPT ![c] = "total"]
    /\ UNCHANGED <<cycleVars, elapsed, started, hung>>

\* A call returns an error: the gateway's own, or the context's.  ScrapeError is
\* recorded, and the first statistics path falls back to the other one.
CallFails(c) ==
    /\ c \in Running /\ ~NoCall(c)
    /\ hung[c] = "no" \/ (hung[c] = "total" /\ Expired(c))
    /\ result' = [result EXCEPT ![c].scrapeError = TRUE]
    /\ pc' = [pc EXCEPT ![c] = CASE @ = "v5" -> "gen1fallback"
                                 [] @ = "gen1" -> "v5fallback"
                                 [] OTHER -> "done"]
    /\ fault' = IF Expired(c) THEN fault ELSE [fault EXCEPT ![c] = "total"]
    /\ UNCHANGED <<cycleVars, elapsed, started, hung>>

\* Every goroutine has returned: the counter moves, BuildSnapshot and Store.
Publish ==
    /\ polling
    /\ \A c \in Clusters : pc[c] = "done"
    /\ polling' = FALSE
    /\ cycle' = IF cycle + 1 = EveryN THEN 0 ELSE cycle + 1
    /\ store' = result
    /\ prior' = [c \in Clusters |-> Blank]
    /\ mode' = "loop"
    /\ UNCHANGED <<cancelled, elapsed, pc, started, result, env>>

\* Run sees the cancelled context.
StopLoop ==
    /\ mode = "loop" /\ ~polling /\ cancelled
    /\ mode' = "stopped"
    /\ UNCHANGED <<polling, cycle, store, prior, cancelled, elapsed, pc, started, result, env>>

-----------------------------------------------------------------------------
(* The environment.                                                         *)

\* A gateway stops answering for the rest of the cycle; in a statistics call some
\* of the queries may have been answered.
Hang(c) ==
    /\ c \in Running /\ ~NoCall(c) /\ hung[c] = "no" /\ ~Expired(c)
    /\ \/ hung' = [hung EXCEPT ![c] = "total"] /\ fault' = [fault EXCEPT ![c] = "total"]
       \/ /\ \E t, u \in Attempted(c) : t # u
          /\ hung' = [hung EXCEPT ![c] = "part"]
          /\ UNCHANGED fault
    /\ UNCHANGED <<cycleVars, elapsed, pc, started, result>>

\* stopCollection cancels the loop's context.
Cancel ==
    /\ mode = "loop" /\ ~cancelled
    /\ cancelled' = TRUE
    /\ UNCHANGED <<mode, polling, cycle, store, prior, elapsed, pc, started, result, env>>

\* Time passes while only hung gateways keep the cycle waiting: a gateway that
\* answers does so well within one tick.
Tick ==
    /\ polling /\ Running # {}
    /\ \A c \in Running : hung[c] # "no" /\ ~Expired(c)
    /\ SlotFree => \A c \in Clusters : pc[c] # "queued"
    /\ elapsed' = elapsed + 1
    /\ UNCHANGED <<cycleVars, pc, started, result, env>>

ClusterStep(c) ==
    StartCluster(c) \/ Instances(c) \/ CollectGen2(c) \/ CollectGen1(c) \/ CallFails(c)

Next ==
    \/ StartCycle \/ Publish \/ StopLoop
    \/ \E c \in Clusters : ClusterStep(c) \/ Hang(c)
    \/ Tick \/ Cancel

Spec == Init /\ [][Next]_vars

\* The ticker fires, goroutines run, time passes and contexts expire.  Strong
\* fairness for StopLoop: with both ready, select picks at random, so the
\* cancelled context is not passed over for ever.
Fairness ==
    /\ WF_vars(StartCycle) /\ WF_vars(Publish) /\ WF_vars(Tick)
    /\ SF_vars(StopLoop)
    /\ \A c \in Clusters : WF_vars(ClusterStep(c))

FairSpec == Spec /\ Fairness

-----------------------------------------------------------------------------
(* Properties.                                                              *)

\* A published cluster is up exactly if it has no scrape error, and only an up
\* cluster has samples: errors left by a failed first path are cleared when the
\* fallback succeeds, and a failed cycle keeps nothing of an earlier one.
UpIsHonest ==
    \A c \in Clusters : LET s == store[c] IN
        /\ s.up => ~s.scrapeError /\ s.generation # "none"
        /\ ~s.up => s.samples = {} /\ (s = Blank \/ s.scrapeError)

\* No statistic served is EveryN or more cycles old, across failed cycles,
\* fallbacks and changes of generation (slowSkipFor, reusePriorStatSamples).
StatAgeBounded == \A c \in Clusters : \A s \in store[c].samples : s.age < EveryN

\* "Operational state and health metrics ... remain fresh regardless of
\* decimation": no state sample is ever a reused one.
StateIsFresh ==
    \A c \in Clusters : \A s \in store[c].samples : s.kind = "state" => s.age = 0

\* A cluster whose gateway answered each call, possibly in part, ends up.
Isolated(c) == pc[c] = "done" /\ polling /\ fault[c] # "total" => result[c].up

\* "One cluster's failure does not affect the others", in a cycle of Run, with
\* hung gateways and a cap that makes clusters queue behind them.
LoopIsolation == mode = "loop" /\ ~cancelled => \A c \in Clusters : Isolated(c)

\* The same in every cycle, the first one included.
Isolation == ~cancelled => \A c \in Clusters : Isolated(c)

\* "the previous samples are reused in between - their series stay continuous":
\* a cycle of a Gen2 cluster in which every query was answered has statistics of
\* every type.
SeriesContinuous ==
    \A c \in Clusters :
        polling /\ pc[c] = "done" /\ ~cancelled /\ fault[c] = "none"
            /\ result[c].generation = "gen2"
        => \A t \in Gen2Types : \E s \in result[c].samples : s.type = t /\ s.kind = "stat"

\* A snapshot holds each series once: what is derived anew in every cycle is not
\* reused as well.
OneSamplePerSeries ==
    \A c \in Clusters : \A s, u \in store[c].samples :
        s.type = u.type /\ s.kind = u.kind => s = u

\* Every cycle ends, whatever the gateways do.
CyclesEnd == polling ~> ~polling

\* A cancelled loop stops.
LoopStops == cancelled ~> (mode = "stopped")

=============================================================================
