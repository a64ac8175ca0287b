----------------------------- MODULE ServerProofs -----------------------------
(***************************************************************************)
(* Proofs about the server's lifecycle, for any configurations and any     *)
(* number of edits, signals and pools.                                     *)
(***************************************************************************)
EXTENDS Server, SequenceTheorems, TLAPS

Holding == {"first", "assign", "cancel", "close"}

\* A thread holds a pool exactly between taking or building it and letting it go.
HoldersHold == \A t \in Threads : mine[t] # 0 <=> pc[t] \in Holding

\* A pool's stage follows from what its holder is doing.
HolderStage ==
    \A t \in Threads :
        /\ pc[t] \in {"first", "assign", "cancel"} => ~pools[mine[t]].cancelled
        /\ pc[t] = "close" => pools[mine[t]].cancelled

\* What is about to be swapped in has passed validation.
SwapsValid == \A r \in Reloaders : pc[r] = "swap" => read[r] \in Configs

ServerInv == TypeOK /\ SwapsValid /\ PoolHasOneOwner /\ HoldersHold /\ HolderStage

\* Threads that are in the middle of something.
Busy(t) == IF t = Main THEN pc[t] # "serve" ELSE pc[t] # "idle"

\* Without overlap one thread at a time is busy, and a rebuild finds the fields
\* empty from the moment it took the old pool.
SerialInv ==
    ~overlapped =>
        /\ \A t, u \in Threads : Busy(t) /\ Busy(u) => t = u
        /\ \A t \in Threads : pc[t] \in Holding \cup {"build"} => current = 0
-----------------------------------------------------------------------------
\* Changing one pool leaves the others as they are.
LEMMA PoolUpdate ==
    ASSUME pools \in Seq(Pool), NEW i \in 1 .. Len(pools), NEW e \in Pool,
           pools' = [pools EXCEPT ![i] = e]
    PROVE  /\ pools' \in Seq(Pool) /\ Len(pools') = Len(pools)
           /\ pools'[i] = e
           /\ \A j \in 1 .. Len(pools) : j # i => pools'[j] = pools[j]
<1>1. pools' \in Seq(Pool) /\ Len(pools') = Len(pools)
    BY ExceptSeq
<1>2. pools'[i] = e /\ \A j \in 1 .. Len(pools) : j # i => pools'[j] = pools[j]
    BY ExceptSeq
<1> QED BY <1>1, <1>2

\* Building one leaves the others as they are.
LEMMA PoolAppend ==
    ASSUME pools \in Seq(Pool), NEW e \in Pool, pools' = Append(pools, e)
    PROVE  /\ pools' \in Seq(Pool) /\ Len(pools') = Len(pools) + 1
           /\ pools'[Len(pools) + 1] = e
           /\ \A j \in 1 .. Len(pools) : pools'[j] = pools[j]
BY AppendProperties

LEMMA InitServer == Init => ServerInv /\ SerialInv
<1> SUFFICES ASSUME Init PROVE ServerInv /\ SerialInv
    OBVIOUS
<1>1. pools \in Seq(Pool) /\ Len(pools) = 0
    BY DEF Init
<1>2. pc \in [Threads -> Labels]
  <2>1. {"build", "idle"} \subseteq Labels
    BY DEF Labels, Rebuilding
  <2>2. pc = [t \in Threads |-> IF t = Main THEN "build" ELSE "idle"]
    BY DEF Init
  <2>3. \A t \in Threads : (IF t = Main THEN "build" ELSE "idle") \in Labels
    BY <2>1
  <2> QED BY <2>2, <2>3
<1>7. mine \in [Threads -> 0 .. Len(pools)]
    BY <1>1 DEF Init
<1>3. pending \in [Reloaders -> BOOLEAN] /\ read \in [Reloaders -> Configs \cup {Invalid}]
    BY DEF Init
<1>8. /\ file \in Configs \cup {Invalid} /\ cfg \in Configs
      /\ edits \in 0 .. MaxEdits /\ signals \in 0 .. MaxSignals
      /\ Len(pools) <= MaxPools /\ current \in 0 .. Len(pools) /\ store \in 0 .. Len(pools)
    BY <1>1, ServerAssumption DEF Init
<1>9. heard \in BOOLEAN /\ watching \in BOOLEAN /\ overlapped \in BOOLEAN
    BY DEF Init
<1>4. TypeOK
    BY <1>1, <1>2, <1>3, <1>7, <1>8, <1>9 DEF TypeOK
<1>5. SwapsValid /\ PoolHasOneOwner /\ HoldersHold /\ HolderStage
    BY <1>1, ServerAssumption
    DEF Init, SwapsValid, PoolHasOneOwner, HoldersHold, HolderStage, Holding, PoolIds, Threads
<1>6. SerialInv
    BY DEF Init, SerialInv, Busy, Threads
<1> QED BY <1>4, <1>5, <1>6 DEF ServerInv

-----------------------------------------------------------------------------
(* What a step does to the pools, field by field.                           *)

Moves(i, label) == pools' = [pools EXCEPT ![i].loop = label]

LEMMA PoolMoves ==
    ASSUME pools \in Seq(Pool), NEW i \in 1 .. Len(pools),
           NEW label \in {"first", "idle", "polling", "gone"}, Moves(i, label)
    PROVE  /\ pools' \in Seq(Pool) /\ Len(pools') = Len(pools)
           /\ pools'[i].loop = label
           /\ \A j \in 1 .. Len(pools) :
                /\ j # i => pools'[j] = pools[j]
                /\ pools'[j].cancelled = pools[j].cancelled
                /\ pools'[j].closed = pools[j].closed
<1> DEFINE e == [pools[i] EXCEPT !.loop = label]
<1>1. pools[i] \in Pool
    BY ElementOfSeq
<1>2. e \in Pool /\ e.loop = label /\ e.cancelled = pools[i].cancelled /\ e.closed = pools[i].closed
    BY <1>1 DEF Pool
<1>3. pools' = [pools EXCEPT ![i] = e]
    BY DEF Moves
<1> HIDE DEF e
<1>4. /\ pools' \in Seq(Pool) /\ Len(pools') = Len(pools)
      /\ pools'[i] = e
      /\ \A j \in 1 .. Len(pools) : j # i => pools'[j] = pools[j]
    BY <1>2, <1>3, PoolUpdate
<1> QED BY <1>2, <1>4

LEMMA PoolCancelled ==
    ASSUME pools \in Seq(Pool), NEW i \in 1 .. Len(pools),
           pools' = [pools EXCEPT ![i].cancelled = TRUE]
    PROVE  /\ pools' \in Seq(Pool) /\ Len(pools') = Len(pools)
           /\ pools'[i].cancelled
           /\ \A j \in 1 .. Len(pools) :
                /\ j # i => pools'[j] = pools[j]
                /\ pools'[j].loop = pools[j].loop
                /\ pools'[j].closed = pools[j].closed
<1> DEFINE e == [pools[i] EXCEPT !.cancelled = TRUE]
<1>1. pools[i] \in Pool
    BY ElementOfSeq
<1>2. e \in Pool /\ e.cancelled /\ e.loop = pools[i].loop /\ e.closed = pools[i].closed
    BY <1>1 DEF Pool
<1>3. pools' = [pools EXCEPT ![i] = e]
    OBVIOUS
<1> HIDE DEF e
<1>4. /\ pools' \in Seq(Pool) /\ Len(pools') = Len(pools)
      /\ pools'[i] = e
      /\ \A j \in 1 .. Len(pools) : j # i => pools'[j] = pools[j]
    BY <1>2, <1>3, PoolUpdate
<1> QED BY <1>2, <1>4

LEMMA PoolClosed ==
    ASSUME pools \in Seq(Pool), NEW i \in 1 .. Len(pools),
           pools' = [pools EXCEPT ![i].closed = TRUE]
    PROVE  /\ pools' \in Seq(Pool) /\ Len(pools') = Len(pools)
           /\ \A j \in 1 .. Len(pools) :
                /\ j # i => pools'[j] = pools[j]
                /\ pools'[j].loop = pools[j].loop
                /\ pools'[j].cancelled = pools[j].cancelled
<1> DEFINE e == [pools[i] EXCEPT !.closed = TRUE]
<1>1. pools[i] \in Pool
    BY ElementOfSeq
<1>2. e \in Pool /\ e.loop = pools[i].loop /\ e.cancelled = pools[i].cancelled
    BY <1>1 DEF Pool
<1>3. pools' = [pools EXCEPT ![i] = e]
    OBVIOUS
<1> HIDE DEF e
<1>4. /\ pools' \in Seq(Pool) /\ Len(pools') = Len(pools)
      /\ pools'[i] = e
      /\ \A j \in 1 .. Len(pools) : j # i => pools'[j] = pools[j]
    BY <1>2, <1>3, PoolUpdate
<1> QED BY <1>2, <1>4

-----------------------------------------------------------------------------
(* Types.                                                                   *)

\* Steps that touch neither the pools nor who holds them.
LEMMA QuietTypes ==
    ASSUME TypeOK, SwapsValid,
           \/ \E c \in Configs \cup {Invalid} : WriteFile(c) \/ RotateSecret(c)
           \/ Signal \/ SetupReloads \/ BeginShutdown
           \/ \E r \in Reloaders : BeginReload(r) \/ Swap(r)
    PROVE  TypeOK'
<1>1. UNCHANGED <<pools, current, store, mine>>
    BY DEF WriteFile, RotateSecret, Signal, SetupReloads, BeginShutdown, BeginReload, Swap, fields
<1>2. pc' \in [Threads -> Labels]
  <2>1. pc \in [Threads -> Labels]
    BY DEF TypeOK, Labels
  <2>2. ASSUME NEW t \in Threads, NEW label \in Labels, Goto(t, label)
        PROVE  pc' \in [Threads -> Labels]
    BY <2>1, <2>2 DEF Goto
  <2>3. /\ {"idle", "swap", "stop", "serve"} \subseteq Labels
        /\ Main \in Threads /\ Reloaders \subseteq Threads
    BY DEF Labels, TakingDown, Threads
  <2>4. ASSUME (\E c \in Configs \cup {Invalid} : WriteFile(c) \/ RotateSecret(c)) \/ Signal
        PROVE  pc' = pc
    BY <2>4 DEF WriteFile, RotateSecret, Signal
  <2>5. ASSUME SetupReloads \/ BeginShutdown
        PROVE  pc' \in [Threads -> Labels]
    BY <2>2, <2>3, <2>5 DEF SetupReloads, BeginShutdown
  <2>6. ASSUME NEW r \in Reloaders, BeginReload(r) \/ Swap(r)
        PROVE  pc' \in [Threads -> Labels]
    <3>1. CASE BeginReload(r)
      <4>1. Goto(r, "idle") \/ Goto(r, "swap")
        BY <3>1 DEF BeginReload
      <4> QED BY <4>1, <2>2, <2>3
    <3>2. CASE Swap(r)
      <4>1. Goto(r, "idle") \/ Goto(r, "stop")
        BY <3>2 DEF Swap
      <4> QED BY <4>1, <2>2, <2>3
    <3> QED BY <2>6, <3>1, <3>2
  <2> QED BY <2>1, <2>4, <2>5, <2>6
<1>3. file' \in Configs \cup {Invalid} /\ edits' \in 0 .. MaxEdits /\ signals' \in 0 .. MaxSignals
    BY ServerAssumption
    DEF TypeOK, WriteFile, RotateSecret, Signal, SetupReloads, BeginShutdown, BeginReload, Swap,
        disk, triggers
<1>8. heard' \in BOOLEAN /\ watching' \in BOOLEAN
    BY DEF TypeOK, WriteFile, RotateSecret, Signal, SetupReloads, BeginShutdown, BeginReload, Swap,
        disk, triggers
<1>4. pending' \in [Reloaders -> BOOLEAN]
    BY DEF TypeOK, WriteFile, RotateSecret, Signal, SetupReloads, BeginShutdown, BeginReload, Swap, triggers
<1>5. read' \in [Reloaders -> Configs \cup {Invalid}]
    BY DEF TypeOK, WriteFile, RotateSecret, Signal, SetupReloads, BeginShutdown, BeginReload, Swap
<1>6. overlapped' \in BOOLEAN
    BY DEF TypeOK, WriteFile, RotateSecret, Signal, SetupReloads, BeginShutdown, BeginReload, Swap
<1>7. cfg' \in Configs
    BY DEF TypeOK, SwapsValid, WriteFile, RotateSecret, Signal, SetupReloads, BeginShutdown, BeginReload, Swap, fields
<1> QED BY <1>1, <1>2, <1>3, <1>4, <1>5, <1>6, <1>7, <1>8 DEF TypeOK

\* A thread at a label of Holding holds a pool that exists.
LEMMA HeldExists ==
    ASSUME ServerInv, NEW t \in Threads, pc[t] \in Holding
    PROVE  mine[t] \in 1 .. Len(pools)
<1>1. mine[t] \in 0 .. Len(pools) /\ mine[t] # 0 /\ Len(pools) \in Nat
    BY DEF ServerInv, HoldersHold, TypeOK
<1> QED BY <1>1

\* Where a step of start- or stopCollection leaves its thread.
LEMMA CollectionGoto ==
    ASSUME NEW t \in Threads, CollectionStep(t)
    PROVE  \E label \in Labels : Goto(t, label)
<1>1. /\ {"cancel", "flush", "build", "close", "first", "assign", "setup", "idle"} \subseteq Labels
    BY DEF Labels, TakingDown, Rebuilding
<1>2. CASE StopCollection(t)
  <2>1. Goto(t, "cancel") \/ Goto(t, "flush") \/ Goto(t, "build")
    BY <1>2 DEF StopCollection
  <2> QED BY <2>1, <1>1
<1>3. CASE CloseClients(t)
  <2>1. Goto(t, "flush") \/ Goto(t, "build")
    BY <1>3 DEF CloseClients
  <2> QED BY <2>1, <1>1
<1>4. CASE AssignFields(t)
  <2>1. Goto(t, "setup") \/ Goto(t, "idle")
    BY <1>4 DEF AssignFields
  <2> QED BY <2>1, <1>1
<1>5. CASE CancelLoop(t) \/ BuildPool(t) \/ FirstCycle(t)
  <2>1. Goto(t, "close") \/ Goto(t, "first") \/ Goto(t, "assign")
    BY <1>5 DEF CancelLoop, BuildPool, FirstCycle
  <2> QED BY <2>1, <1>1
<1> QED BY <1>2, <1>3, <1>4, <1>5 DEF CollectionStep

\* The steps of start- and stopCollection keep the types.
LEMMA CollectionTypes ==
    ASSUME ServerInv, NEW t \in Threads, CollectionStep(t)
    PROVE  TypeOK'
<1> USE DEF CollectionStep
<1>1. UNCHANGED <<disk, triggers, cfg, read, overlapped>>
    BY DEF StopCollection, CancelLoop, CloseClients, BuildPool, FirstCycle, AssignFields, fields
<1>2. pc' \in [Threads -> Labels]
  <2>1. PICK label \in Labels : Goto(t, label)
    BY CollectionGoto
  <2>2. pc \in [Threads -> Labels]
    BY DEF ServerInv, TypeOK
  <2> QED BY <2>1, <2>2 DEF Goto
<1>3. /\ pools \in Seq(Pool) /\ Len(pools) \in Nat /\ Len(pools) <= MaxPools
      /\ current \in 0 .. Len(pools) /\ store \in 0 .. Len(pools)
      /\ mine \in [Threads -> 0 .. Len(pools)] /\ mine[t] \in 0 .. Len(pools)
    BY DEF ServerInv, TypeOK
<1> DEFINE Rest == /\ pools' \in Seq(Pool) /\ Len(pools') <= MaxPools
                   /\ current' \in 0 .. Len(pools') /\ store' \in 0 .. Len(pools')
                   /\ mine' \in [Threads -> 0 .. Len(pools')]
<1>4. ASSUME StopCollection(t) PROVE Rest
  <2>1. pools' = pools /\ store' = store /\ current' = 0 /\ mine' = [mine EXCEPT ![t] = current]
    BY <1>4 DEF StopCollection
  <2> QED BY <2>1, <1>3
<1>5. ASSUME AssignFields(t) PROVE Rest
  <2>1. /\ pools' = pools /\ store' = store /\ current' = mine[t]
        /\ mine' = [mine EXCEPT ![t] = 0]
    BY <1>5 DEF AssignFields
  <2> QED BY <2>1, <1>3
<1>6. ASSUME CancelLoop(t) PROVE Rest
  <2>1. mine[t] \in 1 .. Len(pools)
    BY <1>6, HeldExists DEF CancelLoop, Holding
  <2>2. pools' \in Seq(Pool) /\ Len(pools') = Len(pools)
    BY <1>3, <1>6, <2>1, PoolCancelled DEF CancelLoop
  <2>3. UNCHANGED <<current, store, mine>>
    BY <1>6 DEF CancelLoop, fields
  <2> QED BY <2>2, <2>3, <1>3
<1>7. ASSUME CloseClients(t) PROVE Rest
  <2>1. mine[t] \in 1 .. Len(pools)
    BY <1>7, HeldExists DEF CloseClients, Holding
  <2>2. pools' \in Seq(Pool) /\ Len(pools') = Len(pools)
    BY <1>3, <1>7, <2>1, PoolClosed DEF CloseClients
  <2>3. current' = current /\ store' = store /\ mine' = [mine EXCEPT ![t] = 0]
    BY <1>7 DEF CloseClients, fields
  <2> QED BY <2>2, <2>3, <1>3
<1>8. ASSUME BuildPool(t) PROVE Rest
  <2>1. [clusters |-> cfg.clusters, loop |-> "first", cancelled |-> FALSE, closed |-> FALSE] \in Pool
    <3>1. cfg.clusters \in ClusterLists
        BY DEF ServerInv, TypeOK, ClusterLists
    <3> QED BY <3>1 DEF Pool
  <2>2. pools' \in Seq(Pool) /\ Len(pools') = Len(pools) + 1
    BY <1>3, <1>8, <2>1, PoolAppend DEF BuildPool
  <2>3. /\ current' = current /\ store' = store
        /\ mine' = [mine EXCEPT ![t] = Len(pools) + 1] /\ Len(pools) < MaxPools
    BY <1>8 DEF BuildPool, fields
  <2> QED BY <2>2, <2>3, <1>3, ServerAssumption
<1>9. ASSUME FirstCycle(t) PROVE Rest
  <2>1. mine[t] \in 1 .. Len(pools)
    BY <1>9, HeldExists DEF FirstCycle, Holding
  <2>2. pools' \in Seq(Pool) /\ Len(pools') = Len(pools)
    BY <1>3, <1>9, <2>1, PoolMoves DEF FirstCycle, Moves
  <2>3. current' = current /\ store' = mine[t] /\ mine' = mine
    BY <1>9 DEF FirstCycle, fields
  <2> QED BY <2>1, <2>2, <2>3, <1>3
<1>10. Rest
    BY <1>4, <1>5, <1>6, <1>7, <1>8, <1>9
<1>11. /\ file' \in Configs \cup {Invalid} /\ edits' \in 0 .. MaxEdits
       /\ signals' \in 0 .. MaxSignals /\ cfg' \in Configs
       /\ pending' \in [Reloaders -> BOOLEAN]
       /\ read' \in [Reloaders -> Configs \cup {Invalid}]
    BY <1>1 DEF ServerInv, TypeOK, disk, triggers
<1>12. heard' \in BOOLEAN /\ watching' \in BOOLEAN /\ overlapped' \in BOOLEAN
    BY <1>1 DEF ServerInv, TypeOK, disk, triggers
<1> QED BY <1>2, <1>10, <1>11, <1>12 DEF TypeOK

LoopStep(i) == LoopTick(i) \/ LoopPublish(i) \/ LoopExit(i)

\* A step of a loop moves that loop and perhaps the published pool, nothing else.
LEMMA LoopMoves ==
    ASSUME ServerInv, NEW i \in 1 .. MaxPools, LoopStep(i)
    PROVE  /\ i \in 1 .. Len(pools)
           /\ \E label \in {"idle", "polling", "gone"} : Moves(i, label)
           /\ Live(i)
           /\ store' \in {store, i}
           /\ UNCHANGED <<disk, triggers, fields, pc, read, mine, overlapped>>
BY DEF LoopStep, LoopTick, LoopPublish, LoopExit, PoolIds, Moves, Live

LEMMA LoopTypes ==
    ASSUME ServerInv, NEW i \in 1 .. MaxPools, LoopStep(i)
    PROVE  TypeOK'
<1>1. UNCHANGED <<disk, triggers, fields, pc, read, mine, overlapped>>
    BY LoopMoves
<1>2. PICK label \in {"idle", "polling", "gone"} : Moves(i, label)
    BY LoopMoves
<1>3. /\ pools \in Seq(Pool) /\ Len(pools) \in Nat /\ Len(pools) <= MaxPools
      /\ store \in 0 .. Len(pools)
    BY DEF ServerInv, TypeOK
<1>4. i \in 1 .. Len(pools) /\ store' \in {store, i}
    BY LoopMoves
<1>5. pools' \in Seq(Pool) /\ Len(pools') = Len(pools)
    BY <1>2, <1>3, <1>4, PoolMoves
<1>6. store' \in 0 .. Len(pools') /\ Len(pools') <= MaxPools
    BY <1>3, <1>4, <1>5
<1>7. /\ file' \in Configs \cup {Invalid} /\ edits' \in 0 .. MaxEdits
      /\ signals' \in 0 .. MaxSignals /\ cfg' \in Configs
      /\ pending' \in [Reloaders -> BOOLEAN]
      /\ read' \in [Reloaders -> Configs \cup {Invalid}]
    BY <1>1 DEF ServerInv, TypeOK, disk, triggers, fields
<1>8. heard' \in BOOLEAN /\ watching' \in BOOLEAN /\ overlapped' \in BOOLEAN
    BY <1>1 DEF ServerInv, TypeOK, disk, triggers
<1>9. current' \in 0 .. Len(pools') /\ mine' \in [Threads -> 0 .. Len(pools')]
      /\ pc' \in [Threads -> Labels]
    BY <1>1, <1>5 DEF ServerInv, TypeOK, fields
<1> QED BY <1>5, <1>6, <1>7, <1>8, <1>9 DEF TypeOK

LEMMA ExitTypes ==
    ASSUME ServerInv, Exit
    PROVE  TypeOK'
<1>1. pools' \in Seq(Pool) /\ Len(pools') = 0 /\ current' = 0 /\ store' = 0
    BY DEF Exit
<1>2. pc' \in [Threads -> Labels]
  <2>1. {"exited", "idle"} \subseteq Labels
    BY DEF Labels
  <2>2. \A t \in Threads : (IF t = Main THEN "exited" ELSE "idle") \in Labels
    BY <2>1
  <2>3. pc' = [t \in Threads |-> IF t = Main THEN "exited" ELSE "idle"]
    BY DEF Exit
  <2> QED BY <2>2, <2>3
<1>3. mine' \in [Threads -> 0 .. Len(pools')]
    BY <1>1 DEF Exit
<1>4. /\ pending' \in [Reloaders -> BOOLEAN]
      /\ read' \in [Reloaders -> Configs \cup {Invalid}]
    BY DEF Exit
<1>5. /\ file' \in Configs \cup {Invalid} /\ edits' \in 0 .. MaxEdits
      /\ signals' \in 0 .. MaxSignals /\ cfg' \in Configs
    BY DEF ServerInv, TypeOK, Exit, disk
<1>6. heard' \in BOOLEAN /\ watching' \in BOOLEAN /\ overlapped' \in BOOLEAN
    BY DEF ServerInv, TypeOK, Exit, disk
<1>7. /\ Len(pools') <= MaxPools /\ current' \in 0 .. Len(pools') /\ store' \in 0 .. Len(pools')
    BY <1>1, ServerAssumption
<1> QED BY <1>1, <1>2, <1>3, <1>4, <1>5, <1>6, <1>7 DEF TypeOK

-----------------------------------------------------------------------------
(* Who holds which pool.                                                    *)

Ownership == PoolHasOneOwner /\ HoldersHold /\ HolderStage

\* A thread that holds no pool before and after its step changes nothing here.
LEMMA Relabelled ==
    ASSUME ServerInv, NEW t \in Threads, NEW label \in Labels \ Holding,
           pc[t] \notin Holding, Goto(t, label), UNCHANGED <<pools, current, mine>>
    PROVE  Ownership'
<1>1. \A u \in Threads : pc'[u] = IF u = t THEN label ELSE pc[u]
    BY DEF ServerInv, TypeOK, Goto
<1>2. PoolHasOneOwner'
    BY DEF ServerInv, PoolHasOneOwner, PoolIds
<1>3. HoldersHold'
    BY <1>1 DEF ServerInv, HoldersHold
<1>4. HolderStage'
    BY <1>1 DEF ServerInv, HolderStage, Holding
<1> QED BY <1>2, <1>3, <1>4 DEF Ownership

LEMMA QuietOwnership ==
    ASSUME ServerInv,
           \/ \E c \in Configs \cup {Invalid} : WriteFile(c) \/ RotateSecret(c)
           \/ Signal \/ SetupReloads \/ BeginShutdown
           \/ \E r \in Reloaders : BeginReload(r) \/ Swap(r)
    PROVE  Ownership'
<1>1. UNCHANGED <<pools, current, mine>>
    BY DEF WriteFile, RotateSecret, Signal, SetupReloads, BeginShutdown, BeginReload, Swap, fields
<1>2. /\ {"idle", "swap", "stop", "serve"} \subseteq Labels \ Holding
      /\ Main \in Threads /\ Reloaders \subseteq Threads
    BY DEF Labels, TakingDown, Threads, Holding
<1>3. CASE (\E c \in Configs \cup {Invalid} : WriteFile(c) \/ RotateSecret(c)) \/ Signal
  <2>1. pc' = pc
    BY <1>3 DEF WriteFile, RotateSecret, Signal
  <2> QED BY <1>1, <2>1
    DEF ServerInv, Ownership, PoolHasOneOwner, HoldersHold, HolderStage, PoolIds
<1>4. CASE SetupReloads
  <2>1. Goto(Main, "serve") /\ pc[Main] \notin Holding
    BY <1>4 DEF SetupReloads, Holding
  <2> QED BY <1>1, <1>2, <2>1, Relabelled
<1>5. CASE BeginShutdown
  <2>1. Goto(Main, "stop") /\ pc[Main] \notin Holding
    BY <1>5 DEF BeginShutdown, Holding
  <2> QED BY <1>1, <1>2, <2>1, Relabelled
<1>6. CASE \E r \in Reloaders : BeginReload(r) \/ Swap(r)
  <2>1. PICK r \in Reloaders : BeginReload(r) \/ Swap(r)
    BY <1>6
  <2>2. pc[r] \notin Holding
    BY <2>1 DEF BeginReload, Swap, Holding
  <2>3. Goto(r, "idle") \/ Goto(r, "swap") \/ Goto(r, "stop")
    BY <2>1 DEF BeginReload, Swap
  <2> QED BY <1>1, <1>2, <2>2, <2>3, Relabelled
<1> QED BY <1>3, <1>4, <1>5, <1>6

\* stopCollection moves the fields' pool to its thread, which held none.
LEMMA StopOwnership ==
    ASSUME ServerInv, NEW t \in Threads, StopCollection(t)
    PROVE  Ownership'
<1>1. /\ pools' = pools /\ current' = 0 /\ pc[t] = "stop"
      /\ Goto(t, IF current # 0 THEN "cancel" ELSE IF t = Main THEN "flush" ELSE "build")
    BY DEF StopCollection
<1>2. \A u \in Threads : mine'[u] = IF u = t THEN current ELSE mine[u]
    BY DEF StopCollection, ServerInv, TypeOK
<1>3. /\ \A u \in Threads : u # t => pc'[u] = pc[u]
      /\ current # 0 => pc'[t] = "cancel"
      /\ current = 0 => pc'[t] \notin Holding
    BY <1>1 DEF ServerInv, TypeOK, Goto, Holding
<1>4. PoolHasOneOwner'
  <2>1. \A u, v \in Threads : u # v /\ mine'[u] = mine'[v] => mine'[u] = 0
    BY <1>2 DEF ServerInv, PoolHasOneOwner
  <2>2. \A i \in PoolIds' : i # current'
    BY <1>1 DEF PoolIds
  <2> QED BY <1>1, <2>1, <2>2 DEF ServerInv, PoolHasOneOwner, PoolIds
<1>5. HoldersHold'
    BY <1>2, <1>3 DEF ServerInv, HoldersHold, Holding
<1>6. HolderStage'
  <2>1. current \in 0 .. Len(pools) /\ Len(pools) \in Nat
    BY DEF ServerInv, TypeOK
  <2>2. current # 0 => ~pools[current].cancelled
    BY <2>1 DEF ServerInv, PoolHasOneOwner, PoolIds
  <2>3. \A u \in Threads : u # t => pc'[u] = pc[u] /\ mine'[u] = mine[u]
    BY <1>2, <1>3
  <2>4. \/ pc'[t] = "cancel" /\ ~pools'[mine'[t]].cancelled
        \/ pc'[t] \notin Holding
    BY <1>1, <1>2, <1>3, <2>2
  <2> QED BY <1>1, <2>3, <2>4 DEF ServerInv, HolderStage, Holding
<1> QED BY <1>4, <1>5, <1>6 DEF Ownership

LEMMA CancelOwnership ==
    ASSUME ServerInv, NEW t \in Threads, CancelLoop(t)
    PROVE  Ownership'
<1> DEFINE i == mine[t]
<1>1. /\ current' = current /\ mine' = mine /\ pc[t] = "cancel" /\ Goto(t, "close")
      /\ pools' = [pools EXCEPT ![i].cancelled = TRUE]
    BY DEF CancelLoop, fields
<1>2. i \in 1 .. Len(pools) /\ pools \in Seq(Pool) /\ Len(pools) \in Nat
    BY <1>1, HeldExists DEF Holding, ServerInv, TypeOK
<1>3. \A u \in Threads : pc'[u] = IF u = t THEN "close" ELSE pc[u]
    BY <1>1 DEF ServerInv, TypeOK, Goto
<1>4. /\ Len(pools') = Len(pools) /\ pools'[i].cancelled
      /\ \A j \in 1 .. Len(pools) : (j # i => pools'[j] = pools[j]) /\ pools'[j].closed = pools[j].closed
    BY <1>1, <1>2, PoolCancelled
<1>5. \A u \in Threads : u # t => mine[u] # i
    BY <1>2 DEF ServerInv, PoolHasOneOwner
<1>6. i # current
    BY <1>2 DEF ServerInv, PoolHasOneOwner
<1>7. PoolHasOneOwner'
  <2>1. \A j \in PoolIds' : pools'[j].closed => pools'[j].cancelled
    BY <1>4 DEF ServerInv, PoolHasOneOwner, PoolIds
  <2>2. \A j \in PoolIds' : pools'[j].cancelled => j # current'
    BY <1>1, <1>4, <1>6 DEF ServerInv, PoolHasOneOwner, PoolIds
  <2> QED BY <1>1, <2>1, <2>2 DEF ServerInv, PoolHasOneOwner
<1>8. HoldersHold'
    BY <1>1, <1>3 DEF ServerInv, HoldersHold, Holding
<1>9. HolderStage'
  <2>1. ASSUME NEW u \in Threads, u # t, pc[u] \in Holding
        PROVE  pools'[mine[u]] = pools[mine[u]]
    BY <2>1, <1>4, <1>5, HeldExists
  <2>2. \A u \in Threads : u # t =>
            /\ pc'[u] \in {"first", "assign", "cancel"} => ~pools'[mine'[u]].cancelled
            /\ pc'[u] = "close" => pools'[mine'[u]].cancelled
    BY <1>1, <1>3, <2>1 DEF ServerInv, HolderStage, Holding
  <2>3. pc'[t] = "close" /\ mine'[t] = i
    BY <1>1, <1>3
  <2> QED BY <1>4, <2>2, <2>3 DEF HolderStage
<1> QED BY <1>7, <1>8, <1>9 DEF Ownership

LEMMA CloseOwnership ==
    ASSUME ServerInv, NEW t \in Threads, CloseClients(t)
    PROVE  Ownership'
<1> DEFINE i == mine[t]
<1>1. /\ current' = current /\ pc[t] = "close"
      /\ Goto(t, "flush") \/ Goto(t, "build")
      /\ pools' = [pools EXCEPT ![i].closed = TRUE]
    BY DEF CloseClients, fields
<1>2. i \in 1 .. Len(pools) /\ pools \in Seq(Pool) /\ Len(pools) \in Nat
    BY <1>1, HeldExists DEF Holding, ServerInv, TypeOK
<1>3. (\A u \in Threads : u # t => pc'[u] = pc[u]) /\ pc'[t] \notin Holding
    BY <1>1 DEF ServerInv, TypeOK, Goto, Holding
<1>4. /\ Len(pools') = Len(pools)
      /\ \A j \in 1 .. Len(pools) : (j # i => pools'[j] = pools[j]) /\ pools'[j].cancelled = pools[j].cancelled
    BY <1>1, <1>2, PoolClosed
<1>5. \A u \in Threads : mine'[u] = IF u = t THEN 0 ELSE mine[u]
    BY DEF CloseClients, ServerInv, TypeOK
<1>6. pools[i].cancelled
    BY <1>1 DEF ServerInv, HolderStage
<1>7. PoolHasOneOwner'
  <2>1. \A j \in PoolIds' : pools'[j].closed => pools'[j].cancelled
    BY <1>4, <1>6 DEF ServerInv, PoolHasOneOwner, PoolIds
  <2>2. \A j \in PoolIds' : pools'[j].cancelled => j # current'
    BY <1>1, <1>4 DEF ServerInv, PoolHasOneOwner, PoolIds
  <2> QED BY <1>1, <1>5, <2>1, <2>2 DEF ServerInv, PoolHasOneOwner
<1>8. HoldersHold'
    BY <1>5, <1>3 DEF ServerInv, HoldersHold
<1>9. HolderStage'
  <2>1. ASSUME NEW u \in Threads, u # t, pc[u] \in Holding
        PROVE  pools'[mine'[u]].cancelled = pools[mine[u]].cancelled
    BY <2>1, <1>4, <1>5, HeldExists
  <2> QED BY <1>3, <2>1 DEF ServerInv, HolderStage, Holding
<1> QED BY <1>7, <1>8, <1>9 DEF Ownership

LEMMA BuildOwnership ==
    ASSUME ServerInv, NEW t \in Threads, BuildPool(t)
    PROVE  Ownership'
<1> DEFINE n == Len(pools) + 1
           e == [clusters |-> cfg.clusters, loop |-> "first", cancelled |-> FALSE, closed |-> FALSE]
<1>1. /\ current' = current /\ pc[t] = "build" /\ Goto(t, "first")
      /\ pools' = Append(pools, e)
    BY DEF BuildPool, fields
<1>2. /\ pools \in Seq(Pool) /\ Len(pools) \in Nat /\ current \in 0 .. Len(pools)
      /\ \A u \in Threads : mine[u] \in 0 .. Len(pools)
    BY DEF ServerInv, TypeOK
<1>3. \A u \in Threads : pc'[u] = IF u = t THEN "first" ELSE pc[u]
    BY <1>1 DEF ServerInv, TypeOK, Goto
<1>4. \A u \in Threads : mine'[u] = IF u = t THEN n ELSE mine[u]
    BY DEF BuildPool, ServerInv, TypeOK
<1>5. e \in Pool /\ ~e.cancelled /\ ~e.closed
  <2>1. cfg.clusters \in ClusterLists
    BY DEF ServerInv, TypeOK, ClusterLists
  <2> QED BY <2>1 DEF Pool
<1> HIDE DEF e
<1>6. /\ Len(pools') = n /\ pools'[n] = e
      /\ \A j \in 1 .. Len(pools) : pools'[j] = pools[j]
    BY <1>1, <1>2, <1>5, PoolAppend
<1>7. PoolHasOneOwner'
  <2>1. \A u, v \in Threads : u # v /\ mine'[u] = mine'[v] => mine'[u] = 0
    BY <1>2, <1>4 DEF ServerInv, PoolHasOneOwner
  <2>2. \A u \in Threads : mine'[u] = current' => current' = 0
    BY <1>1, <1>2, <1>4 DEF ServerInv, PoolHasOneOwner
  <2>3. \A j \in PoolIds' : j = n \/ j \in 1 .. Len(pools)
    BY <1>2, <1>6 DEF PoolIds
  <2>4. \A j \in PoolIds' : pools'[j].closed => pools'[j].cancelled
    BY <1>5, <1>6, <2>3 DEF ServerInv, PoolHasOneOwner, PoolIds
  <2>5. \A j \in PoolIds' : pools'[j].cancelled => j # current'
    BY <1>1, <1>5, <1>6, <2>3 DEF ServerInv, PoolHasOneOwner, PoolIds
  <2> QED BY <2>1, <2>2, <2>4, <2>5 DEF PoolHasOneOwner
<1>8. HoldersHold'
    BY <1>2, <1>3, <1>4 DEF ServerInv, HoldersHold, Holding
<1>9. HolderStage'
  <2>1. ASSUME NEW u \in Threads, u # t, pc[u] \in Holding
        PROVE  pools'[mine'[u]] = pools[mine[u]]
    BY <2>1, <1>4, <1>6, HeldExists
  <2>2. \A u \in Threads : u # t =>
            /\ pc'[u] \in {"first", "assign", "cancel"} => ~pools'[mine'[u]].cancelled
            /\ pc'[u] = "close" => pools'[mine'[u]].cancelled
    BY <1>3, <2>1 DEF ServerInv, HolderStage, Holding
  <2>3. pc'[t] = "first" /\ mine'[t] = n
    BY <1>3, <1>4
  <2> QED BY <1>5, <1>6, <2>2, <2>3 DEF HolderStage
<1> QED BY <1>7, <1>8, <1>9 DEF Ownership

LEMMA FirstOwnership ==
    ASSUME ServerInv, NEW t \in Threads, FirstCycle(t)
    PROVE  Ownership'
<1> DEFINE i == mine[t]
<1>1. /\ current' = current /\ mine' = mine /\ pc[t] = "first" /\ Goto(t, "assign")
      /\ Moves(i, "idle")
    BY DEF FirstCycle, fields, Moves
<1>2. i \in 1 .. Len(pools) /\ pools \in Seq(Pool)
    BY <1>1, HeldExists DEF Holding, ServerInv, TypeOK
<1>3. \A u \in Threads : pc'[u] = IF u = t THEN "assign" ELSE pc[u]
    BY <1>1 DEF ServerInv, TypeOK, Goto
<1>4. /\ Len(pools') = Len(pools)
      /\ \A j \in 1 .. Len(pools) : /\ pools'[j].cancelled = pools[j].cancelled
                                    /\ pools'[j].closed = pools[j].closed
    BY <1>1, <1>2, PoolMoves
<1>5. PoolHasOneOwner'
    BY <1>1, <1>4 DEF ServerInv, PoolHasOneOwner, PoolIds
<1>6. HoldersHold'
    BY <1>1, <1>3 DEF ServerInv, HoldersHold, Holding
<1>7. HolderStage'
  <2>1. ASSUME NEW u \in Threads, pc[u] \in Holding
        PROVE  pools'[mine'[u]].cancelled = pools[mine[u]].cancelled
    BY <2>1, <1>1, <1>4, HeldExists
  <2> QED BY <1>1, <1>3, <2>1 DEF ServerInv, HolderStage, Holding
<1> QED BY <1>5, <1>6, <1>7 DEF Ownership

\* The fields take over the pool of the thread, which lets it go.
LEMMA AssignOwnership ==
    ASSUME ServerInv, NEW t \in Threads, AssignFields(t)
    PROVE  Ownership'
<1> DEFINE i == mine[t]
<1>1. /\ pools' = pools /\ current' = i /\ pc[t] = "assign"
      /\ Goto(t, "setup") \/ Goto(t, "idle")
    BY DEF AssignFields
<1>2. i \in 1 .. Len(pools)
    BY <1>1, HeldExists DEF Holding
<1>3. (\A u \in Threads : u # t => pc'[u] = pc[u]) /\ pc'[t] \notin Holding
    BY <1>1 DEF ServerInv, TypeOK, Goto, Holding
<1>4. \A u \in Threads : mine'[u] = IF u = t THEN 0 ELSE mine[u]
    BY DEF AssignFields, ServerInv, TypeOK
<1>5. ~pools[i].cancelled
    BY <1>1 DEF ServerInv, HolderStage
<1>6. PoolHasOneOwner'
  <2>1. \A u, v \in Threads : u # v /\ mine'[u] = mine'[v] => mine'[u] = 0
    BY <1>4 DEF ServerInv, PoolHasOneOwner
  <2>2. \A u \in Threads : mine'[u] = current' => current' = 0
    BY <1>1, <1>2, <1>4 DEF ServerInv, PoolHasOneOwner
  <2>3. \A j \in PoolIds' : pools'[j].closed => pools'[j].cancelled
    BY <1>1 DEF ServerInv, PoolHasOneOwner, PoolIds
  <2>4. \A j \in PoolIds' : pools'[j].cancelled => j # current'
    BY <1>1, <1>5
  <2> QED BY <2>1, <2>2, <2>3, <2>4 DEF PoolHasOneOwner
<1>7. HoldersHold'
    BY <1>3, <1>4 DEF ServerInv, HoldersHold
<1>8. HolderStage'
    BY <1>1, <1>3, <1>4 DEF ServerInv, HolderStage, Holding
<1> QED BY <1>6, <1>7, <1>8 DEF Ownership

LEMMA ExitOwnership ==
    ASSUME ServerInv, Exit
    PROVE  Ownership'
<1>1. /\ pools' = <<>> /\ current' = 0 /\ PoolIds' = {}
      /\ \A u \in Threads : mine'[u] = 0 /\ pc'[u] \notin Holding
    BY DEF Exit, Holding, PoolIds
<1> QED BY <1>1 DEF Ownership, PoolHasOneOwner, HoldersHold, HolderStage, Holding

LEMMA LoopOwnership ==
    ASSUME ServerInv, NEW i \in 1 .. MaxPools, LoopStep(i)
    PROVE  Ownership'
<1>1. UNCHANGED <<current, pc, mine>>
    BY LoopMoves DEF fields
<1>2. PICK label \in {"idle", "polling", "gone"} : Moves(i, label)
    BY LoopMoves
<1>3. /\ Len(pools') = Len(pools)
      /\ \A j \in 1 .. Len(pools) : /\ pools'[j].cancelled = pools[j].cancelled
                                    /\ pools'[j].closed = pools[j].closed
    BY <1>2, LoopMoves, PoolMoves DEF ServerInv, TypeOK
<1>4. PoolHasOneOwner'
    BY <1>1, <1>3 DEF ServerInv, PoolHasOneOwner, PoolIds
<1>5. HoldersHold'
    BY <1>1 DEF ServerInv, HoldersHold
<1>6. HolderStage'
  <2>1. ASSUME NEW u \in Threads, pc[u] \in Holding
        PROVE  pools'[mine'[u]].cancelled = pools[mine[u]].cancelled
    BY <2>1, <1>1, <1>3, HeldExists
  <2> QED BY <1>1, <2>1 DEF ServerInv, HolderStage, Holding
<1> QED BY <1>4, <1>5, <1>6 DEF Ownership

-----------------------------------------------------------------------------
\* No step of start- or stopCollection leads to a swap.
LEMMA CollectionNoSwap ==
    ASSUME ServerInv, NEW t \in Threads, CollectionStep(t)
    PROVE  /\ \A u \in Threads : u # t => pc'[u] = pc[u]
           /\ pc'[t] # "swap" /\ read' = read
<1>1. \/ Goto(t, "cancel") \/ Goto(t, "flush") \/ Goto(t, "build") \/ Goto(t, "close")
      \/ Goto(t, "first") \/ Goto(t, "assign") \/ Goto(t, "setup") \/ Goto(t, "idle")
    BY DEF CollectionStep, StopCollection, CancelLoop, CloseClients, BuildPool, FirstCycle,
        AssignFields
<1>2. read' = read
    BY DEF CollectionStep, StopCollection, CancelLoop, CloseClients, BuildPool, FirstCycle,
        AssignFields
<1> QED BY <1>1, <1>2 DEF ServerInv, TypeOK, Goto

LEMMA NextSwapsValid ==
    ASSUME ServerInv, Next
    PROVE  SwapsValid'
<1> USE DEF ServerInv, SwapsValid
<1>1. CASE (\E c \in Configs \cup {Invalid} : WriteFile(c) \/ RotateSecret(c)) \/ Signal
    BY <1>1 DEF WriteFile, RotateSecret, Signal
<1>2. CASE \E r \in Reloaders : BeginReload(r)
  <2>1. PICK r \in Reloaders : BeginReload(r)
    BY <1>2
  <2>2. /\ pc' = [pc EXCEPT ![r] = IF file = Invalid THEN "idle" ELSE "swap"]
        /\ read' = [read EXCEPT ![r] = file]
    BY <2>1 DEF BeginReload, Goto
  <2>3. Reloaders \subseteq Threads
    BY DEF Threads
  <2> QED BY <2>2, <2>3 DEF TypeOK
<1>3. CASE \E r \in Reloaders : Swap(r)
  <2>1. PICK r \in Reloaders : Swap(r)
    BY <1>3
  <2>2. (Goto(r, "stop") \/ Goto(r, "idle")) /\ read' = [read EXCEPT ![r] = Invalid]
    BY <2>1 DEF Swap
  <2>3. Reloaders \subseteq Threads
    BY DEF Threads
  <2> QED BY <2>2, <2>3 DEF TypeOK, Goto
<1>4. CASE \E t \in Threads : CollectionStep(t)
  <2>1. PICK t \in Threads : CollectionStep(t)
    BY <1>4
  <2>2. Reloaders \subseteq Threads
    BY DEF Threads
  <2> QED BY <2>1, <2>2, CollectionNoSwap
<1>5. CASE SetupReloads \/ BeginShutdown
  <2>1. (Goto(Main, "serve") \/ Goto(Main, "stop")) /\ read' = read
    BY <1>5 DEF SetupReloads, BeginShutdown
  <2> QED BY <2>1, ServerAssumption DEF TypeOK, Goto, Threads
<1>6. CASE Exit
    BY <1>6, ServerAssumption DEF Exit, Threads
<1>7. CASE \E i \in 1 .. MaxPools : LoopTick(i) \/ LoopPublish(i) \/ LoopExit(i)
  <2>1. read' = read /\ pc' = pc
    BY <1>7 DEF LoopTick, LoopPublish, LoopExit
  <2> QED BY <2>1
<1> QED BY <1>1, <1>2, <1>3, <1>4, <1>5, <1>6, <1>7 DEF Next

LEMMA NextServer == ServerInv /\ [Next]_vars => ServerInv'
<1> SUFFICES ASSUME ServerInv, [Next]_vars PROVE ServerInv'
    OBVIOUS
<1>1. CASE UNCHANGED vars
    BY <1>1 DEF vars, disk, triggers, fields, ServerInv, TypeOK, SwapsValid, PoolHasOneOwner,
        HoldersHold, HolderStage, PoolIds
<1>2. CASE Next
  <2>1. SwapsValid'
    BY <1>2, NextSwapsValid
  <2>2. TypeOK' /\ Ownership'
    <3>1. CASE \/ \E c \in Configs \cup {Invalid} : WriteFile(c) \/ RotateSecret(c)
               \/ Signal \/ SetupReloads \/ BeginShutdown
               \/ \E r \in Reloaders : BeginReload(r) \/ Swap(r)
        BY <3>1, QuietTypes, QuietOwnership DEF ServerInv
    <3>2. CASE \E t \in Threads : CollectionStep(t)
      <4>1. PICK t \in Threads : CollectionStep(t)
        BY <3>2
      <4>2. Ownership'
        BY <4>1, StopOwnership, CancelOwnership, CloseOwnership, BuildOwnership, FirstOwnership,
            AssignOwnership DEF CollectionStep
      <4> QED BY <4>1, <4>2, CollectionTypes
    <3>3. CASE Exit
        BY <3>3, ExitTypes, ExitOwnership
    <3>4. CASE \E i \in 1 .. MaxPools : LoopTick(i) \/ LoopPublish(i) \/ LoopExit(i)
      <4>1. PICK i \in 1 .. MaxPools : LoopStep(i)
        BY <3>4 DEF LoopStep
      <4> QED BY <4>1, LoopTypes, LoopOwnership
    <3> QED BY <1>2, <3>1, <3>2, <3>3, <3>4 DEF Next
  <2> QED BY <2>1, <2>2 DEF ServerInv, Ownership
<1> QED BY <1>1, <1>2

LEMMA AlwaysServer == Spec => []ServerInv
<1>1. Init => ServerInv
    BY InitServer
<1> QED BY <1>1, NextServer, PTL DEF Spec

\* The types of the server's state.
THEOREM TypeCorrect == Spec => []TypeOK
<1>1. ServerInv => TypeOK
    BY DEF ServerInv
<1> QED BY <1>1, AlwaysServer, PTL

\* Whatever reloads and shutdown overlap, a pool has one owner: stopCollection
\* never takes a pool that another thread took or is building, and what the
\* fields of the server name is neither cancelled nor closed.
THEOREM OneOwner == Spec => []PoolHasOneOwner
<1>1. ServerInv => PoolHasOneOwner
    BY DEF ServerInv
<1> QED BY <1>1, AlwaysServer, PTL

-----------------------------------------------------------------------------
(* Reloads that come one after the other.                                   *)

\* A step of a busy thread leaves every other thread not busy.
LEMMA BusyStep ==
    ASSUME ServerInv, SerialInv, ~overlapped, overlapped' = overlapped,
           NEW t \in Threads, Busy(t), \A u \in Threads : u # t => pc'[u] = pc[u]
    PROVE  /\ \A u, v \in Threads : (Busy(u) /\ Busy(v))' => u = v
           /\ \A u \in Threads : u # t => pc'[u] \notin Holding \cup {"build"}
<1>1. \A u \in Threads : u # t => ~Busy(u) /\ ~Busy(u)'
    BY DEF SerialInv, Busy
<1>2. \A u \in Threads : u # t => pc'[u] \in {"idle", "serve"}
    BY <1>1 DEF Busy
<1> QED BY <1>1, <1>2 DEF Holding

LEMMA NextSerial == ServerInv /\ SerialInv /\ [Next]_vars => SerialInv'
<1> SUFFICES ASSUME ServerInv, SerialInv, [Next]_vars, ~overlapped'
             PROVE  /\ \A t, u \in Threads : (Busy(t) /\ Busy(u))' => t = u
                    /\ \A t \in Threads : pc'[t] \in Holding \cup {"build"} => current' = 0
    BY DEF SerialInv
<1>0. Main \in Threads /\ Reloaders \subseteq Threads /\ Main \notin Reloaders
      /\ \A t \in Threads : t # Main => t \in Reloaders
    BY ServerAssumption DEF Threads
<1>1. CASE (pc' = pc /\ overlapped' = overlapped /\ current' = current)
    BY <1>1 DEF SerialInv, Busy
<1>2. CASE \E r \in Reloaders : BeginReload(r)
  <2>1. PICK r \in Reloaders : BeginReload(r)
    BY <1>2
  <2>2. /\ pc[Main] = "serve" /\ \A q \in Reloaders \ {r} : pc[q] = "idle"
        /\ Goto(r, "idle") \/ Goto(r, "swap")
    BY <2>1 DEF BeginReload
  <2>3. /\ \A u \in Threads : u # r => pc'[u] = pc[u]
        /\ pc'[r] \in {"idle", "swap"}
    BY <2>2, <1>0 DEF Goto, ServerInv, TypeOK
  <2>4. \A u \in Threads : u # r => ~Busy(u)'
    BY <2>2, <2>3, <1>0 DEF Busy
  <2>5. \A u \in Threads : pc'[u] \in {"idle", "swap", "serve"}
    BY <2>2, <2>3, <1>0
  <2> QED BY <2>4, <2>5 DEF Holding
<1>3. CASE \E r \in Reloaders : Swap(r)
  <2>1. PICK r \in Reloaders : Swap(r)
    BY <1>3
  <2>2. pc[r] = "swap" /\ overlapped' = overlapped /\ (Goto(r, "stop") \/ Goto(r, "idle"))
    BY <2>1 DEF Swap
  <2>3. /\ \A u \in Threads : u # r => pc'[u] = pc[u]
        /\ pc'[r] \in {"idle", "stop"}
    BY <2>2, <1>0 DEF Goto, ServerInv, TypeOK
  <2>4. Busy(r) /\ r \in Threads
    BY <2>2, <1>0 DEF Busy
  <2>5. pc'[r] \notin Holding \cup {"build"}
    BY <2>3 DEF Holding
  <2> QED BY <2>2, <2>3, <2>4, <2>5, BusyStep
<1>4. CASE \E t \in Threads : CollectionStep(t)
  <2>1. PICK t \in Threads : CollectionStep(t)
    BY <1>4
  <2>2. overlapped' = overlapped /\ pc[t] \in {"stop"} \cup Holding \cup {"build"}
    BY <2>1 DEF CollectionStep, StopCollection, CancelLoop, CloseClients, BuildPool, FirstCycle,
        AssignFields, Holding
  <2>3. \A u \in Threads : u # t => pc'[u] = pc[u]
    BY <2>1, CollectionNoSwap
  <2>4. Busy(t)
    BY <2>2 DEF Busy, Holding
  <2>5. /\ \A u, v \in Threads : (Busy(u) /\ Busy(v))' => u = v
        /\ \A u \in Threads : u # t => pc'[u] \notin Holding \cup {"build"}
    BY <2>2, <2>3, <2>4, BusyStep
  <2>6. pc'[t] \in Holding \cup {"build"} => current' = 0
    <3>1. CASE StopCollection(t)
        BY <3>1 DEF StopCollection
    <3>2. CASE AssignFields(t)
      <4>1. Goto(t, "setup") \/ Goto(t, "idle")
        BY <3>2 DEF AssignFields
      <4>2. pc'[t] \in {"setup", "idle"}
        BY <4>1 DEF Goto, ServerInv, TypeOK
      <4> QED BY <4>2 DEF Holding
    <3>3. CASE CancelLoop(t) \/ CloseClients(t) \/ BuildPool(t) \/ FirstCycle(t)
      <4>1. current' = current /\ pc[t] \in Holding \cup {"build"}
        BY <3>3 DEF CancelLoop, CloseClients, BuildPool, FirstCycle, fields, Holding
      <4> QED BY <4>1, <2>2 DEF SerialInv
    <3> QED BY <2>1, <3>1, <3>2, <3>3 DEF CollectionStep
  <2> QED BY <2>5, <2>6
<1>5. CASE SetupReloads
  <2>1. pc[Main] = "setup" /\ Goto(Main, "serve") /\ overlapped' = overlapped
    BY <1>5 DEF SetupReloads
  <2>2. (\A u \in Threads : u # Main => pc'[u] = pc[u]) /\ pc'[Main] = "serve"
    BY <2>1, <1>0 DEF Goto, ServerInv, TypeOK
  <2>3. Busy(Main)
    BY <2>1 DEF Busy
  <2>4. pc'[Main] \notin Holding \cup {"build"}
    BY <2>2 DEF Holding
  <2> QED BY <1>0, <2>1, <2>2, <2>3, <2>4, BusyStep
<1>6. CASE BeginShutdown
  <2>1. (\A r \in Reloaders : pc[r] = "idle") /\ Goto(Main, "stop")
    BY <1>6 DEF BeginShutdown
  <2>2. (\A u \in Reloaders : pc'[u] = "idle") /\ pc'[Main] = "stop"
    BY <2>1, <1>0 DEF Goto, ServerInv, TypeOK
  <2> QED BY <2>2, <1>0 DEF Busy, Holding
<1>7. CASE Exit
  <2>1. (\A u \in Reloaders : pc'[u] = "idle") /\ pc'[Main] = "exited"
    BY <1>7, <1>0 DEF Exit
  <2> QED BY <2>1, <1>0 DEF Busy, Holding
<1>8. CASE \/ \E c \in Configs \cup {Invalid} : WriteFile(c) \/ RotateSecret(c)
           \/ Signal \/ UNCHANGED vars
           \/ \E i \in 1 .. MaxPools : LoopTick(i) \/ LoopPublish(i) \/ LoopExit(i)
  <2>1. pc' = pc /\ overlapped' = overlapped /\ current' = current
    BY <1>8 DEF WriteFile, RotateSecret, Signal, vars, fields, LoopTick, LoopPublish, LoopExit
  <2> QED BY <2>1, <1>1
<1> QED BY <1>2, <1>3, <1>4, <1>5, <1>6, <1>7, <1>8 DEF Next

\* A pool whose loop runs and is not cancelled can be reached by somebody.
Reached(i) == i = current \/ \E t \in Threads : mine[t] = i

\* A step that starts no loop and lets go of nothing leaks nothing.
LEMMA KeepsReached ==
    ASSUME ServerInv, LoopsStoppable, Len(pools') = Len(pools),
           \A i \in 1 .. Len(pools) : (Live(i) /\ ~pools[i].cancelled)' =>
                Live(i) /\ ~pools[i].cancelled,
           \A i \in 1 .. Len(pools) : (~pools[i].cancelled)' /\ Reached(i) => Reached(i)'
    PROVE  LoopsStoppable'
<1> SUFFICES ASSUME NEW i \in 1 .. Len(pools), (Live(i) /\ ~pools[i].cancelled)'
             PROVE  Reached(i)'
    BY DEF LoopsStoppable, PoolIds, Reached
<1>1. Live(i) /\ ~pools[i].cancelled
    OBVIOUS
<1>2. Reached(i)
    BY <1>1 DEF LoopsStoppable, PoolIds, Reached
<1> QED BY <1>2

LEMMA CollectionStoppable ==
    ASSUME ServerInv, SerialInv, ~overlapped, LoopsStoppable, NEW t \in Threads, CollectionStep(t)
    PROVE  LoopsStoppable'
<1>1. /\ pools \in Seq(Pool) /\ Len(pools) \in Nat
      /\ mine \in [Threads -> 0 .. Len(pools)]
    BY DEF ServerInv, TypeOK
<1>2. CASE StopCollection(t)
  <2>1. /\ pools' = pools /\ pc[t] = "stop"
        /\ \A u \in Threads : mine'[u] = IF u = t THEN current ELSE mine[u]
    BY <1>1, <1>2 DEF StopCollection
  <2>2. mine[t] = 0
    BY <2>1 DEF ServerInv, HoldersHold, Holding
  <2>3. \A i \in 1 .. Len(pools) : Reached(i) => Reached(i)'
    BY <2>1, <2>2 DEF Reached
  <2> QED BY <2>1, <2>3, KeepsReached DEF Live
<1>3. CASE CancelLoop(t)
  <2>1. /\ mine[t] \in 1 .. Len(pools) /\ pools' = [pools EXCEPT ![mine[t]].cancelled = TRUE]
        /\ UNCHANGED <<current, mine>>
    BY <1>3, HeldExists DEF CancelLoop, Holding, fields
  <2>2. /\ Len(pools') = Len(pools) /\ pools'[mine[t]].cancelled
        /\ \A j \in 1 .. Len(pools) : /\ j # mine[t] => pools'[j] = pools[j]
                                      /\ pools'[j].loop = pools[j].loop
    BY <2>1, <1>1, PoolCancelled
  <2>3. \A i \in 1 .. Len(pools) : (Live(i) /\ ~pools[i].cancelled)' => Live(i) /\ ~pools[i].cancelled
    BY <2>2 DEF Live
  <2>4. \A i \in 1 .. Len(pools) : Reached(i) => Reached(i)'
    BY <2>1 DEF Reached
  <2> QED BY <2>2, <2>3, <2>4, KeepsReached
<1>4. CASE CloseClients(t)
  <2>1. /\ mine[t] \in 1 .. Len(pools) /\ pools' = [pools EXCEPT ![mine[t]].closed = TRUE]
        /\ current' = current /\ pc[t] = "close"
        /\ \A u \in Threads : mine'[u] = IF u = t THEN 0 ELSE mine[u]
    BY <1>1, <1>4, HeldExists DEF CloseClients, Holding, fields
  <2>2. /\ Len(pools') = Len(pools)
        /\ \A j \in 1 .. Len(pools) : /\ pools'[j].cancelled = pools[j].cancelled
                                      /\ pools'[j].loop = pools[j].loop
    BY <2>1, <1>1, PoolClosed
  <2>3. pools[mine[t]].cancelled
    BY <2>1 DEF ServerInv, HolderStage
  <2>4. \A i \in 1 .. Len(pools) : (Live(i) /\ ~pools[i].cancelled)' => Live(i) /\ ~pools[i].cancelled
    BY <2>2 DEF Live
  <2>5. \A i \in 1 .. Len(pools) : (~pools[i].cancelled)' => i # mine[t]
    BY <2>2, <2>3
  <2>6. \A i \in 1 .. Len(pools) : i # mine[t] /\ Reached(i) => Reached(i)'
    BY <2>1 DEF Reached
  <2> QED BY <2>2, <2>4, <2>5, <2>6, KeepsReached
<1>5. CASE BuildPool(t)
  <2> DEFINE n == Len(pools) + 1
             e == [clusters |-> cfg.clusters, loop |-> "first", cancelled |-> FALSE,
                   closed |-> FALSE]
  <2>1. /\ pools' = Append(pools, e) /\ current' = current /\ pc[t] = "build"
        /\ \A u \in Threads : mine'[u] = IF u = t THEN n ELSE mine[u]
    BY <1>1, <1>5 DEF BuildPool, fields
  <2>2. e \in Pool /\ e.loop = "first"
    <3>1. cfg.clusters \in ClusterLists
        BY DEF ServerInv, TypeOK, ClusterLists
    <3> QED BY <3>1 DEF Pool
  <2> HIDE DEF e
  <2>3. /\ Len(pools') = n /\ pools'[n] = e
        /\ \A j \in 1 .. Len(pools) : pools'[j] = pools[j]
    BY <1>1, <2>1, <2>2, PoolAppend
  <2>4. mine[t] = 0
    BY <2>1 DEF ServerInv, HoldersHold, Holding
  <2>5. SUFFICES ASSUME NEW i \in PoolIds', (Live(i) /\ ~pools[i].cancelled)'
                 PROVE  Reached(i)'
    BY DEF LoopsStoppable, Reached
  <2>6. i \in 1 .. Len(pools) /\ Live(i) /\ ~pools[i].cancelled
    <3>1. pools'[i].loop # "first"
        BY <2>5 DEF Live
    <3>2. i # n
        BY <2>2, <2>3, <3>1
    <3>3. i \in 1 .. Len(pools)
        BY <1>1, <2>3, <3>2 DEF PoolIds
    <3> QED BY <2>3, <2>5, <3>3 DEF Live
  <2>7. Reached(i)
    BY <2>6 DEF LoopsStoppable, PoolIds, Reached
  <2> QED BY <2>1, <2>4, <2>6, <2>7 DEF Reached
<1>6. CASE FirstCycle(t)
  <2>1. /\ mine[t] \in 1 .. Len(pools) /\ Moves(mine[t], "idle")
        /\ UNCHANGED <<current, mine>>
    BY <1>6, HeldExists DEF FirstCycle, Holding, fields, Moves
  <2>2. /\ Len(pools') = Len(pools)
        /\ \A j \in 1 .. Len(pools) : j # mine[t] => pools'[j] = pools[j]
    BY <1>1, <2>1, PoolMoves
  <2>3. SUFFICES ASSUME NEW i \in PoolIds', (Live(i) /\ ~pools[i].cancelled)'
                 PROVE  Reached(i)'
    BY DEF LoopsStoppable, Reached
  <2>4. CASE i = mine[t]
    BY <2>1, <2>4 DEF Reached
  <2>5. CASE i # mine[t]
    <3>1. i \in PoolIds /\ Live(i) /\ ~pools[i].cancelled
        BY <2>2, <2>3, <2>5 DEF PoolIds, Live
    <3>2. Reached(i)
        BY <3>1 DEF LoopsStoppable, Reached
    <3> QED BY <2>1, <3>2 DEF Reached
  <2> QED BY <2>4, <2>5
<1>7. CASE AssignFields(t)
  <2>1. /\ pools' = pools /\ current' = mine[t] /\ pc[t] = "assign"
        /\ \A u \in Threads : mine'[u] = IF u = t THEN 0 ELSE mine[u]
    BY <1>1, <1>7 DEF AssignFields
  <2>2. current = 0
    BY <2>1 DEF SerialInv, Holding
  <2>3. \A i \in 1 .. Len(pools) : Reached(i) => Reached(i)'
    BY <2>1, <2>2 DEF Reached
  <2> QED BY <2>1, <2>3, KeepsReached DEF Live
<1> QED BY <1>2, <1>3, <1>4, <1>5, <1>6, <1>7 DEF CollectionStep

LEMMA NextStoppable ==
    ServerInv /\ SerialInv /\ SerialReloadsLeakNothing /\ [Next]_vars => SerialReloadsLeakNothing'
<1> SUFFICES ASSUME ServerInv, SerialInv, SerialReloadsLeakNothing, [Next]_vars, ~overlapped'
             PROVE  LoopsStoppable'
    BY DEF SerialReloadsLeakNothing
<1>1. ~overlapped
    BY DEF Next, WriteFile, RotateSecret, Signal, BeginReload, Swap, CollectionStep, StopCollection, CancelLoop,
        CloseClients, BuildPool, FirstCycle, AssignFields, SetupReloads, BeginShutdown, Exit,
        LoopTick, LoopPublish, LoopExit, vars
<1>2. LoopsStoppable
    BY <1>1 DEF SerialReloadsLeakNothing
<1>3. CASE UNCHANGED <<pools, current, mine>>
    BY <1>2, <1>3 DEF LoopsStoppable, Live, PoolIds
<1>4. CASE \E t \in Threads : CollectionStep(t)
    BY <1>1, <1>2, <1>4, CollectionStoppable
<1>5. CASE Exit
  <2>1. PoolIds' = {}
    BY <1>5 DEF Exit, PoolIds
  <2> QED BY <2>1 DEF LoopsStoppable
<1>6. CASE \E i \in 1 .. MaxPools : LoopTick(i) \/ LoopPublish(i) \/ LoopExit(i)
  <2>1. PICK i \in 1 .. MaxPools : LoopStep(i)
    BY <1>6 DEF LoopStep
  <2>2. PICK label \in {"idle", "polling", "gone"} : Moves(i, label)
    BY <2>1, LoopMoves
  <2>3. i \in 1 .. Len(pools) /\ Live(i) /\ UNCHANGED <<current, mine>>
    BY <2>1, LoopMoves DEF fields
  <2>4. /\ Len(pools') = Len(pools)
        /\ \A j \in 1 .. Len(pools) : /\ j # i => pools'[j] = pools[j]
                                      /\ pools'[j].cancelled = pools[j].cancelled
    BY <2>2, <2>3, PoolMoves DEF ServerInv, TypeOK
  <2>5. \A j \in 1 .. Len(pools) : (Live(j) /\ ~pools[j].cancelled)' => Live(j) /\ ~pools[j].cancelled
    BY <2>3, <2>4 DEF Live
  <2>6. \A j \in 1 .. Len(pools) : Reached(j) => Reached(j)'
    BY <2>3 DEF Reached
  <2> QED BY <1>2, <2>4, <2>5, <2>6, KeepsReached
<1>7. CASE \/ \E c \in Configs \cup {Invalid} : WriteFile(c) \/ RotateSecret(c)
           \/ Signal \/ SetupReloads \/ BeginShutdown \/ UNCHANGED vars
           \/ \E r \in Reloaders : BeginReload(r) \/ Swap(r)
  <2>1. UNCHANGED <<pools, current, mine>>
    BY <1>7 DEF WriteFile, RotateSecret, Signal, SetupReloads, BeginShutdown, BeginReload, Swap, fields, vars
  <2> QED BY <2>1, <1>3
<1> QED BY <1>4, <1>5, <1>6, <1>7 DEF Next

\* As long as no reload overlaps another one or the shutdown, every running loop
\* that is not cancelled belongs to the fields or to the thread at work: the next
\* stopCollection reaches it.
THEOREM SerialLeakNothing == Spec => []SerialReloadsLeakNothing
<1>1. Init => ServerInv /\ SerialInv /\ SerialReloadsLeakNothing
  <2>1. Init => SerialReloadsLeakNothing
    BY DEF Init, SerialReloadsLeakNothing, LoopsStoppable, PoolIds
  <2> QED BY <2>1, InitServer
<1>2. ServerInv /\ SerialInv /\ SerialReloadsLeakNothing /\ [Next]_vars
        => (ServerInv /\ SerialInv /\ SerialReloadsLeakNothing)'
    BY NextServer, NextSerial, NextStoppable
<1> QED BY <1>1, <1>2, PTL DEF Spec

-----------------------------------------------------------------------------
(* That a configuration takes effect, for any configurations and any number *)
(* of edits, rotations, signals and pools, as long as reloads come one      *)
(* after the other.                                                         *)

\* Until main shuts down.
Early == pc[Main] \in {"build", "first", "assign", "setup", "serve"}

\* The files as they stand are in force, or about to be swapped in.
Known ==
    /\ \A r \in Reloaders : pc[r] = "swap" => read[r] = file
    /\ file # Invalid => cfg = file \/ \E r \in Reloaders : pc[r] = "swap"

\* A trigger that came after the last edit waits, or has led to them.
HeardInv ==
    ~overlapped /\ Early /\ heard => (\E r \in Reloaders : pending[r]) \/ Known

\* What is being built, and unless somebody is rebuilding what is running, is of
\* the configured clusters.
Settled == \A t \in Threads : pc[t] \notin Rebuilding \cup TakingDown
PoolInv ==
    ~overlapped /\ Early =>
        /\ \A t \in Threads : pc[t] \in {"first", "assign"} => pools[mine[t]].clusters = cfg.clusters
        /\ Settled => current # 0 /\ pools[current].clusters = cfg.clusters

EffectInv == ServerInv /\ SerialInv /\ HeardInv /\ PoolInv

-----------------------------------------------------------------------------
\* Who the threads are.
LEMMA ThreadsAre ==
    /\ Main \in Threads /\ Reloaders \subseteq Threads /\ Main \notin Reloaders
    /\ SigHup \in Reloaders /\ Watcher \in Reloaders
    /\ \A t \in Threads : t # Main => t \in Reloaders
BY ServerAssumption DEF Threads, Reloaders

\* Steps that move no thread.
StillStep ==
    \/ \E c \in Configs \cup {Invalid} : WriteFile(c) \/ RotateSecret(c)
    \/ Signal
    \/ \E i \in 1 .. MaxPools : LoopTick(i) \/ LoopPublish(i) \/ LoopExit(i)
    \/ UNCHANGED vars

\* Once main has begun to shut down it never comes back, and an overlap is not
\* forgotten.
LEMMA EarlyKept ==
    ASSUME ServerInv, [Next]_vars, ~overlapped', Early'
    PROVE  ~overlapped /\ Early
<1>1. ~overlapped
    BY DEF Next, WriteFile, RotateSecret, Signal, BeginReload, Swap, CollectionStep, StopCollection,
        CancelLoop, CloseClients, BuildPool, FirstCycle, AssignFields, SetupReloads, BeginShutdown,
        Exit, LoopTick, LoopPublish, LoopExit, vars
<1>2. CASE StillStep
  <2>1. pc' = pc
    BY <1>2 DEF StillStep, WriteFile, RotateSecret, Signal, LoopTick, LoopPublish, LoopExit, vars
  <2> QED BY <1>1, <2>1 DEF Early
<1>3. CASE \E r \in Reloaders : BeginReload(r) \/ Swap(r)
  <2>1. pc'[Main] = pc[Main]
    BY <1>3, ThreadsAre DEF BeginReload, Swap, Goto, ServerInv, TypeOK
  <2> QED BY <1>1, <2>1 DEF Early
<1>4. CASE \E t \in Threads : CollectionStep(t)
  <2>1. PICK t \in Threads : CollectionStep(t)
    BY <1>4
  <2>2. CASE t # Main
    BY <1>1, <2>1, <2>2, CollectionNoSwap, ThreadsAre DEF Early
  <2>3. CASE t = Main
    <3>1. CASE StopCollection(Main) \/ CancelLoop(Main) \/ CloseClients(Main)
      <4>1. Goto(Main, "cancel") \/ Goto(Main, "flush") \/ Goto(Main, "close")
        BY <3>1 DEF StopCollection, CancelLoop, CloseClients
      <4>2. pc'[Main] \in {"cancel", "flush", "close"}
        BY <4>1, ThreadsAre DEF Goto, ServerInv, TypeOK
      <4> QED BY <4>2 DEF Early
    <3>2. CASE BuildPool(Main) \/ FirstCycle(Main) \/ AssignFields(Main)
        BY <3>2 DEF BuildPool, FirstCycle, AssignFields, Early
    <3> QED BY <2>1, <2>3, <3>1, <3>2 DEF CollectionStep
  <2> QED BY <2>2, <2>3
<1>5. CASE SetupReloads \/ BeginShutdown
    BY <1>1, <1>5 DEF SetupReloads, BeginShutdown, Early
<1>6. CASE Exit
  <2>1. pc'[Main] = "exited"
    BY <1>6, ThreadsAre DEF Exit
  <2> QED BY <2>1 DEF Early
<1> QED BY <1>1, <1>2, <1>3, <1>4, <1>5, <1>6 DEF Next, StillStep

-----------------------------------------------------------------------------
(* Triggers.                                                                *)

\* The step: a trigger is kept pending until the files are read, or about to be.
LEMMA NextHeard ==
    ASSUME ServerInv, SerialInv, HeardInv, [Next]_vars
    PROVE  HeardInv'
<1> SUFFICES ASSUME ~overlapped', Early', heard'
             PROVE  (\E r \in Reloaders : pending'[r]) \/ Known'
    BY DEF HeardInv
<1>0. ~overlapped /\ Early
    BY EarlyKept
<1>1. CASE UNCHANGED <<file, heard, pending, cfg, read>>
           /\ \A r \in Reloaders : pc'[r] = "swap" <=> pc[r] = "swap"
    BY <1>0, <1>1 DEF HeardInv, Known
<1>2. ASSUME NEW c \in Configs \cup {Invalid}, WriteFile(c) PROVE pending'[Watcher]
    BY <1>2, ThreadsAre DEF WriteFile, ServerInv, TypeOK
<1>3. ASSUME NEW c \in Configs \cup {Invalid}, RotateSecret(c) PROVE FALSE
    BY <1>3 DEF RotateSecret
<1>4. CASE Signal
  <2>1. pending'[SigHup]
    BY <1>4, ThreadsAre DEF Signal, ServerInv, TypeOK
  <2> QED BY <2>1, ThreadsAre
<1>5. ASSUME NEW r \in Reloaders, BeginReload(r) PROVE Known'
  <2>1. /\ UNCHANGED <<file, cfg>> /\ read' = [read EXCEPT ![r] = file]
        /\ pc' = [pc EXCEPT ![r] = IF file = Invalid THEN "idle" ELSE "swap"]
        /\ \A q \in Reloaders \ {r} : pc[q] = "idle"
    BY <1>5 DEF BeginReload, Goto, disk, fields
  <2>2. /\ read'[r] = file
        /\ file # Invalid => pc'[r] = "swap"
        /\ \A q \in Reloaders : q # r => pc'[q] = "idle"
    BY <2>1, ThreadsAre DEF ServerInv, TypeOK
  <2> QED BY <2>1, <2>2 DEF Known
<1>6. ASSUME NEW r \in Reloaders, Swap(r) PROVE (\E q \in Reloaders : pending'[q]) \/ Known'
  <2>1. /\ UNCHANGED <<file, heard, pending>> /\ pc[r] = "swap" /\ cfg' = read[r]
        /\ Goto(r, "stop") \/ Goto(r, "idle")
    BY <1>6 DEF Swap, disk, triggers
  <2>2. \A q \in Reloaders : pc'[q] # "swap"
    <3>1. \A q \in Reloaders \ {r} : pc'[q] = pc[q]
        BY <2>1, ThreadsAre DEF Goto, ServerInv, TypeOK
    <3>2. \A q \in Reloaders \ {r} : pc[q] # "swap"
        BY <1>0, <2>1, ThreadsAre DEF SerialInv, Busy
    <3>3. pc'[r] # "swap"
        BY <2>1, ThreadsAre DEF Goto, ServerInv, TypeOK
    <3> QED BY <3>1, <3>2, <3>3
  <2>3. CASE Known
    BY <2>1, <2>2, <2>3 DEF Known
  <2> QED BY <1>0, <2>1, <2>3 DEF HeardInv
<1>7. ASSUME NEW t \in Threads, CollectionStep(t)
      PROVE  UNCHANGED <<file, heard, pending, cfg, read>>
             /\ \A r \in Reloaders : pc'[r] = "swap" <=> pc[r] = "swap"
  <2>1. UNCHANGED <<file, heard, pending, cfg, read>> /\ pc[t] # "swap"
    BY <1>7 DEF CollectionStep, StopCollection, CancelLoop, CloseClients, BuildPool, FirstCycle,
        AssignFields, disk, triggers, fields
  <2> QED BY <1>7, <2>1, CollectionNoSwap, ThreadsAre
<1>8. CASE SetupReloads
  <2>1. UNCHANGED <<file, heard, pending, cfg, read>> /\ Goto(Main, "serve")
    BY <1>8 DEF SetupReloads, disk, fields
  <2>2. \A r \in Reloaders : pc'[r] = pc[r]
    BY <2>1, ThreadsAre DEF Goto, ServerInv, TypeOK
  <2> QED BY <1>1, <2>1, <2>2
<1>9. CASE BeginShutdown \/ Exit
  <2>1. pc'[Main] \in {"stop", "exited"}
    BY <1>9, ThreadsAre DEF BeginShutdown, Exit, Goto, ServerInv, TypeOK
  <2> QED BY <2>1 DEF Early
<1>10. CASE UNCHANGED vars \/ \E i \in 1 .. MaxPools : LoopTick(i) \/ LoopPublish(i) \/ LoopExit(i)
  <2>1. UNCHANGED <<file, heard, pending, cfg, read, pc>>
    BY <1>10 DEF LoopTick, LoopPublish, LoopExit, vars, disk, triggers, fields
  <2> QED BY <1>1, <2>1
<1> QED BY <1>1, <1>2, <1>3, <1>4, <1>5, <1>6, <1>7, <1>8, <1>9, <1>10, ThreadsAre DEF Next

-----------------------------------------------------------------------------
(* Pools.                                                                   *)

\* No step changes the clusters of a pool that is built.
LEMMA ClustersKept ==
    ASSUME pools \in Seq(Pool), NEW i \in 1 .. Len(pools),
           \/ \E label \in {"idle", "polling", "gone"} : pools' = [pools EXCEPT ![i].loop = label]
           \/ pools' = [pools EXCEPT ![i].cancelled = TRUE]
           \/ pools' = [pools EXCEPT ![i].closed = TRUE]
    PROVE  Len(pools') = Len(pools) /\ \A j \in 1 .. Len(pools) : pools'[j].clusters = pools[j].clusters
<1>1. pools[i] \in Pool
    BY ElementOfSeq
<1>2. PICK e \in Pool : e.clusters = pools[i].clusters /\ pools' = [pools EXCEPT ![i] = e]
  <2>1. CASE \E label \in {"idle", "polling", "gone"} : pools' = [pools EXCEPT ![i].loop = label]
    <3>1. PICK label \in {"idle", "polling", "gone"} : pools' = [pools EXCEPT ![i].loop = label]
        BY <2>1
    <3>2. [pools[i] EXCEPT !.loop = label] \in Pool
          /\ [pools[i] EXCEPT !.loop = label].clusters = pools[i].clusters
        BY <1>1 DEF Pool
    <3> QED BY <3>1, <3>2
  <2>2. CASE pools' = [pools EXCEPT ![i].cancelled = TRUE]
    <3>1. [pools[i] EXCEPT !.cancelled = TRUE] \in Pool
          /\ [pools[i] EXCEPT !.cancelled = TRUE].clusters = pools[i].clusters
        BY <1>1 DEF Pool
    <3> QED BY <2>2, <3>1
  <2>3. CASE pools' = [pools EXCEPT ![i].closed = TRUE]
    <3>1. [pools[i] EXCEPT !.closed = TRUE] \in Pool
          /\ [pools[i] EXCEPT !.closed = TRUE].clusters = pools[i].clusters
        BY <1>1 DEF Pool
    <3> QED BY <2>3, <3>1
  <2> QED BY <2>1, <2>2, <2>3
<1> QED BY <1>2, PoolUpdate

\* A step that leaves the threads, what they hold and the settings alone, and the
\* clusters of every pool.
LEMMA PoolQuiet ==
    ASSUME ServerInv, PoolInv, ~overlapped, Early, UNCHANGED <<pc, mine, current, cfg>>,
           \A j \in 1 .. Len(pools) : pools'[j].clusters = pools[j].clusters
    PROVE  PoolInv'
<1>1. \A t \in Threads : pc[t] \in {"first", "assign"} => mine[t] \in 1 .. Len(pools)
    BY HeldExists DEF Holding
<1>2. current # 0 => current \in 1 .. Len(pools)
    BY DEF ServerInv, TypeOK
<1> QED BY <1>1, <1>2 DEF PoolInv, Settled

\* The thread at work is the only one, so what it does next decides.
LEMMA CollectionPools ==
    ASSUME ServerInv, SerialInv, PoolInv, ~overlapped, Early, Early',
           NEW t \in Threads, CollectionStep(t)
    PROVE  PoolInv'
<1>0. /\ pools \in Seq(Pool) /\ Len(pools) \in Nat
      /\ mine \in [Threads -> 0 .. Len(pools)] /\ pc \in [Threads -> Labels]
    BY DEF ServerInv, TypeOK
<1>1. /\ pc[t] \in Rebuilding \cup TakingDown
      /\ cfg' = cfg
    BY DEF CollectionStep, StopCollection, CancelLoop, CloseClients, BuildPool, FirstCycle,
        AssignFields, Rebuilding, TakingDown, fields
<1>2. \A u \in Threads : u # t => pc'[u] = pc[u] /\ pc[u] \in {"idle", "serve"}
  <2>1. Busy(t)
    BY <1>1 DEF Busy, Rebuilding, TakingDown
  <2>2. \A u \in Threads : u # t => ~Busy(u)
    BY <2>1 DEF SerialInv
  <2> QED BY <2>2, CollectionNoSwap DEF Busy
<1>3. CASE pc'[t] \in {"build"} \cup TakingDown
    BY <1>2, <1>3 DEF PoolInv, Settled, Rebuilding, TakingDown
<1>4. CASE StopCollection(t) \/ CancelLoop(t) \/ CloseClients(t)
  <2>1. \/ pc'[t] \in {"cancel", "close", "build"}
        \/ t = Main /\ pc'[t] = "flush"
    BY <1>0, <1>4 DEF StopCollection, CancelLoop, CloseClients, Goto
  <2> QED BY <1>3, <2>1 DEF Early, Rebuilding, TakingDown
<1>5. CASE BuildPool(t)
  <2> DEFINE e == [clusters |-> cfg.clusters, loop |-> "first", cancelled |-> FALSE,
                   closed |-> FALSE]
  <2>1. /\ pools' = Append(pools, e) /\ pc'[t] = "first" /\ mine'[t] = Len(pools) + 1
    BY <1>0, <1>5 DEF BuildPool, Goto
  <2>2. e \in Pool /\ e.clusters = cfg.clusters
    <3>1. cfg.clusters \in ClusterLists
        BY DEF ServerInv, TypeOK, ClusterLists
    <3> QED BY <3>1 DEF Pool
  <2> HIDE DEF e
  <2>3. pools'[mine'[t]].clusters = cfg'.clusters
    BY <1>0, <1>1, <2>1, <2>2, PoolAppend
  <2> QED BY <1>2, <2>1, <2>3 DEF PoolInv, Settled, Rebuilding
<1>6. CASE FirstCycle(t)
  <2>1. /\ mine[t] \in 1 .. Len(pools) /\ pools' = [pools EXCEPT ![mine[t]].loop = "idle"]
        /\ mine' = mine /\ pc[t] = "first" /\ pc'[t] = "assign"
    BY <1>0, <1>6, HeldExists DEF FirstCycle, Goto, Holding
  <2>2. pools'[mine[t]].clusters = pools[mine[t]].clusters
    BY <1>0, <2>1, ClustersKept
  <2>3. pools'[mine'[t]].clusters = cfg'.clusters
    BY <1>1, <2>1, <2>2 DEF PoolInv
  <2> QED BY <1>2, <2>1, <2>3 DEF PoolInv, Settled, Rebuilding
<1>7. CASE AssignFields(t)
  <2>1. /\ mine[t] \in 1 .. Len(pools) /\ pools' = pools /\ current' = mine[t]
        /\ pc[t] = "assign" /\ pc'[t] \in {"setup", "idle"}
    BY <1>0, <1>7, HeldExists DEF AssignFields, Goto, Holding
  <2>2. current' # 0 /\ pools'[current'].clusters = cfg'.clusters
    BY <1>0, <1>1, <2>1 DEF PoolInv
  <2> QED BY <1>2, <2>1, <2>2 DEF PoolInv, Settled
<1> QED BY <1>4, <1>5, <1>6, <1>7 DEF CollectionStep

\* The step for the pools, from those of the threads.
LEMMA NextPools ==
    ASSUME ServerInv, SerialInv, PoolInv, [Next]_vars
    PROVE  PoolInv'
<1> SUFFICES ASSUME ~overlapped', Early' PROVE PoolInv'
    BY DEF PoolInv
<1>0. ~overlapped /\ Early
    BY EarlyKept
<1>1. CASE \E t \in Threads : CollectionStep(t)
    BY <1>0, <1>1, CollectionPools
<1>2. ASSUME NEW r \in Reloaders, BeginReload(r) PROVE PoolInv'
  <2>1. /\ UNCHANGED <<pools, mine, current, cfg>> /\ pc[r] = "idle"
        /\ Goto(r, "idle") \/ Goto(r, "swap")
    BY <1>2 DEF BeginReload, fields
  <2>2. /\ \A u \in Threads : u # r => pc'[u] = pc[u]
        /\ pc'[r] \in {"idle", "swap"}
    BY <2>1, ThreadsAre DEF Goto, ServerInv, TypeOK
  <2>3. Settled' => Settled
    BY <2>1, <2>2 DEF Settled, Rebuilding, TakingDown
  <2> QED BY <1>0, <2>1, <2>2, <2>3 DEF PoolInv
<1>3. ASSUME NEW r \in Reloaders, Swap(r) PROVE PoolInv'
  <2>1. /\ UNCHANGED <<pools, mine, current>> /\ pc[r] = "swap" /\ cfg' = read[r]
        /\ Goto(r, IF read[r].clusters # cfg.clusters THEN "stop" ELSE "idle")
    BY <1>3 DEF Swap
  <2>2. \A u \in Threads : u # r => pc'[u] = pc[u] /\ pc[u] \in {"idle", "serve"}
    <3>1. Busy(r) /\ r \in Threads
        BY <2>1, ThreadsAre DEF Busy
    <3>2. \A u \in Threads : u # r => ~Busy(u)
        BY <1>0, <3>1 DEF SerialInv
    <3>3. \A u \in Threads : u # r => pc'[u] = pc[u]
        BY <2>1, ThreadsAre DEF Goto, ServerInv, TypeOK
    <3> QED BY <3>2, <3>3 DEF Busy
  <2>3. pc'[r] = IF cfg'.clusters # cfg.clusters THEN "stop" ELSE "idle"
    BY <2>1, ThreadsAre DEF Goto, ServerInv, TypeOK
  <2>4. Settled
    BY <2>1, <2>2 DEF Settled, Rebuilding, TakingDown
  <2>5. Settled' => cfg'.clusters = cfg.clusters
    BY <2>3, ThreadsAre DEF Settled, TakingDown
  <2>6. \A u \in Threads : pc'[u] \notin {"first", "assign"}
    BY <2>2, <2>3
  <2> QED BY <1>0, <2>1, <2>4, <2>5, <2>6 DEF PoolInv
<1>4. CASE SetupReloads
  <2>1. UNCHANGED <<pools, mine, current, cfg>> /\ pc[Main] = "setup" /\ Goto(Main, "serve")
    BY <1>4 DEF SetupReloads, fields
  <2>2. /\ \A u \in Threads : u # Main => pc'[u] = pc[u]
        /\ pc'[Main] = "serve"
    BY <2>1, ThreadsAre DEF Goto, ServerInv, TypeOK
  <2>3. Settled' => Settled
    BY <2>1, <2>2 DEF Settled, Rebuilding, TakingDown
  <2> QED BY <1>0, <2>1, <2>2, <2>3 DEF PoolInv
<1>5. CASE BeginShutdown \/ Exit
  <2>1. pc'[Main] \in {"stop", "exited"}
    BY <1>5, ThreadsAre DEF BeginShutdown, Exit, Goto, ServerInv, TypeOK
  <2> QED BY <2>1 DEF Early
<1>6. CASE \E i \in 1 .. MaxPools : LoopTick(i) \/ LoopPublish(i) \/ LoopExit(i)
  <2>1. PICK i \in 1 .. MaxPools : LoopStep(i)
    BY <1>6 DEF LoopStep
  <2>2. /\ UNCHANGED <<pc, mine, current, cfg>> /\ i \in 1 .. Len(pools)
        /\ \E label \in {"idle", "polling", "gone"} : pools' = [pools EXCEPT ![i].loop = label]
    BY <2>1, LoopMoves DEF Moves, fields
  <2>3. \A j \in 1 .. Len(pools) : pools'[j].clusters = pools[j].clusters
    BY <2>2, ClustersKept DEF ServerInv, TypeOK
  <2> QED BY <1>0, <2>2, <2>3, PoolQuiet
<1>7. CASE (\E c \in Configs \cup {Invalid} : WriteFile(c) \/ RotateSecret(c)) \/ Signal \/ UNCHANGED vars
  <2>1. UNCHANGED <<pc, mine, current, cfg, pools>>
    BY <1>7 DEF WriteFile, RotateSecret, Signal, vars, fields
  <2> QED BY <1>0, <2>1, PoolQuiet
<1> QED BY <1>1, <1>2, <1>3, <1>4, <1>5, <1>6, <1>7 DEF Next

-----------------------------------------------------------------------------
\* Main reads the files before anything else.
LEMMA InitEffect == Init => EffectInv
<1> SUFFICES ASSUME Init PROVE EffectInv
    OBVIOUS
<1>1. pc = [t \in Threads |-> IF t = Main THEN "build" ELSE "idle"] /\ cfg = file
    BY DEF Init
<1>2. pc[Main] = "build" /\ \A r \in Reloaders : pc[r] = "idle"
    BY <1>1, ThreadsAre
<1>3. HeardInv
    BY <1>1, <1>2 DEF HeardInv, Known
<1>4. PoolInv
    BY <1>2, ThreadsAre DEF PoolInv, Settled, Rebuilding
<1> QED BY <1>3, <1>4, InitServer DEF EffectInv

\* The inductive invariant: a trigger that came after the last edit is not lost, and
\* who rebuilds does it for the clusters in force.
THEOREM EffectInvariant == Spec => []EffectInv
<1>1. EffectInv /\ [Next]_vars => EffectInv'
    BY NextServer, NextSerial, NextHeard, NextPools DEF EffectInv
<1> QED BY <1>1, InitEffect, PTL DEF Spec

\* After reloads that came one after the other, what stands on disk is in force, if
\* it is valid and a trigger came after its last edit, and the running pool is that
\* of the configured clusters.
THEOREM ConfigurationTakesEffect == Spec => []ConfigTakesEffect
<1>1. EffectInv => ConfigTakesEffect
  <2> SUFFICES ASSUME EffectInv, Quiescent, ~overlapped
               PROVE  /\ heard /\ file # Invalid => cfg = file
                      /\ current # 0 /\ pools[current].clusters = cfg.clusters
    BY DEF ConfigTakesEffect
  <2>1. Early /\ \A r \in Reloaders : pc[r] = "idle" /\ ~pending[r]
    BY DEF Quiescent, Early
  <2>2. Settled
    BY <2>1, ThreadsAre DEF Settled, Quiescent, Rebuilding, TakingDown
  <2>3. heard /\ file # Invalid => cfg = file
    BY <2>1 DEF EffectInv, HeardInv, Known
  <2> QED BY <2>1, <2>2, <2>3 DEF EffectInv, PoolInv
<1> QED BY <1>1, EffectInvariant, PTL

===============================================================================
