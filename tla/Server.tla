-------------------------------- MODULE Server --------------------------------
(***************************************************************************)
(* The server's lifecycle: start, reload and shutdown of the collection.   *)
(* Two goroutines call Server.ReloadConfig, the SIGHUP handler and the file*)
(* watcher; the main goroutine starts the first collection and shuts down. *)
(* Each rebuild makes a pool (clients and a collector) and a loop over it. *)
(*                                                                         *)
(* s.mu guards s.clients, s.collector and s.collectCancel, which are always*)
(* written together: `current` is the pool they belong to.  It does not    *)
(* guard a rebuild as a whole.                                             *)
(***************************************************************************)
EXTENDS Integers, Sequences

CONSTANTS
    SigHup, Watcher,    \* the goroutines that reload
    Main,               \* the main goroutine
    Configs,            \* the valid configurations: records of the cluster list
                        \* (Config.Clusters) and of all other settings
    Invalid,            \* a configuration that does not pass validation; also
                        \* stands for a file that does not decode
    MaxEdits,           \* bound: how often the files are written
    MaxSignals,         \* bound: how many SIGHUPs arrive
    MaxPools            \* bound: how many pools are built

Reloaders == {SigHup, Watcher}
Threads == Reloaders \cup {Main}
ClusterLists == {c.clusters : c \in Configs}

ASSUME ServerAssumption ==
    /\ SigHup # Watcher /\ Main \notin Reloaders
    /\ Invalid \notin Configs
    /\ MaxEdits \in Nat /\ MaxSignals \in Nat /\ MaxPools \in Nat \ {0}

VARIABLES
    file,       \* what stands on disk: the configuration file and password files
    edits,      \* how often they were written
    heard,      \* history: has a trigger come since their last edit?
    watching,   \* is the file watcher set up?
    signals,    \* how many SIGHUPs arrived
    pending,    \* per reloader: a signal in its channel, a file event queued
    cfg,        \* SafeConfig.C
    current,    \* the pool of s.clients, s.collector, s.collectCancel; 0 = nil
    pools,      \* every pool built so far
    store,      \* the pool whose snapshot is published; 0 = the empty one
    pc,         \* per thread: where it is
    read,       \* per reloader: the configuration it decoded
    mine,       \* per thread: the pool it is building or has taken down
    overlapped  \* history: a reload ran beside another one or a shutdown

disk == <<file, edits, heard>>
triggers == <<watching, signals, pending>>
fields == <<cfg, current>>
vars == <<disk, triggers, fields, pools, store, pc, read, mine, overlapped>>

Pool == [clusters : ClusterLists, loop : {"first", "idle", "polling", "gone"},
         cancelled : BOOLEAN, closed : BOOLEAN]
PoolIds == 1 .. Len(pools)

Rebuilding == {"build", "first", "assign"}
TakingDown == {"stop", "cancel", "close"}
Labels == {"idle", "swap", "setup", "serve", "flush", "exited"} \cup Rebuilding \cup TakingDown

TypeOK ==
    /\ file \in Configs \cup {Invalid} /\ edits \in 0 .. MaxEdits
    /\ signals \in 0 .. MaxSignals
    /\ heard \in BOOLEAN /\ watching \in BOOLEAN
    /\ pending \in [Reloaders -> BOOLEAN]
    /\ cfg \in Configs
    /\ pools \in Seq(Pool) /\ Len(pools) <= MaxPools
    /\ current \in 0 .. Len(pools) /\ store \in 0 .. Len(pools)
    /\ pc \in [Threads -> Labels]
    /\ read \in [Reloaders -> Configs \cup {Invalid}]
    /\ mine \in [Threads -> 0 .. Len(pools)]
    /\ overlapped \in BOOLEAN

\* main has read and validated the file; Start is about to build the first pool.
Init ==
    /\ file \in Configs /\ cfg = file
    /\ edits = 0 /\ heard = TRUE /\ watching = FALSE
    /\ signals = 0
    /\ pending = [r \in Reloaders |-> FALSE]
    /\ current = 0 /\ pools = <<>> /\ store = 0
    /\ pc = [t \in Threads |-> IF t = Main THEN "build" ELSE "idle"]
    /\ read = [r \in Reloaders |-> Invalid]
    /\ mine = [t \in Threads |-> 0]
    /\ overlapped = FALSE

-----------------------------------------------------------------------------
Running == pc[Main] # "exited"

\* The SIGHUP handler is installed and the watcher was tried.
Serving == pc[Main] \in {"serve", "flush", "exited"} \cup TakingDown

Goto(t, label) == pc' = [pc EXCEPT ![t] = label]
Live(i) == pools[i].loop \in {"idle", "polling"}

-----------------------------------------------------------------------------
(* The environment.                                                         *)

\* Somebody writes the file, perhaps in part (Invalid).  The watcher, if there is
\* one, gets an event.
WriteFile(c) ==
    /\ Running /\ edits < MaxEdits /\ c # file
    /\ file' = c
    /\ edits' = edits + 1
    /\ heard' = watching
    /\ pending' = [pending EXCEPT ![Watcher] = @ \/ watching]
    /\ UNCHANGED <<watching, signals, fields, pools, store, pc, read, mine, overlapped>>

\* A password file is rotated: the same settings with other credentials, or none.
\* Only config.yaml raises events.
RotateSecret(c) ==
    /\ Running /\ edits < MaxEdits /\ c # file
    /\ c = Invalid \/ file = Invalid \/ c.others = file.others
    /\ file' = c
    /\ edits' = edits + 1
    /\ heard' = FALSE
    /\ UNCHANGED <<triggers, fields, pools, store, pc, read, mine, overlapped>>

\* SIGHUP: the channel holds one signal, a further one is dropped.
Signal ==
    /\ Running /\ Serving /\ signals < MaxSignals
    /\ signals' = signals + 1
    /\ heard' = TRUE
    /\ pending' = [pending EXCEPT ![SigHup] = TRUE]
    /\ UNCHANGED <<file, edits, watching, fields, pools, store, pc, read, mine, overlapped>>

-----------------------------------------------------------------------------
(* Mutations.                                                               *)

\* The fields are not cleared when the pool is taken.
MutStopKeepsFields(t) ==
    /\ Running /\ pc[t] = "stop"
    /\ mine' = [mine EXCEPT ![t] = current]
    /\ UNCHANGED current
    /\ Goto(t, IF current # 0 THEN "cancel" ELSE IF t = Main THEN "flush" ELSE "build")
    /\ UNCHANGED <<disk, triggers, cfg, pools, store, read, overlapped>>

\* A configuration with the same clusters is not swapped in.
MutSwapOnlyClusters(r) ==
    /\ Running /\ pc[r] = "swap"
    /\ cfg' = IF read[r].clusters # cfg.clusters THEN read[r] ELSE cfg
    /\ Goto(r, IF read[r].clusters # cfg.clusters THEN "stop" ELSE "idle")
    /\ read' = [read EXCEPT ![r] = Invalid]
    /\ UNCHANGED <<disk, triggers, current, pools, store, mine, overlapped>>

\* The loop of the old pool is not cancelled.
MutCancelForgets(t) ==
    /\ Running /\ pc[t] = "cancel"
    /\ Goto(t, "close")
    /\ UNCHANGED <<disk, triggers, fields, pools, store, read, mine, overlapped>>

\* A loop that ends with the process only.
MutLoopExitLate(i) ==
    /\ pc[Main] = "flush" /\ i \in PoolIds /\ pools[i].loop = "idle" /\ pools[i].cancelled
    /\ pools' = [pools EXCEPT ![i].loop = "gone"]
    /\ UNCHANGED <<disk, triggers, fields, store, pc, read, mine, overlapped>>

\* An invalid file goes on to the swap.
MutBeginReloadUnchecked(r) ==
    /\ Running /\ Serving /\ pc[r] = "idle" /\ pending[r]
    /\ pending' = [pending EXCEPT ![r] = FALSE]
    /\ read' = [read EXCEPT ![r] = file]
    /\ Goto(r, "swap")
    /\ UNCHANGED <<disk, watching, signals, fields, pools, store, mine, overlapped>>

-----------------------------------------------------------------------------
(* ReloadConfig.                                                            *)

\* A reloader receives its signal or event, opens and decodes the file, resolves
\* secrets and validates: an invalid file ends the reload.
BeginReload(r) ==
    /\ Running /\ Serving /\ pc[r] = "idle" /\ pending[r]
    /\ pending' = [pending EXCEPT ![r] = FALSE]
    /\ read' = [read EXCEPT ![r] = file]
    /\ Goto(r, IF file = Invalid THEN "idle" ELSE "swap")
    /\ overlapped' = (overlapped \/ pc[Main] # "serve"
                        \/ \E q \in Reloaders \ {r} : pc[q] # "idle")
    /\ UNCHANGED <<disk, watching, signals, fields, pools, store, mine>>

\* SafeConfig.ReloadConfig under its lock; only other clusters cause a rebuild.
Swap(r) ==
    /\ Running /\ pc[r] = "swap"
    /\ cfg' = read[r]
    /\ Goto(r, IF read[r].clusters # cfg.clusters THEN "stop" ELSE "idle")
    /\ read' = [read EXCEPT ![r] = Invalid]
    /\ UNCHANGED <<disk, triggers, current, pools, store, mine, overlapped>>

-----------------------------------------------------------------------------
(* stopCollection: in a reload and in Shutdown.                             *)

\* Under s.mu: take the pool and clear the fields.
StopCollection(t) ==
    /\ Running /\ pc[t] = "stop"
    /\ mine' = [mine EXCEPT ![t] = current]
    /\ current' = 0
    /\ Goto(t, IF current # 0 THEN "cancel" ELSE IF t = Main THEN "flush" ELSE "build")
    /\ UNCHANGED <<disk, triggers, cfg, pools, store, read, overlapped>>

CancelLoop(t) ==
    /\ Running /\ pc[t] = "cancel"
    /\ pools' = [pools EXCEPT ![mine[t]].cancelled = TRUE]
    /\ Goto(t, "close")
    /\ UNCHANGED <<disk, triggers, fields, store, read, mine, overlapped>>

\* The clients are closed; Close waits for their requests, at most 30 s, and not
\* for the loop.
CloseClients(t) ==
    /\ Running /\ pc[t] = "close"
    /\ pools' = [pools EXCEPT ![mine[t]].closed = TRUE]
    /\ mine' = [mine EXCEPT ![t] = 0]
    /\ Goto(t, IF t = Main THEN "flush" ELSE "build")
    /\ UNCHANGED <<disk, triggers, fields, store, read, overlapped>>

-----------------------------------------------------------------------------
(* startCollection: in Start and in a reload.                               *)

\* buildClients and NewCollector from the configuration of this moment.
BuildPool(t) ==
    /\ Running /\ pc[t] = "build" /\ Len(pools) < MaxPools
    /\ pools' = Append(pools, [clusters |-> cfg.clusters, loop |-> "first",
                               cancelled |-> FALSE, closed |-> FALSE])
    /\ mine' = [mine EXCEPT ![t] = Len(pools) + 1]
    /\ Goto(t, "first")
    /\ UNCHANGED <<disk, triggers, fields, store, read, overlapped>>

\* CollectOnce publishes the first snapshot; `go collector.Run`.
FirstCycle(t) ==
    /\ Running /\ pc[t] = "first"
    /\ pools' = [pools EXCEPT ![mine[t]].loop = "idle"]
    /\ store' = mine[t]
    /\ Goto(t, "assign")
    /\ UNCHANGED <<disk, triggers, fields, read, mine, overlapped>>

\* Under s.mu: the fields now belong to this pool, whatever was there.
AssignFields(t) ==
    /\ Running /\ pc[t] = "assign"
    /\ current' = mine[t]
    /\ mine' = [mine EXCEPT ![t] = 0]
    /\ Goto(t, IF t = Main THEN "setup" ELSE "idle")
    /\ UNCHANGED <<disk, triggers, cfg, pools, store, read, overlapped>>

-----------------------------------------------------------------------------
(* main.                                                                    *)

\* main installs the SIGHUP handler and tries to set up the watcher.
SetupReloads ==
    /\ Running /\ pc[Main] = "setup"
    /\ watching' \in BOOLEAN
    /\ Goto(Main, "serve")
    /\ UNCHANGED <<disk, signals, pending, fields, pools, store, read, mine, overlapped>>

\* A termination signal or an HTTP error: Shutdown closes the watcher.  The
\* goroutines of the reloaders are not waited for.
BeginShutdown ==
    /\ Running /\ pc[Main] = "serve"
    /\ watching' = FALSE
    /\ pending' = [pending EXCEPT ![Watcher] = FALSE]
    /\ Goto(Main, "stop")
    /\ overlapped' = (overlapped \/ \E r \in Reloaders : pc[r] # "idle")
    /\ UNCHANGED <<disk, signals, fields, pools, store, read, mine>>

\* The rest of Shutdown; the process ends, and every goroutine with it.
Exit ==
    /\ pc[Main] = "flush"
    /\ pc' = [t \in Threads |-> IF t = Main THEN "exited" ELSE "idle"]
    /\ pools' = <<>> /\ current' = 0 /\ store' = 0
    /\ read' = [r \in Reloaders |-> Invalid]
    /\ mine' = [t \in Threads |-> 0]
    /\ pending' = [r \in Reloaders |-> FALSE]
    /\ UNCHANGED <<disk, watching, signals, cfg, overlapped>>

-----------------------------------------------------------------------------
(* Collector.Run of pool i (module Collector has its details).              *)

LoopTick(i) ==
    /\ Running /\ i \in PoolIds /\ pools[i].loop = "idle"
    /\ pools' = [pools EXCEPT ![i].loop = "polling"]
    /\ UNCHANGED <<disk, triggers, fields, store, pc, read, mine, overlapped>>

LoopPublish(i) ==
    /\ Running /\ i \in PoolIds /\ pools[i].loop = "polling"
    /\ pools' = [pools EXCEPT ![i].loop = "idle"]
    /\ store' = i
    /\ UNCHANGED <<disk, triggers, fields, pc, read, mine, overlapped>>

LoopExit(i) ==
    /\ Running /\ i \in PoolIds /\ pools[i].loop = "idle" /\ pools[i].cancelled
    /\ pools' = [pools EXCEPT ![i].loop = "gone"]
    /\ UNCHANGED <<disk, triggers, fields, store, pc, read, mine, overlapped>>

-----------------------------------------------------------------------------
CollectionStep(t) ==
    \/ StopCollection(t) \/ CancelLoop(t) \/ CloseClients(t)
    \/ BuildPool(t) \/ FirstCycle(t) \/ AssignFields(t)

Next ==
    \/ \E c \in Configs \cup {Invalid} : WriteFile(c) \/ RotateSecret(c)
    \/ Signal
    \/ \E r \in Reloaders : BeginReload(r) \/ Swap(r)
    \/ \E t \in Threads : CollectionStep(t)
    \/ SetupReloads \/ BeginShutdown \/ Exit
    \/ \E i \in 1 .. MaxPools : LoopTick(i) \/ LoopPublish(i) \/ LoopExit(i)

Spec == Init /\ [][Next]_vars

\* Ready goroutines run, cycles end (module Collector), tickers fire.  Strong
\* fairness for LoopExit: select picks at random between ticker and context.
\* Nothing forces an edit, a signal or a shutdown.
Fairness ==
    /\ \A r \in Reloaders : WF_vars(BeginReload(r) \/ Swap(r) \/ CollectionStep(r))
    /\ WF_vars(CollectionStep(Main) \/ SetupReloads \/ Exit)
    /\ \A i \in 1 .. MaxPools : WF_vars(LoopTick(i) \/ LoopPublish(i)) /\ SF_vars(LoopExit(i))

FairSpec == Spec /\ Fairness

-----------------------------------------------------------------------------
(* Properties.                                                              *)

\* A pool belongs to the fields or to one thread, never to two: no pool is taken
\* down twice, none is closed while its loop is not cancelled, and none that the
\* fields name is cancelled or closed.  This holds whatever overlaps (s.mu and
\* the clearing of the fields in stopCollection).
PoolHasOneOwner ==
    /\ \A t, u \in Threads : t # u /\ mine[t] = mine[u] => mine[t] = 0
    /\ \A t \in Threads : mine[t] = current => current = 0
    /\ \A i \in PoolIds : pools[i].closed => pools[i].cancelled
    /\ \A i \in PoolIds : pools[i].cancelled => i # current

\* "stopCollection cancels the loop": a loop that is not cancelled can be reached,
\* through the fields or by the thread that is about to assign or cancel it.
LoopsStoppable ==
    \A i \in PoolIds : Live(i) /\ ~pools[i].cancelled =>
        i = current \/ \E t \in Threads : mine[t] = i

\* As long as reloads and shutdown come one after the other, none leaks a loop.
SerialReloadsLeakNothing == ~overlapped => LoopsStoppable

Quiescent ==
    /\ pc[Main] = "serve"
    /\ \A r \in Reloaders : pc[r] = "idle" /\ ~pending[r]

\* "reloaded ... when the config file changes on disk", "an invalid file is
\* rejected and the running configuration is left untouched", "when the set of
\* clusters changes, the client pool is rebuilt": after serial reloads the
\* configuration is what stands on disk, if that is valid and a file event or a
\* SIGHUP came after its last edit, and the running pool is the one for the
\* configuration's clusters.  So a rotated password is in use after a SIGHUP.
ConfigTakesEffect ==
    Quiescent /\ ~overlapped =>
        /\ heard /\ file # Invalid => cfg = file
        /\ current # 0 /\ pools[current].clusters = cfg.clusters

\* A cancelled loop may still publish after the new pool's first snapshot, but not
\* for ever: what is served ends up being of the configured clusters, and stays so.
StoreFollowsConfig ==
    <>[](\/ overlapped \/ ~Running \/ pc[Main] \in TakingDown \cup {"flush"}
         \/ (store # 0 /\ pools[store].clusters = cfg.clusters))

===============================================================================
