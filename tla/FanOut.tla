-------------------------------- MODULE FanOut --------------------------------
(***************************************************************************)
(* GetStatistics and GetStatisticsV5: one goroutine per object type, at    *)
(* most Limit of them at once, each posting its query through the gate of  *)
(* the client (ClusterClient) and merging its answer into the aggregate.   *)
(* Both functions have this shape; only GetStatisticsV5 skips types.       *)
(*                                                                         *)
(* The goroutine of type t is caller t of the gate.  Other callers may use *)
(* the client beside the call, and closers may close it in the middle.     *)
(***************************************************************************)
EXTENDS ClusterClient

CONSTANTS
    Types,      \* object types the path queries
    Skips,      \* the possible skipTypes; only {} for GetStatistics
    Limit       \* gen1QueryConcurrency, v5QueryConcurrency

ASSUME FanOutAssumption ==
    Types \subseteq Callers /\ Skips \subseteq SUBSET Types /\ Limit \in Nat \ {0}

VARIABLES
    phase,      \* "none", "pending" (between entry and return), "ok", "failed"
    todo,       \* types the loop has yet to start a goroutine for
    asked,      \* the attempted types
    worker,     \* per type: where its goroutine is
    usable,     \* types whose query was given an answer that can be parsed
    agg,        \* types in the aggregate
    succeeded,  \* the counter of merged answers
    stats       \* the types in the returned statistics

call == <<phase, todo, asked, stats>>
fanVars == <<call, worker, usable, agg, succeeded>>
allVars == <<vars, fanVars>>

\* "do" from the call of post to its return, "merge" and "count" after a usable
\* answer.  Without a goroutine or after its end: "none".
WorkerPC == {"none", "post", "do", "merge", "count"}
Busy == {t \in Types : worker[t] # "none"}

FanTypeOK ==
    /\ phase \in {"none", "pending", "ok", "failed"}
    /\ todo \subseteq asked /\ asked \subseteq Types
    /\ worker \in [Types -> WorkerPC]
    /\ usable \subseteq asked
    /\ agg \subseteq asked /\ stats \subseteq Types
    /\ succeeded \in 0 .. Cardinality(asked)
    /\ Cardinality(Busy) <= Limit

FanInit ==
    /\ Init
    /\ phase = "none" /\ todo = {} /\ asked = {} /\ stats = {}
    /\ worker = [t \in Types |-> "none"]
    /\ usable = {} /\ agg = {} /\ succeeded = 0

-----------------------------------------------------------------------------
(* Mutations.                                                               *)

\* No lock around the merge: an answer that arrives beside another one's merge
\* overwrites it.
MutMergeUnlocked(t) ==
    /\ worker[t] = "merge"
    /\ \E lost \in {{}, {u \in Types \ {t} : worker[u] \in {"merge", "count"}}} :
        agg' = (agg \ lost) \cup {t}
    /\ worker' = [worker EXCEPT ![t] = "count"]
    /\ UNCHANGED <<vars, call, usable, succeeded>>

\* Return at the first answer instead of waiting for all goroutines.
MutReturnEarly ==
    /\ phase = "pending" /\ todo = {} /\ (Busy = {} \/ succeeded > 0)
    /\ phase' = IF asked # {} /\ succeeded = 0 THEN "failed" ELSE "ok"
    /\ stats' = IF phase' = "ok" THEN agg ELSE {}
    /\ asked' = {} /\ usable' = {} /\ agg' = {} /\ succeeded' = 0
    /\ UNCHANGED <<vars, todo, worker>>

\* A refused post is tried again, for ever.
MutRefusedRetries(t) ==
    /\ worker[t] = "post" /\ closed
    /\ UNCHANGED allVars

\* A slot more than the limit.
MutStartBeyond(t) ==
    /\ phase = "pending" /\ t \in todo /\ Cardinality(Busy) <= Limit
    /\ todo' = todo \ {t}
    /\ worker' = [worker EXCEPT ![t] = "post"]
    /\ UNCHANGED <<vars, phase, asked, stats, usable, agg, succeeded>>

-----------------------------------------------------------------------------
(* The call.                                                                *)

\* The collector calls; every type that is not skipped will be attempted.
Begin ==
    /\ phase # "pending"
    /\ phase' = "pending"
    /\ \E skip \in Skips : asked' = Types \ skip
    /\ todo' = asked'
    /\ stats' = {}
    /\ UNCHANGED <<vars, worker, usable, agg, succeeded>>

\* g.Go starts the next goroutine, in map order, as soon as a slot is free.
Start(t) ==
    /\ phase = "pending" /\ t \in todo /\ Cardinality(Busy) < Limit
    /\ todo' = todo \ {t}
    /\ worker' = [worker EXCEPT ![t] = "post"]
    /\ UNCHANGED <<vars, phase, asked, stats, usable, agg, succeeded>>

\* g.Wait returns when every goroutine has: partial failures are dropped, but if
\* types were attempted and none succeeded the call fails.
Return ==
    /\ phase = "pending" /\ todo = {} /\ Busy = {}
    /\ phase' = IF asked # {} /\ succeeded = 0 THEN "failed" ELSE "ok"
    /\ stats' = IF phase' = "ok" THEN agg ELSE {}
    /\ asked' = {} /\ usable' = {} /\ agg' = {} /\ succeeded' = 0
    /\ UNCHANGED <<vars, todo, worker>>

-----------------------------------------------------------------------------
(* The goroutine of type t.                                                 *)

Move(t, label) == worker' = [worker EXCEPT ![t] = label]

\* `do` admits the request, or refuses it because the client is closed: the
\* goroutine logs the error and ends.
Enter(t) ==
    /\ worker[t] = "post" /\ Admit(t)
    /\ Move(t, "do")
    /\ UNCHANGED <<call, usable, agg, succeeded>>

Refused(t) ==
    /\ worker[t] = "post" /\ closed
    /\ Move(t, "none")
    /\ UNCHANGED <<vars, call, usable, agg, succeeded>>

\* The steps of `do`.  A request that is sent ends with an answer that can be
\* parsed, or with an error or one that cannot.
InDo(t) ==
    /\ worker[t] = "do"
    /\ \/ Answer(t) /\ usable' \in {usable, usable \cup {t}}
       \/ (HaveToken(t) \/ Decrement(t) \/ Signal(t)) /\ UNCHANGED usable
    /\ UNCHANGED <<call, worker, agg, succeeded>>

\* `do` has returned, its deferred requestDone included.
Leave(t) ==
    /\ worker[t] = "do" /\ pc[t] = "idle"
    /\ Move(t, IF t \in usable THEN "merge" ELSE "none")
    /\ UNCHANGED <<vars, call, usable, agg, succeeded>>

\* Under mu.
Merge(t) ==
    /\ worker[t] = "merge"
    /\ agg' = agg \cup {t}
    /\ Move(t, "count")
    /\ UNCHANGED <<vars, call, usable, succeeded>>

\* atomic.AddInt32, after the unlock.
Count(t) ==
    /\ worker[t] = "count"
    /\ succeeded' = succeeded + 1
    /\ Move(t, "none")
    /\ UNCHANGED <<vars, call, usable, agg>>

WorkerStep(t) == Enter(t) \/ Refused(t) \/ InDo(t) \/ Leave(t) \/ Merge(t) \/ Count(t)

-----------------------------------------------------------------------------
FanNext ==
    \/ Begin \/ Return
    \/ \E t \in Types : Start(t) \/ WorkerStep(t)
    \/ (\E r \in Callers \ Types : DoStep(r)) /\ UNCHANGED fanVars
    \/ (\E k \in Closers : CloseStep(k)) /\ UNCHANGED fanVars

FanSpec == FanInit /\ [][FanNext]_allVars

\* As in ClusterClient: requests end with the context of their cycle, and ready
\* goroutines run.  `do` moves even if the client is closed meanwhile, so a
\* worker always has a next step.
FanFairness ==
    /\ WF_allVars(Return)
    /\ \A t \in Types : WF_allVars(Start(t)) /\ WF_allVars(WorkerStep(t))
    /\ \A r \in Callers \ Types :
        WF_allVars((HaveToken(r) \/ Answer(r) \/ Decrement(r) \/ Signal(r)) /\ UNCHANGED fanVars)
    /\ \A k \in Closers : WF_allVars(WakeClose(k) /\ UNCHANGED fanVars)

FanFairSpec == FanSpec /\ FanFairness

-----------------------------------------------------------------------------
(* Properties.                                                              *)

\* The fan-out is one StatisticsCall: it returns exactly the types of which the
\* gateway gave a usable answer, losing none however the merges interleave, and
\* fails exactly if it asked for some and got none (GetStatistics,
\* GetStatisticsV5), also when the client is closed in the middle.
Promise == INSTANCE StatisticsCall WITH
    answered <- usable

ImplementsStatisticsCall == Promise!Spec

\* No goroutine of a call outlives it: what the call returned is never written
\* again, and none of its requests is left in the gate (errgroup's Wait, and
\* requestDone deferred inside `do`).
NoStragglers ==
    phase # "pending" => /\ Busy = {} /\ todo = {}
                         /\ \A t \in Types : pc[t] = "idle"

\* Every call returns, also when a Close shuts the gate on the types that wait
\* for a slot.
CallReturns == phase = "pending" ~> phase # "pending"

===============================================================================
