------------------------------ MODULE FanOutProofs ------------------------------
(***************************************************************************)
(* Proofs about the statistics fan-out, for any types, skips and limit,    *)
(* any other callers and any closers: what is proved of the gate holds     *)
(* under it, and it implements StatisticsCall.                             *)
(***************************************************************************)
EXTENDS FanOut, ClusterClientProofs

\* Between calls nothing is left of one; within it, a goroutine runs for a type
\* that was asked for and started.
CallShape ==
    /\ phase \in {"none", "pending", "ok", "failed"}
    /\ todo \subseteq asked /\ asked \subseteq Types /\ stats \subseteq Types
    /\ worker \in [Types -> WorkerPC]
    /\ phase # "pending" =>
        todo = {} /\ asked = {} /\ usable = {} /\ agg = {} /\ succeeded = 0 /\ Busy = {}
    /\ \A t \in Types : worker[t] # "none" => t \in asked \ todo

\* A type is in the gate only while its goroutine is in `do`.
InGate == \A t \in Types : pc[t] # "idle" => worker[t] = "do"

\* How far a goroutine got shows in what is known of its type.
Stage ==
    /\ agg \subseteq usable /\ usable \subseteq asked \ todo
    /\ \A t \in Types :
        /\ worker[t] = "post" => t \notin usable
        /\ worker[t] = "do" => t \notin agg
        /\ worker[t] = "do" /\ pc[t] \in {"token", "http"} => t \notin usable
        /\ worker[t] = "merge" => t \in usable \ agg
        /\ worker[t] = "count" => t \in agg
        /\ worker[t] = "none" /\ t \in usable => t \in agg

\* The counter counts the merged types whose goroutine has passed it.
Counted == {t \in agg : worker[t] # "count"}
CountExact == succeeded = Cardinality(Counted)
SlotsHeld == Cardinality(Busy) <= Limit

FanInv == TypeOK /\ CallShape /\ InGate /\ Stage /\ CountExact /\ SlotsHeld

-----------------------------------------------------------------------------
(* The gate under the fan-out.                                              *)

\* What a step of `do` changes of its own caller's place, and of nobody else's.
LEMMA DoMovesOne ==
    ASSUME TypeOK, NEW r \in Callers, DoStep(r)
    PROVE  \A q \in Callers \ {r} : pc'[q] = pc[q]
BY DEF DoStep, Admit, HaveToken, Answer, Decrement, Signal, TypeOK

\* A step of a closer moves no caller.
LEMMA CloseMovesNone ==
    ASSUME NEW k \in Closers, CloseStep(k)
    PROVE  pc' = pc
BY DEF CloseStep, BeginClose, WakeClose, TimeoutClose

\* Every step of the composition is one of the gate or leaves it alone.
LEMMA FanStepIsGateStep == [FanNext]_allVars => [Next]_vars
<1> SUFFICES ASSUME [FanNext]_allVars PROVE [Next]_vars
    OBVIOUS
<1>1. CASE Begin
    BY <1>1 DEF Begin
<1>2. CASE Return
    BY <1>2 DEF Return
<1>3. ASSUME NEW t \in Types, Start(t) PROVE [Next]_vars
    BY <1>3 DEF Start
<1>4. ASSUME NEW t \in Types, WorkerStep(t) PROVE [Next]_vars
    <2>1. t \in Callers
        BY FanOutAssumption
    <2>2. CASE Enter(t) \/ InDo(t)
        BY <2>1, <2>2 DEF Enter, InDo, Next, DoStep
    <2>3. CASE Refused(t) \/ Leave(t) \/ Merge(t) \/ Count(t)
        BY <2>3 DEF Refused, Leave, Merge, Count
    <2> QED
        BY <1>4, <2>2, <2>3 DEF WorkerStep
<1>5. ASSUME NEW r \in Callers, DoStep(r) PROVE [Next]_vars
    BY <1>5 DEF Next
<1>6. ASSUME NEW k \in Closers, CloseStep(k) PROVE [Next]_vars
    BY <1>6 DEF Next
<1>7. CASE UNCHANGED allVars
    BY <1>7 DEF allVars
<1> QED
    BY <1>1, <1>2, <1>3, <1>4, <1>5, <1>6, <1>7 DEF FanNext

\* The fan-out uses the gate as module ClusterClient has it: whatever is proved of
\* the gate holds with the fan-out's goroutines as its callers.
THEOREM GateUnderFanOut == FanSpec => Spec
<1>1. FanInit => Init
    BY DEF FanInit
<1> QED
    BY <1>1, FanStepIsGateStep, PTL DEF FanSpec, Spec

-----------------------------------------------------------------------------
(* The invariant.                                                           *)

LEMMA BusyFinite ==
    ASSUME asked \subseteq Types
    PROVE  /\ IsFiniteSet(Types) /\ IsFiniteSet(asked) /\ IsFiniteSet(Busy)
           /\ Cardinality(asked) \in Nat /\ Cardinality(Busy) \in Nat
<1>1. IsFiniteSet(Types)
    BY FanOutAssumption, CallersAssumption, FS_Subset
<1>2. IsFiniteSet(asked) /\ IsFiniteSet(Busy)
    BY <1>1, FS_Subset DEF Busy
<1> QED
    BY <1>1, <1>2, FS_CardinalityType

\* Slots are only freed, except by Start.
LEMMA SlotsKept ==
    ASSUME SlotsHeld, CallShape, Busy' \subseteq Busy
    PROVE  SlotsHeld'
<1>1. /\ IsFiniteSet(Busy) /\ Cardinality(Busy) \in Nat
      /\ IsFiniteSet(Busy') /\ Cardinality(Busy') <= Cardinality(Busy)
    BY BusyFinite, FS_Subset DEF CallShape
<1>2. Cardinality(Busy') \in Nat
    BY <1>1, FS_CardinalityType
<1> QED
    BY <1>1, <1>2, FanOutAssumption DEF SlotsHeld

LEMMA InitFan == FanInit => FanInv
<1> SUFFICES ASSUME FanInit PROVE FanInv
    OBVIOUS
<1>1. TypeOK
    BY InitGate DEF FanInit, GateInv
<1>2. Busy = {} /\ Counted = {}
    BY DEF FanInit, Busy, Counted
<1>3. Cardinality(Busy) = 0 /\ Cardinality(Counted) = 0
    BY <1>2, FS_EmptySet
<1>4. \A t \in Types : pc[t] = "idle"
    BY FanOutAssumption DEF FanInit, Init
<1> QED
    BY <1>1, <1>2, <1>3, <1>4, FanOutAssumption
    DEF FanInit, FanInv, CallShape, InGate, Stage, CountExact, SlotsHeld, WorkerPC

\* The steps of the call itself.
LEMMA BeginFan ==
    ASSUME FanInv, TypeOK', Begin
    PROVE  FanInv'
<1> USE DEF FanInv
<1>1. Busy' = Busy /\ Counted' = Counted
    BY DEF Begin, Busy, Counted
<1>2. CallShape' /\ InGate' /\ Stage'
    BY <1>1 DEF Begin, CallShape, InGate, Stage, Busy, vars
<1>3. CountExact' /\ SlotsHeld'
    BY <1>1 DEF Begin, CountExact, SlotsHeld
<1> QED
    BY <1>2, <1>3

LEMMA StartFan ==
    ASSUME FanInv, TypeOK', NEW t \in Types, Start(t)
    PROVE  FanInv'
<1> USE DEF FanInv
<1>1. t \notin Busy /\ Busy' = Busy \cup {t}
    BY DEF Start, Busy, CallShape
<1>2. Cardinality(Busy') = Cardinality(Busy) + 1
    BY <1>1, BusyFinite, FS_AddElement DEF CallShape
<1>3. SlotsHeld'
    BY <1>2, BusyFinite, FanOutAssumption DEF Start, SlotsHeld, CallShape
<1>4. Counted' = Counted
    BY DEF Start, Counted, CallShape, Stage
<1>5. CallShape'
    BY <1>1 DEF Start, CallShape, WorkerPC
<1>6. InGate' /\ Stage'
    BY DEF Start, CallShape, InGate, Stage, vars
<1> QED
    BY <1>3, <1>4, <1>5, <1>6 DEF Start, CountExact

LEMMA ReturnFan ==
    ASSUME FanInv, TypeOK', Return
    PROVE  FanInv'
<1> USE DEF FanInv
<1>1. Busy' = {} /\ Counted' = {}
    BY DEF Return, Busy, Counted
<1>2. CountExact' /\ SlotsHeld'
    BY <1>1, FS_EmptySet, FanOutAssumption DEF Return, CountExact, SlotsHeld
<1>3. CallShape'
    <2>1. phase' \in {"ok", "failed"} /\ stats' \in {agg, {}}
        BY DEF Return
    <2>2. todo' = {} /\ asked' = {} /\ usable' = {} /\ agg' = {} /\ succeeded' = 0 /\ worker' = worker
        BY DEF Return
    <2>3. agg \subseteq Types /\ \A t \in Types : worker[t] = "none"
        BY DEF Return, Busy, CallShape, Stage
    <2> QED
        BY <1>1, <2>1, <2>2, <2>3 DEF CallShape
<1>4. InGate' /\ Stage'
    BY <1>1 DEF Return, InGate, Stage, CallShape, Busy, vars
<1> QED
    BY <1>2, <1>3, <1>4

\* Other callers and closers leave the call alone.
LEMMA OthersFan ==
    ASSUME FanInv, TypeOK', UNCHANGED fanVars, \A t \in Types : pc'[t] = pc[t]
    PROVE  FanInv'
BY DEF FanInv, fanVars, call, CallShape, InGate, Stage, CountExact, SlotsHeld, Busy, Counted

-----------------------------------------------------------------------------
(* The steps of a goroutine.                                                *)

LEMMA EnterFan ==
    ASSUME FanInv, TypeOK', NEW t \in Types, Enter(t)
    PROVE  FanInv'
<1> USE DEF FanInv
<1>1. /\ worker[t] = "post" /\ worker' = [worker EXCEPT ![t] = "do"]
      /\ UNCHANGED <<call, usable, agg, succeeded>>
      /\ \A q \in Types \ {t} : pc'[q] = pc[q]
    BY FanOutAssumption DEF Enter, Admit, Move, TypeOK
<1>2. Busy' = Busy /\ Counted' = Counted
    BY <1>1 DEF Busy, Counted, CallShape
<1>3. CallShape' /\ InGate' /\ Stage'
    BY <1>1, <1>2 DEF CallShape, InGate, Stage, WorkerPC, call
<1> QED
    BY <1>1, <1>2, <1>3 DEF CountExact, SlotsHeld

LEMMA InDoFan ==
    ASSUME FanInv, TypeOK', NEW t \in Types, InDo(t)
    PROVE  FanInv'
<1> USE DEF FanInv
<1>1. /\ worker[t] = "do" /\ UNCHANGED <<call, worker, agg, succeeded>>
      /\ \/ usable' = usable /\ (pc[t] \in {"token", "http"} \/ pc'[t] \notin {"token", "http"})
         \/ pc[t] = "http" /\ pc'[t] = "finishing" /\ usable' = usable \cup {t}
      /\ \A q \in Types \ {t} : pc'[q] = pc[q]
    BY FanOutAssumption DEF InDo, HaveToken, Answer, Decrement, Signal, TypeOK
<1>2. Busy' = Busy /\ Counted' = Counted
    BY <1>1 DEF Busy, Counted
<1>3. CallShape' /\ InGate'
    BY <1>1, <1>2 DEF CallShape, InGate, Busy, call
<1>4. Stage'
    BY <1>1 DEF Stage, CallShape, call
<1> QED
    BY <1>1, <1>2, <1>3, <1>4 DEF CountExact, SlotsHeld

\* The ends of a goroutine that brings nothing, and of `do`.
LEMMA EndFan ==
    ASSUME FanInv, TypeOK', NEW t \in Types, Refused(t) \/ Leave(t)
    PROVE  FanInv'
<1> USE DEF FanInv
<1>1. /\ UNCHANGED <<call, pc, usable, agg, succeeded>>
      /\ worker[t] \in {"post", "do"} /\ pc[t] = "idle"
      /\ \/ worker' = [worker EXCEPT ![t] = "none"] /\ t \notin usable
         \/ worker' = [worker EXCEPT ![t] = "merge"] /\ t \in usable \ agg
    BY DEF Refused, Leave, Move, Stage, InGate, vars
<1>2. Busy' \subseteq Busy /\ Counted' = Counted
    BY <1>1 DEF Busy, Counted, CallShape, Stage
<1>3. SlotsHeld'
    BY <1>2, SlotsKept
<1>4. CallShape' /\ InGate'
    BY <1>1, <1>2 DEF CallShape, InGate, WorkerPC, Busy, call
<1>5. Stage'
    BY <1>1 DEF Stage, CallShape, call
<1> QED
    BY <1>1, <1>2, <1>3, <1>4, <1>5 DEF CountExact

LEMMA MergeFan ==
    ASSUME FanInv, TypeOK', NEW t \in Types, Merge(t)
    PROVE  FanInv'
<1> USE DEF FanInv
<1>1. /\ UNCHANGED <<call, pc, usable, succeeded>> /\ worker[t] = "merge"
      /\ worker' = [worker EXCEPT ![t] = "count"] /\ agg' = agg \cup {t}
    BY DEF Merge, Move, vars
<1>2. Busy' = Busy /\ Counted' = Counted
    BY <1>1 DEF Busy, Counted, CallShape, Stage
<1>3. CallShape' /\ InGate' /\ Stage'
    BY <1>1, <1>2 DEF CallShape, InGate, Stage, WorkerPC, Busy, call
<1> QED
    BY <1>1, <1>2, <1>3 DEF CountExact, SlotsHeld

LEMMA CountFan ==
    ASSUME FanInv, TypeOK', NEW t \in Types, Count(t)
    PROVE  FanInv'
<1> USE DEF FanInv
<1>1. /\ UNCHANGED <<call, pc, usable, agg>> /\ worker[t] = "count"
      /\ worker' = [worker EXCEPT ![t] = "none"] /\ succeeded' = succeeded + 1
    BY DEF Count, Move, vars
<1>2. t \notin Counted /\ Counted' = Counted \cup {t} /\ Busy' \subseteq Busy
    BY <1>1 DEF Busy, Counted, CallShape, Stage
<1>3. IsFiniteSet(Counted)
    BY BusyFinite, FS_Subset DEF CallShape, Stage, Counted
<1>4. CountExact'
    BY <1>1, <1>2, <1>3, FS_AddElement DEF CountExact
<1>5. SlotsHeld'
    BY <1>2, SlotsKept
<1>6. CallShape' /\ InGate' /\ Stage'
    BY <1>1, <1>2 DEF CallShape, InGate, Stage, WorkerPC, Busy, call
<1> QED
    BY <1>4, <1>5, <1>6

LEMMA NextFan == FanInv /\ TypeOK' /\ [FanNext]_allVars => FanInv'
<1> SUFFICES ASSUME FanInv, TypeOK', [FanNext]_allVars PROVE FanInv'
    OBVIOUS
<1>1. CASE Begin
    BY <1>1, BeginFan
<1>2. CASE Return
    BY <1>2, ReturnFan
<1>3. ASSUME NEW t \in Types, Start(t) PROVE FanInv'
    BY <1>3, StartFan
<1>4. ASSUME NEW t \in Types, WorkerStep(t) PROVE FanInv'
    BY <1>4, EnterFan, InDoFan, EndFan, MergeFan, CountFan DEF WorkerStep
<1>5. ASSUME NEW r \in Callers \ Types, DoStep(r), UNCHANGED fanVars PROVE FanInv'
    <2>1. \A t \in Types : pc'[t] = pc[t]
        BY <1>5, DoMovesOne, FanOutAssumption DEF FanInv
    <2> QED
        BY <1>5, <2>1, OthersFan
<1>6. ASSUME NEW k \in Closers, CloseStep(k), UNCHANGED fanVars PROVE FanInv'
    BY <1>6, CloseMovesNone, OthersFan
<1>7. CASE UNCHANGED allVars
    BY <1>7, OthersFan DEF allVars, vars
<1> QED
    BY <1>1, <1>2, <1>3, <1>4, <1>5, <1>6, <1>7 DEF FanNext

\* The inductive invariant of the fan-out.
THEOREM FanInvariant == FanSpec => []FanInv
<1>1. FanSpec => []TypeOK
    BY GateUnderFanOut, TypeCorrect, PTL
<1> QED
    BY <1>1, InitFan, NextFan, PTL DEF FanSpec

-----------------------------------------------------------------------------
(* The results.                                                             *)

\* Type correctness: the counter never exceeds the types asked for, and never are
\* more goroutines under way than the limit allows (gen1QueryConcurrency,
\* v5QueryConcurrency).
THEOREM FanTypeCorrect == FanSpec => []FanTypeOK
<1>1. FanInv => FanTypeOK
    <2> SUFFICES ASSUME FanInv PROVE FanTypeOK
        OBVIOUS
    <2> USE DEF FanInv
    <2>1. Counted \subseteq asked
        BY DEF Counted, Stage
    <2>2. IsFiniteSet(asked) /\ Cardinality(asked) \in Nat
        BY BusyFinite DEF CallShape
    <2>3. Cardinality(Counted) \in Nat /\ Cardinality(Counted) <= Cardinality(asked)
        BY <2>1, <2>2, FS_Subset, FS_CardinalityType
    <2> QED
        BY <2>2, <2>3 DEF FanTypeOK, CallShape, Stage, CountExact, SlotsHeld
<1> QED
    BY <1>1, FanInvariant, PTL

\* No goroutine and no request of a call outlives it (errgroup's Wait, the deferred
\* requestDone), also when a Close comes in its middle.
THEOREM NoneOutlivesTheCall == FanSpec => []NoStragglers
<1>1. FanInv => NoStragglers
    BY DEF FanInv, NoStragglers, CallShape, InGate, Busy
<1> QED
    BY <1>1, FanInvariant, PTL

\* A return of the fan-out is a return of the call: the counter is zero exactly if
\* nothing usable came, and the aggregate is what came.
LEMMA ReturnImplements ==
    ASSUME FanInv, Return
    PROVE  Promise!Return
<1> USE DEF FanInv
<1>1. agg = usable /\ Counted = agg
    BY DEF Return, Busy, Stage, CallShape, Counted
<1>2. IsFiniteSet(agg)
    BY BusyFinite, FS_Subset DEF CallShape, Stage
<1>3. succeeded = 0 <=> usable = {}
    BY <1>1, <1>2, FS_EmptySet DEF CountExact
<1> QED
    BY <1>1, <1>3 DEF Return, Promise!Return

\* An answer of the gateway is one of the call; every other step of `do` is none.
LEMMA InDoImplements ==
    ASSUME FanInv, NEW t \in Types, InDo(t)
    PROVE  Promise!Answer(t) \/ UNCHANGED Promise!vars
<1> USE DEF FanInv
<1>1. CASE UNCHANGED usable
    BY <1>1 DEF InDo, call, Promise!vars
<1>2. CASE Answer(t) /\ usable' = usable \cup {t}
    <2>1. phase = "pending" /\ t \in asked \ usable
        BY <1>2 DEF InDo, Answer, CallShape, Stage
    <2> QED
        BY <1>2, <2>1 DEF InDo, Promise!Answer, call
<1> QED
    BY <1>1, <1>2 DEF InDo

\* The fan-out implements the statistics call: with one goroutine per type, any
\* limit, merges in any order, and closes of the client at any moment, it returns
\* exactly the types of which a usable answer came, and fails exactly if it asked
\* for some and got none.
THEOREM FanOutImplements == FanSpec => ImplementsStatisticsCall
<1>1. FanInit => Promise!Init
    BY DEF FanInit, Promise!Init
<1>2. FanInv /\ [FanNext]_allVars => [Promise!Next]_(Promise!vars)
    <2> SUFFICES ASSUME FanInv, [FanNext]_allVars PROVE [Promise!Next]_(Promise!vars)
        OBVIOUS
    <2>1. CASE Begin
        BY <2>1, FanOutAssumption DEF Begin, Promise!Next, Promise!Begin
    <2>2. CASE Return
        BY <2>2, ReturnImplements DEF Promise!Next
    <2>3. ASSUME NEW t \in Types, Start(t) PROVE UNCHANGED Promise!vars
        BY <2>3 DEF Start, Promise!vars
    <2>4. ASSUME NEW t \in Types, WorkerStep(t) PROVE [Promise!Next]_(Promise!vars)
        <3>1. CASE InDo(t)
            BY <3>1, InDoImplements DEF Promise!Next
        <3>2. CASE Enter(t) \/ Refused(t) \/ Leave(t) \/ Merge(t) \/ Count(t)
            BY <3>2 DEF Enter, Refused, Leave, Merge, Count, call, Promise!vars
        <3> QED
            BY <2>4, <3>1, <3>2 DEF WorkerStep
    <2>5. CASE UNCHANGED fanVars
        BY <2>5 DEF fanVars, call, Promise!vars
    <2> QED
        BY <2>1, <2>2, <2>3, <2>4, <2>5 DEF FanNext, allVars
<1> QED
    BY <1>1, <1>2, FanInvariant, PTL DEF FanSpec, ImplementsStatisticsCall, Promise!Spec

===============================================================================
