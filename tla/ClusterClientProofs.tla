-------------------------- MODULE ClusterClientProofs --------------------------
(***************************************************************************)
(* Proofs about the request gate, for any finite set of callers and any    *)
(* set of closers.  The inductive invariant ties the counter to the        *)
(* requests in flight and says who owes the waiting Close its signal.      *)
(***************************************************************************)
EXTENDS ClusterClient, FiniteSetTheorems, TLAPS

AtLock == {r \in Callers : pc[r] = "signal"}

\* The counter counts: activeReqs is the number of requests in flight.
CounterExact == activeReqs = Cardinality(Active)

\* The channel is open exactly while the field closeChan holds it, and only
\* once the gate is shut; a channel that exists is never closed twice.
ChannelShape ==
    /\ closeChan <=> chan = "open"
    /\ chan # "panic"
    /\ ~closed => chan = "none"

\* Someone owes the signal: a request in flight or a caller at the lock.
SignalOwed == chan = "open" => Active \cup AtLock # {}

\* What each closer may conclude from where it is.
CloserShape ==
    /\ \A k \in Closers : closer[k] \in Returned \cup {"waiting"} => closed
    /\ \A k \in Closers : closer[k] = "quiet" => Active = {} /\ chan = "none"
    /\ \A k \in Closers : closer[k] = "drained" => chan = "closed"

\* With nobody at the lock when the gate was shut, a caller gets there only by
\* emptying the gate, and the channel is closed only after that.
SignalMeansEmpty ==
    closed /\ late = {} =>
        /\ AtLock # {} => Active = {}
        /\ chan = "closed" => Active = {}

GateInv ==
    /\ TypeOK /\ CounterExact /\ ChannelShape /\ SignalOwed
    /\ CloserShape /\ OneCloseWins /\ SignalMeansEmpty

-----------------------------------------------------------------------------
(* The set of requests in flight and the counter.                           *)

LEMMA ActiveFinite == IsFiniteSet(Active) /\ Cardinality(Active) \in Nat
<1>1. IsFiniteSet(Active)
    BY CallersAssumption, FS_Subset DEF Active
<1> QED BY <1>1, FS_CardinalityType

\* A request more in flight raises the cardinality by one.
LEMMA ActiveGrows ==
    ASSUME NEW r \in Callers, r \notin Active, Active' = Active \cup {r}
    PROVE  Cardinality(Active') = Cardinality(Active) + 1
BY ActiveFinite, FS_AddElement

\* A request less lowers it by one; it was at least one, and what is left is
\* empty exactly if it was one.
LEMMA ActiveShrinks ==
    ASSUME NEW r \in Callers, r \in Active, Active' = Active \ {r}
    PROVE  /\ Cardinality(Active') = Cardinality(Active) - 1
           /\ Cardinality(Active) >= 1
           /\ Active' = {} <=> Cardinality(Active) = 1
<1>1. /\ Cardinality(Active') = Cardinality(Active) - 1
      /\ IsFiniteSet(Active')
    BY ActiveFinite, FS_RemoveElement
<1>2. Cardinality(Active') \in Nat
    BY <1>1, FS_CardinalityType
<1>3. Active' = {} <=> Cardinality(Active') = 0
    BY <1>1, FS_EmptySet
<1> QED BY <1>1, <1>2, <1>3, ActiveFinite

\* The counter is positive exactly if some request is in flight.
LEMMA CounterPositive ==
    ASSUME CounterExact
    PROVE  activeReqs > 0 <=> Active # {}
BY ActiveFinite, FS_EmptySet DEF CounterExact

-----------------------------------------------------------------------------
LEMMA InitGate == Init => GateInv
<1> SUFFICES ASSUME Init PROVE GateInv
    OBVIOUS
<1>1. TypeOK
    BY DEF Init, TypeOK, CallerPC, CloserPC, InFlight, Returned
<1>2. Active = {} /\ AtLock = {}
    BY DEF Init, Active, AtLock, InFlight
<1>3. CounterExact
    BY <1>2, FS_EmptySet DEF Init, CounterExact
<1> QED
    BY <1>1, <1>2, <1>3
    DEF Init, GateInv, ChannelShape, SignalOwed, CloserShape, OneCloseWins, Returned,
        SignalMeansEmpty

\* do: admission.
LEMMA AdmitGate ==
    ASSUME GateInv, NEW r \in Callers, Admit(r)
    PROVE  GateInv'
<1> USE DEF GateInv
<1>1. TypeOK'
    BY DEF Admit, TypeOK, CallerPC, CloserPC, InFlight
<1>2. r \notin Active /\ Active' = Active \cup {r} /\ AtLock' = AtLock
    BY DEF Admit, Active, AtLock, InFlight, TypeOK
<1>3. CounterExact'
    BY <1>2, ActiveGrows DEF Admit, CounterExact
<1> QED
    BY <1>1, <1>2, <1>3
    DEF Admit, ChannelShape, SignalOwed, CloserShape, OneCloseWins, Returned, SignalMeansEmpty

\* do: the two steps of a request that leave it in flight.
LEMMA ProceedGate ==
    ASSUME GateInv, NEW r \in Callers, HaveToken(r) \/ Answer(r)
    PROVE  GateInv'
<1> USE DEF GateInv
<1>1. TypeOK'
    BY DEF HaveToken, Answer, TypeOK, CallerPC, CloserPC, InFlight
<1>2. Active' = Active /\ AtLock' = AtLock
    BY DEF HaveToken, Answer, Active, AtLock, InFlight, TypeOK
<1>3. UNCHANGED <<activeReqs, closed, closeChan, chan, closer, late>>
    BY DEF HaveToken, Answer
<1> QED
    BY <1>1, <1>2, <1>3
    DEF CounterExact, ChannelShape, SignalOwed, CloserShape, OneCloseWins, SignalMeansEmpty

\* requestDone: the decrement outside the lock.
LEMMA DecrementGate ==
    ASSUME GateInv, NEW r \in Callers, Decrement(r)
    PROVE  GateInv'
<1> USE DEF GateInv
<1>1. r \in Active /\ Active' = Active \ {r}
    BY DEF Decrement, Active, InFlight, TypeOK
<1>2. /\ Cardinality(Active') = Cardinality(Active) - 1
      /\ Cardinality(Active) >= 1
      /\ Active' = {} <=> activeReqs' = 0
  <2>1. /\ Cardinality(Active') = Cardinality(Active) - 1
        /\ Cardinality(Active) >= 1
        /\ (Active' = {}) <=> (Cardinality(Active) = 1)
    BY <1>1, ActiveShrinks
  <2>2. activeReqs' = Cardinality(Active) - 1
    BY DEF Decrement, CounterExact
  <2> QED BY <2>1, <2>2, ActiveFinite
<1>3. TypeOK' /\ CounterExact'
    BY <1>2, ActiveFinite DEF Decrement, TypeOK, CallerPC, CloserPC, InFlight, CounterExact
<1>4. AtLock' = IF Active' = {} THEN AtLock \cup {r} ELSE AtLock
    BY <1>2 DEF Decrement, AtLock, TypeOK
<1>5. UNCHANGED <<closed, closeChan, chan, closer, late>>
    BY DEF Decrement
<1>6. SignalOwed'
    BY <1>1, <1>4, <1>5 DEF SignalOwed
<1>7. SignalMeansEmpty'
    BY <1>1, <1>4, <1>5 DEF SignalMeansEmpty
<1>8. CloserShape' /\ ChannelShape' /\ OneCloseWins'
    BY <1>1, <1>5 DEF CloserShape, ChannelShape, OneCloseWins
<1> QED BY <1>3, <1>6, <1>7, <1>8

\* requestDone: under the lock.
LEMMA SignalGate ==
    ASSUME GateInv, NEW r \in Callers, Signal(r)
    PROVE  GateInv'
<1> USE DEF GateInv
<1>1. TypeOK'
    BY DEF Signal, TypeOK, CallerPC, CloserPC, InFlight
<1>2. r \in AtLock /\ Active' = Active /\ AtLock' = AtLock \ {r}
    BY DEF Signal, Active, AtLock, InFlight, TypeOK
<1>3. CounterExact'
    BY <1>2 DEF Signal, CounterExact
<1>4. ChannelShape' /\ chan' # "open" /\ (chan' = "closed" => chan = "closed" \/ chan = "open")
    BY DEF Signal, ChannelShape, TypeOK
<1>5. SignalOwed'
    BY <1>4 DEF SignalOwed
<1>6. CloserShape' /\ OneCloseWins'
    BY <1>2 DEF Signal, CloserShape, ChannelShape, OneCloseWins
<1>7. SignalMeansEmpty'
    BY <1>2, <1>4 DEF Signal, SignalMeansEmpty
<1> QED BY <1>1, <1>3, <1>4, <1>5, <1>6, <1>7

\* beginClose.
LEMMA BeginCloseGate ==
    ASSUME GateInv, NEW k \in Closers, BeginClose(k)
    PROVE  GateInv'
<1> USE DEF GateInv
<1>1. TypeOK'
    BY DEF BeginClose, TypeOK, CloserPC, Returned
<1>2. Active' = Active /\ AtLock' = AtLock
    BY DEF BeginClose, Active, AtLock
<1>3. CounterExact'
    BY <1>2 DEF BeginClose, CounterExact
<1>4. activeReqs > 0 <=> Active # {}
    BY CounterPositive
<1>5. CASE closed
    BY <1>1, <1>2, <1>3, <1>5
    DEF BeginClose, ChannelShape, SignalOwed, CloserShape, OneCloseWins, SignalMeansEmpty,
        TypeOK, Returned
<1>6. CASE ~closed
  <2>1. \A j \in Closers : closer[j] \notin Returned \cup {"waiting"}
    BY <1>6 DEF CloserShape
  <2>2. closed' /\ late' = AtLock /\ chan = "none" /\ ~closeChan
    BY <1>6 DEF BeginClose, AtLock, ChannelShape, TypeOK
  <2>3. \A j \in Closers : j # k => closer'[j] \notin Returned \cup {"waiting"}
    BY <2>1 DEF BeginClose, TypeOK
  <2>4. OneCloseWins'
    BY <2>3 DEF OneCloseWins
  <2>5. CASE activeReqs > 0
    <3>1. closer'[k] = "waiting" /\ chan' = "open" /\ closeChan'
      BY <1>6, <2>5 DEF BeginClose, TypeOK
    <3>2. CloserShape'
      BY <2>2, <2>3, <3>1 DEF CloserShape, Returned
    <3>3. ChannelShape' /\ SignalOwed' /\ SignalMeansEmpty'
      BY <1>2, <1>4, <2>2, <2>5, <3>1 DEF ChannelShape, SignalOwed, SignalMeansEmpty
    <3> QED BY <1>1, <1>3, <2>4, <3>2, <3>3
  <2>6. CASE ~(activeReqs > 0)
    <3>1. closer'[k] = "quiet" /\ chan' = "none" /\ ~closeChan'
      BY <1>6, <2>2, <2>6 DEF BeginClose, TypeOK
    <3>2. CloserShape'
      BY <1>2, <1>4, <2>2, <2>3, <2>6, <3>1 DEF CloserShape, Returned
    <3>3. ChannelShape' /\ SignalOwed' /\ SignalMeansEmpty'
      BY <1>2, <1>4, <2>2, <2>6, <3>1 DEF ChannelShape, SignalOwed, SignalMeansEmpty
    <3> QED BY <1>1, <1>3, <2>4, <3>2, <3>3
  <2> QED BY <2>5, <2>6
<1> QED BY <1>5, <1>6

\* Close's select.
LEMMA SelectGate ==
    ASSUME GateInv, NEW k \in Closers, WakeClose(k) \/ TimeoutClose(k)
    PROVE  GateInv'
<1> USE DEF GateInv
<1>1. TypeOK'
    BY DEF WakeClose, TimeoutClose, TypeOK, CloserPC, Returned
<1>2. Active' = Active /\ AtLock' = AtLock
    BY DEF WakeClose, TimeoutClose, Active, AtLock
<1>3. UNCHANGED <<activeReqs, closed, closeChan, chan, late>>
    BY DEF WakeClose, TimeoutClose
<1>4. CounterExact' /\ ChannelShape' /\ SignalOwed' /\ SignalMeansEmpty'
    BY <1>2, <1>3 DEF CounterExact, ChannelShape, SignalOwed, SignalMeansEmpty
<1>5. CloserShape'
    BY <1>2, <1>3 DEF WakeClose, TimeoutClose, CloserShape, Returned, TypeOK
<1>6. OneCloseWins'
    BY DEF WakeClose, TimeoutClose, OneCloseWins, Returned, TypeOK
<1> QED BY <1>1, <1>4, <1>5, <1>6

LEMMA StutterGate == GateInv /\ UNCHANGED vars => GateInv'
BY DEF vars, GateInv, TypeOK, CounterExact, ChannelShape, SignalOwed, CloserShape,
       OneCloseWins, SignalMeansEmpty, Active, AtLock

LEMMA NextGate == GateInv /\ [Next]_vars => GateInv'
<1> SUFFICES ASSUME GateInv, [Next]_vars PROVE GateInv'
    OBVIOUS
<1>1. ASSUME NEW r \in Callers, DoStep(r) PROVE GateInv'
    BY <1>1, AdmitGate, ProceedGate, DecrementGate, SignalGate DEF DoStep
<1>2. ASSUME NEW k \in Closers, CloseStep(k) PROVE GateInv'
    BY <1>2, BeginCloseGate, SelectGate DEF CloseStep
<1> QED BY <1>1, <1>2, StutterGate DEF Next

-----------------------------------------------------------------------------
\* The inductive invariant holds in every reachable state.
THEOREM GateInvariant == Spec => []GateInv
<1> QED BY InitGate, NextGate, PTL DEF Spec

\* The variables keep their types; in particular the counter, decremented
\* outside the lock, never goes below zero.
THEOREM TypeCorrect == Spec => []TypeOK
<1>1. GateInv => TypeOK BY DEF GateInv
<1> QED BY <1>1, GateInvariant, PTL

\* Close is never left waiting on a channel nobody will close, however the
\* unlocked decrements of requestDone interleave with beginClose.
THEOREM NoWakeupIsLost == Spec => []NoLostWakeup
<1>1. GateInv => NoLostWakeup
    BY DEF GateInv, SignalOwed, NoLostWakeup, Active, AtLock
<1> QED BY <1>1, GateInvariant, PTL

\* No interleaving of requestDone closes the channel a second time.
THEOREM ChannelClosedOnce == Spec => []NoDoubleCloseOfChannel
<1>1. GateInv => NoDoubleCloseOfChannel
    BY DEF GateInv, ChannelShape, NoDoubleCloseOfChannel
<1> QED BY <1>1, GateInvariant, PTL

\* Of any number of concurrent Close calls at most one owns the shutdown.
THEOREM OneCloseOnly == Spec => []OneCloseWins
<1>1. GateInv => OneCloseWins BY DEF GateInv
<1> QED BY <1>1, GateInvariant, PTL

\* The drain guarantee the code does give: a Close that did not time out leaves
\* nothing in flight, unless a caller stood between its decrement to zero and
\* the lock when the gate was shut.
THEOREM DrainGuarantee == Spec => []DrainsWithoutLateSignal
<1>1. GateInv => DrainsWithoutLateSignal
    BY DEF GateInv, CloserShape, SignalMeansEmpty, DrainsWithoutLateSignal, Returned
<1> QED BY <1>1, GateInvariant, PTL

\* Once shut, the gate admits nobody: requests in flight only get fewer.
THEOREM GateNeverReopens == Spec => GateStaysShut
<1>1. TypeOK /\ [Next]_vars => [closed => Active' \subseteq Active]_vars
    BY DEF Next, DoStep, CloseStep, Admit, HaveToken, Answer, Decrement, Signal,
           BeginClose, WakeClose, TimeoutClose, Active, InFlight, TypeOK, vars
<1> QED BY <1>1, TypeCorrect, PTL DEF Spec, GateStaysShut
=============================================================================
