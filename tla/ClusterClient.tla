---------------------------- MODULE ClusterClient ----------------------------
(***************************************************************************)
(* The request gate of one PowerFlex REST client (powerflex.ClusterClient):*)
(* `do` admits a request unless the client is closed and counts it,        *)
(* `requestDone` uncounts it and wakes a waiting Close, `Close` shuts the  *)
(* gate and waits for the requests in flight.                              *)
(*                                                                         *)
(* c.mu guards `closed` and `closeChan`, and every critical section is     *)
(* short and never blocks, so each is one atomic action.  The decrement in *)
(* requestDone is NOT under c.mu: it is an action of its own, and the      *)
(* goroutine may lose the processor between it and the lock.               *)
(***************************************************************************)
EXTENDS Integers, FiniteSets

CONSTANTS
    Callers,    \* goroutines that issue requests, one after another
    Closers     \* goroutines that call Close

ASSUME CallersAssumption == IsFiniteSet(Callers)

VARIABLES
    pc,          \* per caller: where it is in `do`
    activeReqs,  \* ClusterClient.activeReqs
    closed,      \* ClusterClient.closed
    closeChan,   \* ClusterClient.closeChan: is the field non-nil?
    chan,        \* the channel beginClose made, as its holder sees it
    closer,      \* per closer: where it is in Close, then how Close returned
    late         \* history: callers between decrement and lock at beginClose

vars == <<pc, activeReqs, closed, closeChan, chan, closer, late>>

\* A caller is idle, waits for a token (ensureValidToken), waits for the
\* gateway's answer, is about to run the deferred requestDone, or has brought
\* the counter to zero and is about to take the lock.
InFlight == {"token", "http", "finishing"}
CallerPC == {"idle", "signal"} \cup InFlight

\* "drained" and "timedOut" are Close's two ways out of its select, "quiet" is
\* its return without waiting, "refused" the error of a second Close.
Returned == {"drained", "timedOut", "quiet"}
CloserPC == {"idle", "waiting", "refused"} \cup Returned

TypeOK ==
    /\ pc \in [Callers -> CallerPC]
    /\ activeReqs \in Nat
    /\ closed \in BOOLEAN
    /\ closeChan \in BOOLEAN
    /\ chan \in {"none", "open", "closed", "panic"}
    /\ closer \in [Closers -> CloserPC]
    /\ late \in SUBSET Callers

Active == {r \in Callers : pc[r] \in InFlight}

Init ==
    /\ pc = [r \in Callers |-> "idle"]
    /\ activeReqs = 0
    /\ closed = FALSE
    /\ closeChan = FALSE
    /\ chan = "none"
    /\ closer = [k \in Closers |-> "idle"]
    /\ late = {}

-----------------------------------------------------------------------------
(* Mutations, one per way this code could plausibly be wrong.  No action    *)
(* below uses them: a run replaces one definition by one of them to show    *)
(* that its property notices.                                               *)

MutAdmitUngated(r) ==
    /\ pc[r] = "idle"
    /\ activeReqs' = activeReqs + 1
    /\ pc' = [pc EXCEPT ![r] = "token"]
    /\ UNCHANGED <<closed, closeChan, chan, closer, late>>

MutHaveTokenUncounts(r) ==
    /\ pc[r] = "token"
    /\ \/ /\ pc' = [pc EXCEPT ![r] = "http"]
          /\ UNCHANGED activeReqs
       \/ /\ pc' = [pc EXCEPT ![r] = "finishing"]
          /\ activeReqs' = activeReqs - 1
    /\ UNCHANGED <<closed, closeChan, chan, closer, late>>

MutDecrementSignalsEarly(r) ==
    /\ pc[r] = "finishing"
    /\ activeReqs' = activeReqs - 1
    /\ pc' = [pc EXCEPT ![r] = IF activeReqs' <= 1 THEN "signal" ELSE "idle"]
    /\ UNCHANGED <<closed, closeChan, chan, closer, late>>

MutSignalKeepsChan(r) ==
    /\ pc[r] = "signal"
    /\ pc' = [pc EXCEPT ![r] = "idle"]
    /\ chan' = IF closed /\ closeChan
               THEN IF chan = "open" THEN "closed" ELSE "panic"
               ELSE chan
    /\ UNCHANGED <<activeReqs, closed, closeChan, closer, late>>

MutSignalForgets(r) ==
    /\ pc[r] = "signal"
    /\ pc' = [pc EXCEPT ![r] = "idle"]
    /\ UNCHANGED <<activeReqs, closed, closeChan, chan, closer, late>>

MutBeginCloseTwice(k) ==
    /\ closer[k] = "idle"
    /\ closed' = TRUE
    /\ IF activeReqs > 0
       THEN /\ closeChan' = TRUE
            /\ chan' = "open"
            /\ closer' = [closer EXCEPT ![k] = "waiting"]
       ELSE /\ closer' = [closer EXCEPT ![k] = "quiet"]
            /\ UNCHANGED <<closeChan, chan>>
    /\ late' = {r \in Callers : pc[r] = "signal"}
    /\ UNCHANGED <<pc, activeReqs>>

MutBeginCloseAlwaysWaits(k) ==
    /\ closer[k] = "idle"
    /\ IF closed
       THEN /\ closer' = [closer EXCEPT ![k] = "refused"]
            /\ UNCHANGED <<closed, closeChan, chan, late>>
       ELSE /\ closed' = TRUE
            /\ closeChan' = TRUE
            /\ chan' = "open"
            /\ closer' = [closer EXCEPT ![k] = "waiting"]
            /\ late' = {r \in Callers : pc[r] = "signal"}
    /\ UNCHANGED <<pc, activeReqs>>

-----------------------------------------------------------------------------
(* `do`, as executed by the goroutine of caller r.                          *)

\* The critical section at the top of `do`: refused once closed, counted
\* otherwise.  A refused call returns at once and changes nothing.
Admit(r) ==
    /\ pc[r] = "idle"
    /\ ~closed
    /\ activeReqs' = activeReqs + 1
    /\ pc' = [pc EXCEPT ![r] = "token"]
    /\ UNCHANGED <<closed, closeChan, chan, closer, late>>

\* ensureValidToken returns a token and the request is sent, or it returns an
\* error and `do` returns it (running the deferred requestDone).
HaveToken(r) ==
    /\ pc[r] = "token"
    /\ \E next \in {"http", "finishing"} : pc' = [pc EXCEPT ![r] = next]
    /\ UNCHANGED <<activeReqs, closed, closeChan, chan, closer, late>>

\* The gateway answers, or the request fails (transport, context, status,
\* content type, JSON): whichever return `do` takes, requestDone runs next.
Answer(r) ==
    /\ pc[r] = "http"
    /\ pc' = [pc EXCEPT ![r] = "finishing"]
    /\ UNCHANGED <<activeReqs, closed, closeChan, chan, closer, late>>

\* requestDone, first half: the atomic decrement, outside c.mu.
Decrement(r) ==
    /\ pc[r] = "finishing"
    /\ activeReqs' = activeReqs - 1
    /\ pc' = [pc EXCEPT ![r] = IF activeReqs' = 0 THEN "signal" ELSE "idle"]
    /\ UNCHANGED <<closed, closeChan, chan, closer, late>>

\* requestDone, second half: under c.mu, wake the Close that waits.  Closing a
\* closed channel panics.
Signal(r) ==
    /\ pc[r] = "signal"
    /\ pc' = [pc EXCEPT ![r] = "idle"]
    /\ IF closed /\ closeChan
       THEN /\ chan' = IF chan = "open" THEN "closed" ELSE "panic"
            /\ closeChan' = FALSE
       ELSE UNCHANGED <<chan, closeChan>>
    /\ UNCHANGED <<activeReqs, closed, closer, late>>

-----------------------------------------------------------------------------
(* Close, as executed by the goroutine of closer k.                         *)

\* beginClose: a second Close is refused; the first one shuts the gate and
\* makes a channel to wait on if the counter is not zero.
BeginClose(k) ==
    /\ closer[k] = "idle"
    /\ IF closed
       THEN /\ closer' = [closer EXCEPT ![k] = "refused"]
            /\ UNCHANGED <<closed, closeChan, chan, late>>
       ELSE /\ closed' = TRUE
            /\ late' = {r \in Callers : pc[r] = "signal"}
            /\ IF activeReqs > 0
               THEN /\ closeChan' = TRUE
                    /\ chan' = "open"
                    /\ closer' = [closer EXCEPT ![k] = "waiting"]
               ELSE /\ closer' = [closer EXCEPT ![k] = "quiet"]
                    /\ UNCHANGED <<closeChan, chan>>
    /\ UNCHANGED <<pc, activeReqs>>

\* Close's select: the channel was closed.
WakeClose(k) ==
    /\ closer[k] = "waiting"
    /\ chan = "closed"
    /\ closer' = [closer EXCEPT ![k] = "drained"]
    /\ UNCHANGED <<pc, activeReqs, closed, closeChan, chan, late>>

\* Close's select: 30 seconds went by.  Go picks either branch when both are
\* ready, so the guard does not look at the channel.
TimeoutClose(k) ==
    /\ closer[k] = "waiting"
    /\ closer' = [closer EXCEPT ![k] = "timedOut"]
    /\ UNCHANGED <<pc, activeReqs, closed, closeChan, chan, late>>

-----------------------------------------------------------------------------
DoStep(r) ==
    Admit(r) \/ HaveToken(r) \/ Answer(r) \/ Decrement(r) \/ Signal(r)

CloseStep(k) == BeginClose(k) \/ WakeClose(k) \/ TimeoutClose(k)

Next == (\E r \in Callers : DoStep(r)) \/ (\E k \in Closers : CloseStep(k))

Spec == Init /\ [][Next]_vars

\* Requests end because each carries the context of its collection cycle,
\* which has a deadline (collection.timeout); the Go scheduler runs every
\* ready goroutine.  Nothing forces a new request, a Close or the 30 s timer.
Fairness ==
    /\ \A r \in Callers : /\ WF_vars(HaveToken(r)) /\ WF_vars(Answer(r))
                          /\ WF_vars(Decrement(r)) /\ WF_vars(Signal(r))
    /\ \A k \in Closers : WF_vars(WakeClose(k))

FairSpec == Spec /\ Fairness

-----------------------------------------------------------------------------
(* Properties.                                                              *)

\* A Close that waits is always going to be woken: as long as its channel is
\* open, some request is still in flight or some caller has brought the counter
\* to zero and has yet to take the lock.  (requestDone against beginClose:
\* the decrement is not under the lock that creates the channel.)
NoLostWakeup ==
    chan = "open" => \E r \in Callers : pc[r] \in InFlight \cup {"signal"}

\* requestDone never closes the channel twice, which would panic the process,
\* however many callers reach the lock after a decrement to zero.
NoDoubleCloseOfChannel == chan # "panic"

\* At most one Close call ever owns the shutdown; every other one is refused
\* (beginClose's `closed` check).
OneCloseWins ==
    \A j, k \in Closers :
        closer[j] \in Returned \cup {"waiting"} /\ closer[k] \in Returned \cup {"waiting"}
            => j = k

\* Close promises to wait for the requests in flight: unless it gave up after
\* 30 s, nothing is in flight once it has returned.  This is what the comment on
\* Close says; the code does not keep it.
CloseDrains ==
    (\E k \in Closers : closer[k] \in {"drained", "quiet"}) => Active = {}

\* What the code does keep.  A Close that did not wait leaves nothing in flight,
\* and one that waited leaves nothing in flight unless some caller stood between
\* its decrement to zero and the lock when beginClose ran.
DrainsWithoutLateSignal ==
    /\ (\E k \in Closers : closer[k] = "quiet") => Active = {}
    /\ late = {} /\ (\E k \in Closers : closer[k] = "drained") => Active = {}

\* Once the gate is shut no step brings a caller into flight: the requests in
\* flight only get fewer.
GateStaysShut == [][closed => Active' \subseteq Active]_vars

\* Close returns without the help of the 30 s timer: whatever the order of
\* decrements, locks and beginClose, the waiter is woken.
CloseReturns ==
    \A k \in Closers : (closer[k] = "waiting") ~> (closer[k] \in Returned)

=============================================================================
