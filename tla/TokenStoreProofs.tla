--------------------------- MODULE TokenStoreProofs ---------------------------
(***************************************************************************)
(* Proofs about the token lifecycle, for any workers and any lifetimes in  *)
(* which the answer's travel time and the delay before use fit in the      *)
(* margin.                                                                 *)
(***************************************************************************)
EXTENDS TokenStore, TLAPS

\* t.mu is held by exactly the worker that is exchanging, and only that worker
\* has an answer travelling, which is at most Latency old.
MutexHeld ==
    \A w \in Workers :
        /\ pc[w] \in Exchanging <=> holder = w
        /\ reply[w].kind # "none" =>
            /\ pc[w] \in Exchanging
            /\ reply[w].at <= now /\ now <= reply[w].at + Latency
            /\ reply[w].epoch # epoch => reply[w].at <= forgotAt

\* The exporter dates the stored token late, by at most Latency.
StoreDated ==
    accessToken # NoToken =>
        /\ accessToken.iat <= now
        /\ accessToken.iat + AccessTTL <= accessExpiry
        /\ accessExpiry <= accessToken.iat + Latency + AccessTTL
        /\ accessToken.epoch # epoch => accessToken.iat <= forgotAt

\* An exchange is under way only while the stored token is missing or expiring.
ExchangeJustified ==
    \A w \in Workers : pc[w] \in Exchanging => accessToken = NoToken \/ Expiring

\* A token that was handed out was then well before its expiry, and is used soon.
HandedDated ==
    \A w \in Workers : pc[w] = "hold" =>
        /\ token[w] # NoToken /\ token[w].iat <= now
        /\ gotAt[w] <= now /\ now <= gotAt[w] + UseDelay
        /\ gotAt[w] <= token[w].iat + Latency + AccessTTL - Margin
        /\ token[w].epoch # epoch => token[w].iat <= forgotAt

TokenInv ==
    TypeOK /\ forgotAt <= now /\ MutexHeld /\ StoreDated /\ ExchangeJustified /\ HandedDated
-----------------------------------------------------------------------------
LEMMA InitToken == Init => TokenInv
BY NamesAssumption, TimingAssumption
DEF Init, TokenInv, TypeOK, MutexHeld, StoreDated, ExchangeJustified, HandedDated,
    Exchanging, NoReply, Reply, ReplyKinds, Granted, FaultKinds

\* Nothing of the exporter's state depends on the gateway's answer but the answer.
LEMMA GatewayAnswerToken ==
    ASSUME TokenInv, NEW w \in Workers, GatewayAnswer(w)
    PROVE  TokenInv'
<1> USE DEF TokenInv
<1>1. PICK kind \in ReplyKinds \ {"none"} :
        reply' = [reply EXCEPT ![w] = [kind |-> kind, at |-> now, epoch |-> epoch]]
    BY DEF GatewayAnswer
<1>2. UNCHANGED <<now, epoch, forgotAt, faults, holder, accessToken, refreshToken, accessExpiry,
                  refreshExpiry, pc, token, gotAt>>
    BY DEF GatewayAnswer, clock, store, carried
<1>3. TypeOK'
    BY <1>1, <1>2 DEF TypeOK, Reply
<1>4. MutexHeld'
    BY <1>1, <1>2, TimingAssumption DEF MutexHeld, TypeOK, GatewayAnswer
<1>5. StoreDated' /\ ExchangeJustified' /\ HandedDated'
    BY <1>2 DEF StoreDated, ExchangeJustified, HandedDated, Expiring
<1> QED BY <1>2, <1>3, <1>4, <1>5

\* Forgetting tokens moves forgotAt to the present, past every issue date.
LEMMA GatewayForgetsToken ==
    ASSUME TokenInv, GatewayForgets
    PROVE  TokenInv'
<1> USE DEF TokenInv
<1>1. /\ epoch' = epoch + 1 /\ forgotAt' = now
      /\ UNCHANGED <<now, faults, holder, accessToken, refreshToken, accessExpiry,
                     refreshExpiry, pc, reply, token, gotAt>>
    BY DEF GatewayForgets, store, carried
<1>2. TypeOK' /\ forgotAt' <= now'
    BY <1>1 DEF TypeOK
<1>3. MutexHeld'
    BY <1>1 DEF MutexHeld
<1>4. StoreDated'
    BY <1>1 DEF StoreDated
<1>5. ExchangeJustified' /\ HandedDated'
    BY <1>1 DEF ExchangeJustified, Expiring, HandedDated
<1> QED BY <1>2, <1>3, <1>4, <1>5

\* Time passes within the deadlines Tick respects.
LEMMA TickToken ==
    ASSUME TokenInv, Tick
    PROVE  TokenInv'
<1> USE DEF TokenInv
<1>1. /\ now' = now + 1
      /\ \A w \in Workers : /\ reply[w].kind # "none" => now < reply[w].at + Latency
                            /\ pc[w] = "hold" => now < gotAt[w] + UseDelay
      /\ UNCHANGED <<epoch, forgotAt, faults, holder, accessToken, refreshToken, accessExpiry,
                     refreshExpiry, pc, reply, token, gotAt>>
    BY DEF Tick, store, carried
<1>2. TypeOK' /\ forgotAt' <= now'
    BY <1>1 DEF TypeOK
<1>3. \A w \in Workers : reply[w].at \in Nat /\ gotAt[w] \in Nat
    BY DEF TypeOK, Reply
<1>4. MutexHeld'
    BY <1>1, <1>3, TimingAssumption DEF MutexHeld, TypeOK
<1>5. StoreDated'
    BY <1>1, NamesAssumption DEF StoreDated, TypeOK, Token
<1>6. ExchangeJustified'
    BY <1>1, TimingAssumption DEF ExchangeJustified, Expiring, TypeOK
<1>7. HandedDated'
    BY <1>1, <1>3, TimingAssumption, NamesAssumption DEF HandedDated, TypeOK, Token
<1> QED BY <1>2, <1>4, <1>5, <1>6, <1>7

\* Queueing for t.mu, and using the token, touch nobody else.
LEMMA CallFinishToken ==
    ASSUME TokenInv, NEW w \in Workers, Call(w) \/ Finish(w)
    PROVE  TokenInv'
<1> USE DEF TokenInv
<1>1. UNCHANGED <<now, epoch, forgotAt, faults, holder, accessToken, refreshToken, accessExpiry,
                  refreshExpiry, reply>>
    BY DEF Call, Finish, clock, store
<1>2. pc[w] \notin Exchanging /\ pc'[w] \in {"wait", "idle"}
    BY DEF Call, Finish, TypeOK, Exchanging
<1>3. \A v \in Workers : v # w => pc'[v] = pc[v] /\ token'[v] = token[v] /\ gotAt'[v] = gotAt[v]
    BY DEF Call, Finish, TypeOK, carried
<1>4. TypeOK'
    BY <1>1 DEF Call, Finish, TypeOK, carried
<1>5. MutexHeld'
    BY <1>1, <1>2, <1>3 DEF MutexHeld, Exchanging
<1>6. StoreDated'
    BY <1>1 DEF StoreDated
<1>7. ExchangeJustified'
    BY <1>1, <1>2, <1>3 DEF ExchangeJustified, Expiring, Exchanging
<1>8. HandedDated'
    BY <1>1, <1>2, <1>3 DEF HandedDated
<1> QED BY <1>1, <1>4, <1>5, <1>6, <1>7, <1>8

\* The decision under t.mu: reuse hands out a token that is outside its margin,
\* an exchange starts only when there is none.
LEMMA DecideToken ==
    ASSUME TokenInv, NEW w \in Workers, Decide(w)
    PROVE  TokenInv'
<1> USE DEF TokenInv
<1>1. UNCHANGED <<now, epoch, forgotAt, faults, accessToken, refreshToken, accessExpiry,
                  refreshExpiry, reply>>
    BY DEF Decide, clock, store
<1>2. holder = Nobody /\ \A v \in Workers : pc[v] \notin Exchanging
    BY NamesAssumption DEF Decide, MutexHeld
<1>3. \A v \in Workers : v # w => pc'[v] = pc[v] /\ token'[v] = token[v] /\ gotAt'[v] = gotAt[v]
    BY DEF Decide, Hand, TypeOK, carried
<1>4. StoreDated'
    BY <1>1 DEF StoreDated
<1>5. CASE accessToken = NoToken \/ Expiring
  <2>1. pc'[w] \in Exchanging /\ holder' = w /\ token' = token /\ gotAt' = gotAt
    BY <1>5 DEF Decide, TypeOK, Exchanging, carried
  <2>2. TypeOK'
    BY <1>1, <1>5 DEF Decide, TypeOK, carried, Exchanging
  <2>3. MutexHeld'
    BY <1>1, <1>2, <1>3, <2>1, NamesAssumption DEF MutexHeld
  <2>4. ExchangeJustified'
    BY <1>1, <1>5 DEF ExchangeJustified, Expiring
  <2>5. HandedDated'
    BY <1>1, <1>3, <2>1 DEF HandedDated, Exchanging
  <2> QED BY <1>1, <1>4, <2>2, <2>3, <2>4, <2>5
<1>6. CASE ~(accessToken = NoToken \/ Expiring)
  <2>1. /\ pc'[w] = "hold" /\ token'[w] = accessToken /\ gotAt'[w] = now
        /\ holder' = holder
    BY <1>6 DEF Decide, Hand, TypeOK
  <2>2. TypeOK'
    BY <1>1, <1>6 DEF Decide, Hand, TypeOK
  <2>3. MutexHeld'
    BY <1>1, <1>2, <1>3, <2>1 DEF MutexHeld, Exchanging
  <2>4. ExchangeJustified'
    BY <1>1, <1>2, <1>3, <2>1 DEF ExchangeJustified, Exchanging
  <2>5. /\ now <= accessToken.iat + Latency + AccessTTL - Margin
        /\ accessToken.iat <= now
    BY <1>6, TimingAssumption, NamesAssumption DEF Expiring, StoreDated, TypeOK, Token
  <2>6. HandedDated'
    BY <1>1, <1>3, <1>6, <2>1, <2>5, TimingAssumption DEF HandedDated, StoreDated, TypeOK
  <2> QED BY <1>1, <1>4, <2>2, <2>3, <2>4, <2>6
<1> QED BY <1>5, <1>6

\* An answer with an access token: stored, handed out, t.mu released.
LEMMA ReceiveGrantToken ==
    ASSUME TokenInv, NEW w \in Workers, ReceiveGrant(w)
    PROVE  TokenInv'
<1> USE DEF TokenInv
<1> DEFINE t == [iat |-> reply[w].at, epoch |-> reply[w].epoch]
<1>1. /\ accessToken' = t /\ accessExpiry' = now + AccessTTL
      /\ holder' = Nobody
      /\ pc' = [pc EXCEPT ![w] = "hold"]
      /\ token' = [token EXCEPT ![w] = t]
      /\ gotAt' = [gotAt EXCEPT ![w] = now]
      /\ reply' = [reply EXCEPT ![w] = NoReply]
      /\ UNCHANGED <<now, epoch, forgotAt, faults>>
    BY DEF ReceiveGrant, Hand, clock
<1>2. /\ t \in Token /\ t # NoToken
      /\ t.iat = reply[w].at /\ t.epoch = reply[w].epoch
    BY NamesAssumption DEF TypeOK, Reply, Token
<1>3. /\ holder = w
      /\ \A v \in Workers : v # w => pc[v] \notin Exchanging
      /\ t.iat <= now /\ now <= t.iat + Latency
      /\ t.epoch # epoch => t.iat <= forgotAt
    BY <1>2 DEF ReceiveGrant, MutexHeld, Granted
<1>4. /\ refreshToken' \in Token \cup {NoToken}
      /\ refreshExpiry' \in Nat
    BY <1>2, TimingAssumption DEF ReceiveGrant, TypeOK
<1>5. TypeOK'
    BY <1>1, <1>2, <1>4, TimingAssumption DEF TypeOK, NoReply, Reply, ReplyKinds
<1>6. MutexHeld'
    BY <1>1, <1>3, NamesAssumption DEF MutexHeld, TypeOK, NoReply, Exchanging
<1>7. StoreDated'
    BY <1>1, <1>2, <1>3, TimingAssumption DEF StoreDated, TypeOK, Token
<1>8. ExchangeJustified'
    BY <1>1, <1>3 DEF ExchangeJustified, TypeOK, Exchanging
<1>9. HandedDated'
    BY <1>1, <1>2, <1>3, TimingAssumption, MarginAssumption DEF HandedDated, TypeOK, Token
<1> QED BY <1>1, <1>5, <1>6, <1>7, <1>8, <1>9

\* A refused refresh becomes a login without releasing t.mu.
LEMMA ReceiveFallbackToken ==
    ASSUME TokenInv, NEW w \in Workers, ReceiveFallback(w)
    PROVE  TokenInv'
<1> USE DEF TokenInv
<1>1. /\ pc[w] = "refresh" /\ pc' = [pc EXCEPT ![w] = "login"]
      /\ reply' = [reply EXCEPT ![w] = NoReply]
      /\ UNCHANGED <<now, epoch, forgotAt, faults, holder, accessToken, refreshToken, accessExpiry,
                     refreshExpiry, token, gotAt>>
    BY DEF ReceiveFallback, clock, store, carried
<1>2. TypeOK'
    BY <1>1 DEF TypeOK, NoReply, Reply, ReplyKinds, Exchanging
<1>3. MutexHeld'
    BY <1>1 DEF MutexHeld, TypeOK, NoReply, Exchanging
<1>4. StoreDated'
    BY <1>1 DEF StoreDated
<1>5. ExchangeJustified'
    BY <1>1 DEF ExchangeJustified, Expiring, TypeOK, Exchanging
<1>6. HandedDated'
    BY <1>1 DEF HandedDated, TypeOK
<1> QED BY <1>1, <1>2, <1>3, <1>4, <1>5, <1>6

\* An error releases t.mu and leaves the store as it was.
LEMMA ReceiveErrorToken ==
    ASSUME TokenInv, NEW w \in Workers, ReceiveError(w)
    PROVE  TokenInv'
<1> USE DEF TokenInv
<1>1. /\ pc[w] \in Exchanging /\ pc' = [pc EXCEPT ![w] = "failed"]
      /\ reply' = [reply EXCEPT ![w] = NoReply]
      /\ holder' = Nobody
      /\ UNCHANGED <<now, epoch, forgotAt, faults, accessToken, refreshToken, accessExpiry,
                     refreshExpiry, token, gotAt>>
    BY DEF ReceiveError, clock, store, carried
<1>2. holder = w /\ \A v \in Workers : v # w => pc[v] \notin Exchanging
    BY <1>1 DEF MutexHeld
<1>3. TypeOK'
    BY <1>1 DEF TypeOK, NoReply, Reply, ReplyKinds
<1>4. MutexHeld'
    BY <1>1, <1>2, NamesAssumption DEF MutexHeld, TypeOK, NoReply, Exchanging
<1>5. StoreDated'
    BY <1>1 DEF StoreDated
<1>6. ExchangeJustified'
    BY <1>1, <1>2 DEF ExchangeJustified, TypeOK, Exchanging
<1>7. HandedDated'
    BY <1>1 DEF HandedDated, TypeOK
<1> QED BY <1>1, <1>3, <1>4, <1>5, <1>6, <1>7

LEMMA StutterToken == TokenInv /\ UNCHANGED vars => TokenInv'
BY DEF vars, clock, store, carried, TokenInv, TypeOK, MutexHeld, StoreDated,
       ExchangeJustified, Expiring, HandedDated

LEMMA NextToken == TokenInv /\ [Next]_vars => TokenInv'
<1> SUFFICES ASSUME TokenInv, [Next]_vars PROVE TokenInv'
    OBVIOUS
<1>1. ASSUME NEW w \in Workers, WorkerStep(w) PROVE TokenInv'
    BY <1>1, CallFinishToken, DecideToken, ReceiveGrantToken, ReceiveFallbackToken,
       ReceiveErrorToken DEF WorkerStep
<1> QED
    BY <1>1, GatewayAnswerToken, GatewayForgetsToken, TickToken, StutterToken DEF Next

-----------------------------------------------------------------------------
\* The inductive invariant holds in every reachable state.
THEOREM TokenInvariant == Spec => []TokenInv
<1> QED BY InitToken, NextToken, PTL DEF Spec

\* The variables keep their types.
THEOREM TypeCorrect == Spec => []TypeOK
<1>1. TokenInv => TypeOK BY DEF TokenInv
<1> QED BY <1>1, TokenInvariant, PTL

\* Whatever the lifetimes, if the travel time of an answer and the delay before
\* use fit in expiryMargin, no request carries a token that has expired at the
\* gateway.
THEOREM TokensArriveAlive == Spec => []SentTokenAccepted
<1>1. TokenInv => SentTokenAccepted
  <2> SUFFICES ASSUME TokenInv, NEW w \in Workers, pc[w] = "hold", token[w].epoch = epoch
               PROVE  token[w] # NoToken /\ now < token[w].iat + AccessTTL
      BY DEF SentTokenAccepted, LiveAtGateway
  <2>1. token[w] # NoToken
    BY DEF TokenInv, HandedDated
  <2>2. now \in Nat /\ gotAt[w] \in Nat /\ token[w].iat \in Nat
    BY <2>1 DEF TokenInv, TypeOK, Token
  <2>3. now <= gotAt[w] + UseDelay /\ gotAt[w] <= token[w].iat + Latency + AccessTTL - Margin
    BY DEF TokenInv, HandedDated
  <2> QED BY <2>1, <2>2, <2>3, TimingAssumption, MarginAssumption
<1> QED BY <1>1, TokenInvariant, PTL

\* However many requests queue for t.mu, a stored access token is replaced only
\* once it has entered its margin: no double login.
THEOREM LoginsNeverDouble == Spec => NoDoubleLogin
<1>1. TokenInv /\ [Next]_vars =>
        [accessExpiry' # accessExpiry => accessToken = NoToken \/ Expiring]_vars
  <2> SUFFICES ASSUME TokenInv, Next, accessExpiry' # accessExpiry
               PROVE  accessToken = NoToken \/ Expiring
      BY DEF vars
  <2>1. PICK w \in Workers : ReceiveGrant(w)
    BY DEF Next, WorkerStep, Call, Decide, ReceiveFallback, ReceiveError, Finish,
           GatewayAnswer, GatewayForgets, Tick, store
  <2> QED BY <2>1 DEF ReceiveGrant, TokenInv, ExchangeJustified
<1> QED BY <1>1, TokenInvariant, PTL DEF Spec, NoDoubleLogin

\* After the gateway forgot its tokens, the last stale one is sent no later than
\* AccessTTL - Margin (and the two delays) afterwards.
THEOREM OutageIsBounded == Spec => []OutageAfterForgetBounded
<1>1. TokenInv => OutageAfterForgetBounded
  <2> SUFFICES ASSUME TokenInv, NEW w \in Workers, pc[w] = "hold", token[w].epoch # epoch
               PROVE  now <= forgotAt + AccessTTL - Margin + Latency + UseDelay
      BY DEF OutageAfterForgetBounded
  <2>1. token[w] # NoToken
    BY DEF TokenInv, HandedDated
  <2>2. now \in Nat /\ gotAt[w] \in Nat /\ token[w].iat \in Nat /\ forgotAt \in Nat
    BY <2>1 DEF TokenInv, TypeOK, Token
  <2>3. /\ now <= gotAt[w] + UseDelay
        /\ gotAt[w] <= token[w].iat + Latency + AccessTTL - Margin
        /\ token[w].iat <= forgotAt
    BY DEF TokenInv, HandedDated
  <2> QED BY <2>2, <2>3, TimingAssumption
<1> QED BY <1>1, TokenInvariant, PTL
-----------------------------------------------------------------------------
(* Healing.                                                                 *)

\* Only what the gateway may answer travels: a login fails in the ways of the fault
\* pattern; a refresh may also be refused.
RepliesPossible ==
    \A w \in Workers :
        /\ pc[w] = "login" => reply[w].kind \in {"none"} \cup Granted \cup faults.login
        /\ pc[w] = "refresh" => reply[w].kind \in {"none", "rejected"} \cup Granted \cup faults.refresh

\* A step of worker w keeps the others' answers.
LEMMA WorkerReplies ==
    ASSUME TokenInv, RepliesPossible, NEW w \in Workers, WorkerStep(w)
    PROVE  RepliesPossible'
<1>0. /\ pc \in [Workers -> {"idle", "wait", "hold", "failed"} \cup Exchanging]
      /\ reply \in [Workers -> Reply]
    BY DEF TokenInv, TypeOK
<1>1. faults' = faults /\ \A v \in Workers : v # w => pc'[v] = pc[v] /\ reply'[v] = reply[v]
    BY <1>0 DEF WorkerStep, Call, Decide, ReceiveGrant, ReceiveFallback, ReceiveError, Finish, Hand,
        clock
<1>2. CASE Call(w) \/ ReceiveGrant(w) \/ ReceiveError(w) \/ Finish(w)
  <2>1. pc'[w] \notin Exchanging
    BY <1>0, <1>2 DEF Call, ReceiveGrant, ReceiveError, Finish, Hand, Exchanging
  <2> QED BY <1>1, <2>1 DEF RepliesPossible, Exchanging
<1>3. CASE Decide(w) \/ ReceiveFallback(w)
  <2>1. reply'[w].kind = "none"
    <3>1. CASE Decide(w)
        BY <1>0, <3>1 DEF Decide, TokenInv, MutexHeld, Exchanging
    <3>2. CASE ReceiveFallback(w)
        BY <1>0, <3>2 DEF ReceiveFallback, NoReply
    <3> QED BY <1>3, <3>1, <3>2
  <2> QED BY <1>1, <2>1 DEF RepliesPossible
<1> QED BY <1>2, <1>3 DEF WorkerStep

LEMMA NextReplies ==
    ASSUME TokenInv, RepliesPossible, [Next]_vars
    PROVE  RepliesPossible'
<1>1. ASSUME NEW w \in Workers, WorkerStep(w) PROVE RepliesPossible'
    BY <1>1, WorkerReplies
<1>2. ASSUME NEW w \in Workers, GatewayAnswer(w) PROVE RepliesPossible'
  <2>0. reply \in [Workers -> Reply]
    BY DEF TokenInv, TypeOK
  <2>1. PICK kind \in ReplyKinds \ {"none"} :
        /\ \/ kind \in Granted
           \/ kind = "rejected" /\ pc[w] = "refresh"
           \/ kind \in (IF pc[w] = "login" THEN faults.login ELSE faults.refresh)
        /\ reply' = [reply EXCEPT ![w] = [kind |-> kind, at |-> now, epoch |-> epoch]]
    BY <1>2 DEF GatewayAnswer
  <2>2. UNCHANGED <<pc, faults>>
    BY <1>2 DEF GatewayAnswer, clock
  <2>3. reply'[w].kind = kind /\ \A v \in Workers : v # w => reply'[v] = reply[v]
    BY <2>0, <2>1
  <2> QED BY <2>1, <2>2, <2>3 DEF RepliesPossible
<1>3. CASE GatewayForgets \/ Tick \/ UNCHANGED vars
    BY <1>3 DEF GatewayForgets, Tick, vars, clock, RepliesPossible
<1> QED BY <1>1, <1>2, <1>3 DEF Next

LEMMA NextHeals ==
    ASSUME TokenInv, RepliesPossible, LoginHealsRefresh, [Next]_vars
    PROVE  LoginHealsRefresh'
<1> SUFFICES ASSUME faults'.login = {}, "broken" \notin faults'.refresh, NEW v \in Workers
             PROVE  pc'[v] # "failed"
    BY DEF LoginHealsRefresh
<1>1. faults' = faults
    BY DEF Next, WorkerStep, Call, Decide, ReceiveGrant, ReceiveFallback, ReceiveError, Finish,
        GatewayAnswer, GatewayForgets, Tick, vars, clock
<1>2. pc[v] # "failed" /\ pc \in [Workers -> {"idle", "wait", "hold", "failed"} \cup Exchanging]
    BY <1>1 DEF LoginHealsRefresh, TokenInv, TypeOK
<1>3. ASSUME NEW w \in Workers PROVE ~ReceiveError(w)
  <2>1. CASE pc[w] = "login"
    BY <1>1, <2>1 DEF ReceiveError, RepliesPossible, FaultKinds, Granted
  <2>2. CASE pc[w] = "refresh"
    BY <1>1, <2>2 DEF ReceiveError, RepliesPossible, Granted
  <2> QED BY <2>1, <2>2 DEF ReceiveError, Exchanging
<1>4. ASSUME NEW w \in Workers, WorkerStep(w) PROVE pc'[v] # "failed"
    BY <1>2, <1>3, <1>4 DEF WorkerStep, Call, Decide, ReceiveGrant, ReceiveFallback, Finish, Hand
<1>5. CASE GatewayForgets \/ Tick \/ UNCHANGED vars \/ \E w \in Workers : GatewayAnswer(w)
    BY <1>2, <1>5 DEF GatewayForgets, Tick, GatewayAnswer, vars
<1> QED BY <1>4, <1>5 DEF Next

\* While logins work and no refresh exchange breaks, no call of ensureValidToken
\* fails, for any workers, lifetimes and ways in which a refresh is refused: a refused
\* or empty refresh becomes a login under the same lock.
THEOREM RefreshHeals == Spec => []LoginHealsRefresh
<1>1. Init => RepliesPossible /\ LoginHealsRefresh
    BY DEF Init, RepliesPossible, LoginHealsRefresh
<1>2. TokenInv /\ RepliesPossible /\ LoginHealsRefresh /\ [Next]_vars
        => RepliesPossible' /\ LoginHealsRefresh'
    BY NextReplies, NextHeals
<1> QED BY <1>1, <1>2, TokenInvariant, PTL DEF Spec
=============================================================================
