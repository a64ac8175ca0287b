------------------------------ MODULE TokenStore ------------------------------
(***************************************************************************)
(* The token lifecycle of one cluster (powerflex.tokenStore): concurrent   *)
(* requests call ensureValidToken, which logs in, refreshes or reuses the  *)
(* stored access token under t.mu, and then send the token they were given *)
(* after the mutex is released.                                            *)
(*                                                                         *)
(* Time is a global integer clock.  The gateway (external) dates a token   *)
(* when it issues it; the exporter dates it when the answer arrives, so its*)
(* idea of the expiry is late by the answer's travel time.                 *)
(***************************************************************************)
EXTENDS Integers

CONSTANTS
    Workers,        \* goroutines that call ensureValidToken (`do`)
    NoToken,        \* the empty token string
    Nobody,         \* t.mu is free
    AccessTTL,      \* accessTokenTTL
    RefreshTTL,     \* refreshTokenTTL
    Margin,         \* expiryMargin
    Latency,        \* longest time an answer of the gateway travels
    UseDelay,       \* longest time from ensureValidToken's return to the
                    \* arrival of the request that carries the token
    FaultPatterns,  \* ways in which the gateway's two endpoints may fail
    MaxTime,        \* bound: the clock stops there
    MaxEpoch        \* bound: how often the gateway forgets its tokens

\* "rejected" is an HTTP error status, "empty" an answer without an access
\* token, "broken" a transport error or an answer that does not parse.
FaultKinds == {"rejected", "empty", "broken"}

ASSUME TimingAssumption ==
    /\ AccessTTL \in Nat /\ RefreshTTL \in Nat /\ Margin \in Nat
    /\ Latency \in Nat /\ UseDelay \in Nat
    /\ MaxTime \in Nat /\ MaxEpoch \in Nat

\* The travel time of the answer and the delay before use fit in the margin.
ASSUME MarginAssumption == Latency + UseDelay < Margin /\ Margin <= AccessTTL

\* What may go wrong with /rest/auth/login and with /rest/auth/update-token.
FaultPattern == [login : SUBSET FaultKinds, refresh : SUBSET FaultKinds]

ASSUME FaultAssumption == FaultPatterns \subseteq FaultPattern

\* A token is known by when, and in which epoch of the gateway, it was issued.
Token == [iat : Nat, epoch : Nat]

ASSUME NamesAssumption == NoToken \notin Token /\ Nobody \notin Workers

VARIABLES
    now,            \* the wall clock
    epoch,          \* gateway: tokens of an earlier epoch are forgotten ...
    forgotAt,       \* ... since the last time it forgot them
    faults,         \* gateway: how it may fail in this behaviour
    holder,         \* t.mu
    accessToken, refreshToken, accessExpiry, refreshExpiry,  \* tokenStore
    pc,             \* per worker: where it is
    reply,          \* per worker: the gateway's answer, travelling
    token,          \* per worker: what ensureValidToken returned ...
    gotAt           \* ... and when

clock == <<now, epoch, forgotAt, faults>>
store == <<accessToken, refreshToken, accessExpiry, refreshExpiry>>
carried == <<token, gotAt>>
vars == <<clock, holder, store, pc, reply, carried>>

ReplyKinds == {"none", "granted", "grantedAccessOnly"} \cup FaultKinds
Reply == [kind : ReplyKinds, at : Nat, epoch : Nat]
NoReply == [kind |-> "none", at |-> 0, epoch |-> 0]
Granted == {"granted", "grantedAccessOnly"}
Exchanging == {"login", "refresh"}

TypeOK ==
    /\ now \in Nat /\ epoch \in Nat /\ forgotAt \in Nat /\ faults \in FaultPatterns
    /\ holder \in Workers \cup {Nobody}
    /\ accessToken \in Token \cup {NoToken}
    /\ refreshToken \in Token \cup {NoToken}
    /\ accessExpiry \in Nat /\ refreshExpiry \in Nat
    /\ pc \in [Workers -> {"idle", "wait", "hold", "failed"} \cup Exchanging]
    /\ reply \in [Workers -> Reply]
    /\ token \in [Workers -> Token \cup {NoToken}]
    /\ gotAt \in [Workers -> Nat]

Init ==
    /\ now = 0 /\ epoch = 0 /\ forgotAt = 0 /\ faults \in FaultPatterns
    /\ holder = Nobody
    /\ accessToken = NoToken /\ refreshToken = NoToken
    /\ accessExpiry = 0 /\ refreshExpiry = 0
    /\ pc = [w \in Workers |-> "idle"]
    /\ reply = [w \in Workers |-> NoReply]
    /\ token = [w \in Workers |-> NoToken]
    /\ gotAt = [w \in Workers |-> 0]

-----------------------------------------------------------------------------
(* The gateway (external).                                                  *)

LiveAtGateway(t, ttl) == t # NoToken /\ t.epoch = epoch /\ now < t.iat + ttl

\* The gateway answers a login or an update-token request.  It refuses a
\* refresh token it no longer honours; otherwise it grants, or fails in one of
\* the ways of its fault pattern.
GatewayAnswer(w) ==
    /\ pc[w] \in Exchanging
    /\ reply[w].kind = "none"
    /\ \E kind \in ReplyKinds \ {"none"} :
        /\ \/ kind \in Granted /\ (pc[w] = "refresh" => LiveAtGateway(refreshToken, RefreshTTL))
           \/ kind = "rejected" /\ pc[w] = "refresh" /\ ~LiveAtGateway(refreshToken, RefreshTTL)
           \/ kind \in (IF pc[w] = "login" THEN faults.login ELSE faults.refresh)
        /\ reply' = [reply EXCEPT ![w] = [kind |-> kind, at |-> now, epoch |-> epoch]]
    /\ UNCHANGED <<clock, holder, store, pc, carried>>

\* The gateway restarts, or an administrator ends the session: every token
\* issued so far is worthless.
GatewayForgets ==
    /\ epoch < MaxEpoch
    /\ epoch' = epoch + 1
    /\ forgotAt' = now
    /\ UNCHANGED <<now, faults, holder, store, pc, reply, carried>>

\* Time passes, but not beyond the arrival of an answer or the use of a token.
Tick ==
    /\ now < MaxTime
    /\ \A w \in Workers :
        /\ reply[w].kind # "none" => now < reply[w].at + Latency
        /\ pc[w] = "hold" => now < gotAt[w] + UseDelay
    /\ now' = now + 1
    /\ UNCHANGED <<epoch, forgotAt, faults, holder, store, pc, reply, carried>>

-----------------------------------------------------------------------------
(* The exporter.                                                            *)

\* ensureValidToken returns t to worker w, at this moment.
Hand(w, t) ==
    /\ pc' = [pc EXCEPT ![w] = "hold"]
    /\ token' = [token EXCEPT ![w] = t]
    /\ gotAt' = [gotAt EXCEPT ![w] = now]

\* Mutation: the clock compared with the bare expiry.
MutExpiringNoMargin == now > accessExpiry

\* The access token is close to its expiry, or past it.
Expiring == now > accessExpiry - Margin

CanRefresh == refreshToken # NoToken /\ now < refreshExpiry

\* Mutations: the mutex left out; a refused refresh that keeps the old token or
\* gives up; an error that returns without releasing the mutex; a lifetime left
\* out of the stored expiry.
MutDecideUnlocked(w) ==
    /\ pc[w] = "wait"
    /\ IF accessToken = NoToken \/ Expiring
       THEN /\ pc' = [pc EXCEPT ![w] = IF accessToken # NoToken /\ CanRefresh
                                       THEN "refresh" ELSE "login"]
            /\ holder' = w
            /\ UNCHANGED carried
       ELSE Hand(w, accessToken) /\ UNCHANGED holder
    /\ UNCHANGED <<clock, store, reply>>

MutReceiveFallbackKeepsToken(w) ==
    /\ pc[w] = "refresh"
    /\ reply[w].kind \in {"rejected", "empty"}
    /\ reply' = [reply EXCEPT ![w] = NoReply]
    /\ holder' = Nobody
    /\ Hand(w, accessToken)
    /\ UNCHANGED <<clock, store>>

MutReceiveFallbackGivesUp(w) ==
    /\ pc[w] = "refresh"
    /\ reply[w].kind \in {"rejected", "empty"}
    /\ reply' = [reply EXCEPT ![w] = NoReply]
    /\ holder' = Nobody
    /\ pc' = [pc EXCEPT ![w] = "failed"]
    /\ UNCHANGED <<clock, store, carried>>

MutReceiveErrorKeepsLock(w) ==
    /\ pc[w] \in Exchanging
    /\ reply[w].kind \in (IF pc[w] = "login" THEN FaultKinds ELSE {"broken"})
    /\ reply' = [reply EXCEPT ![w] = NoReply]
    /\ pc' = [pc EXCEPT ![w] = "failed"]
    /\ UNCHANGED <<clock, holder, store, carried>>

MutReceiveGrantForgetsTTL(w) ==
    /\ pc[w] \in Exchanging
    /\ reply[w].kind \in Granted
    /\ LET t == [iat |-> reply[w].at, epoch |-> reply[w].epoch]
       IN /\ accessToken' = t
          /\ accessExpiry' = now - Margin
          /\ refreshToken' = t
          /\ refreshExpiry' = now + RefreshTTL
          /\ Hand(w, t)
    /\ reply' = [reply EXCEPT ![w] = NoReply]
    /\ holder' = Nobody
    /\ UNCHANGED clock

-----------------------------------------------------------------------------
\* A request needs a token and queues for t.mu.
Call(w) ==
    /\ pc[w] = "idle"
    /\ pc' = [pc EXCEPT ![w] = "wait"]
    /\ UNCHANGED <<clock, holder, store, reply, carried>>

\* ensureValidToken takes t.mu, reads the clock and chooses: log in, refresh,
\* or return the stored token (and release t.mu) at once.
Decide(w) ==
    /\ pc[w] = "wait"
    /\ holder = Nobody
    /\ IF accessToken = NoToken \/ Expiring
       THEN /\ pc' = [pc EXCEPT ![w] = IF accessToken # NoToken /\ CanRefresh
                                       THEN "refresh" ELSE "login"]
            /\ holder' = w
            /\ UNCHANGED carried
       ELSE Hand(w, accessToken) /\ UNCHANGED holder
    /\ UNCHANGED <<clock, store, reply>>

\* login's and refresh's common end: the answer carries an access token.  A
\* login takes the refresh token the answer has or has not; a refresh keeps the
\* one it has when the answer brings none.
ReceiveGrant(w) ==
    /\ pc[w] \in Exchanging
    /\ reply[w].kind \in Granted
    /\ LET t == [iat |-> reply[w].at, epoch |-> reply[w].epoch]
           renewed == reply[w].kind = "granted"
       IN /\ accessToken' = t
          /\ accessExpiry' = now + AccessTTL
          /\ IF renewed \/ pc[w] = "login"
             THEN /\ refreshToken' = IF renewed THEN t ELSE NoToken
                  /\ refreshExpiry' = now + RefreshTTL
             ELSE UNCHANGED <<refreshToken, refreshExpiry>>
          /\ Hand(w, t)
    /\ reply' = [reply EXCEPT ![w] = NoReply]
    /\ holder' = Nobody
    /\ UNCHANGED clock

\* refresh: an error status or an empty access token falls back to a login,
\* still under t.mu.
ReceiveFallback(w) ==
    /\ pc[w] = "refresh"
    /\ reply[w].kind \in {"rejected", "empty"}
    /\ reply' = [reply EXCEPT ![w] = NoReply]
    /\ pc' = [pc EXCEPT ![w] = "login"]
    /\ UNCHANGED <<clock, holder, store, carried>>

\* Every other answer is an error of ensureValidToken; the store is untouched.
ReceiveError(w) ==
    /\ pc[w] \in Exchanging
    /\ reply[w].kind \in (IF pc[w] = "login" THEN FaultKinds ELSE {"broken"})
    /\ reply' = [reply EXCEPT ![w] = NoReply]
    /\ pc' = [pc EXCEPT ![w] = "failed"]
    /\ holder' = Nobody
    /\ UNCHANGED <<clock, store, carried>>

\* The request that carries the token reaches the gateway, or `do` returns the
\* error; the goroutine is free for its next request.
Finish(w) ==
    /\ pc[w] \in {"hold", "failed"}
    /\ pc' = [pc EXCEPT ![w] = "idle"]
    /\ token' = [token EXCEPT ![w] = NoToken]
    /\ gotAt' = [gotAt EXCEPT ![w] = 0]
    /\ UNCHANGED <<clock, holder, store, reply>>

-----------------------------------------------------------------------------
WorkerStep(w) ==
    \/ Call(w) \/ Decide(w)
    \/ ReceiveGrant(w) \/ ReceiveFallback(w) \/ ReceiveError(w)
    \/ Finish(w)

Next ==
    \/ \E w \in Workers : WorkerStep(w) \/ GatewayAnswer(w)
    \/ GatewayForgets
    \/ Tick

Spec == Init /\ [][Next]_vars

\* sync.Mutex hands the lock to a waiter after 1 ms of starvation, hence strong
\* fairness for Decide; an exchange ends because the HTTP client gives up after
\* 30 s ("broken"), and a ready goroutine runs.
Fairness ==
    \A w \in Workers :
        /\ SF_vars(Decide(w))
        /\ WF_vars(GatewayAnswer(w))
        /\ WF_vars(ReceiveGrant(w)) /\ WF_vars(ReceiveFallback(w)) /\ WF_vars(ReceiveError(w))
        /\ WF_vars(Finish(w))

FairSpec == Spec /\ Fairness

-----------------------------------------------------------------------------
(* Properties.                                                              *)

\* A token handed out is still good when the request that carries it reaches
\* the gateway, unless the gateway forgot it: the 30 s expiryMargin absorbs both
\* the late dating of the expiry (login and refresh date it when the answer
\* arrives) and the use of the token after t.mu is released.
SentTokenAccepted ==
    \A w \in Workers :
        pc[w] = "hold" /\ token[w].epoch = epoch => LiveAtGateway(token[w], AccessTTL)

\* "concurrent requests on a cluster never trigger a double login": a stored
\* access token is replaced only once it has entered its margin, however many
\* requests queue for t.mu while one of them logs in or refreshes.
NoDoubleLogin ==
    [][accessExpiry' # accessExpiry => accessToken = NoToken \/ Expiring]_vars

\* There is no reaction to a 401: a token the gateway forgot goes on being sent.
\* But only until it enters its margin; from then on the store exchanges it, and
\* a refused refresh ends in a login.
OutageAfterForgetBounded ==
    \A w \in Workers :
        pc[w] = "hold" /\ token[w].epoch # epoch =>
            now <= forgotAt + AccessTTL - Margin + Latency + UseDelay

\* When logins work, ensureValidToken never fails, whatever became of the refresh
\* token (expired, forgotten, refused, answered without a token): refresh falls
\* back to login.  Only a broken refresh exchange is allowed to surface.
LoginHealsRefresh ==
    faults.login = {} /\ "broken" \notin faults.refresh => \A w \in Workers : pc[w] # "failed"

\* Every call of ensureValidToken returns, with a token or with an error: t.mu is
\* released on each path out of login and refresh.
EveryCallReturns ==
    \A w \in Workers : (pc[w] = "wait") ~> (pc[w] \in {"hold", "failed"})

=============================================================================
