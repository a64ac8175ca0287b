----------------------------- MODULE Configuration -----------------------------
(***************************************************************************)
(* Loading config.yaml: references to the environment and password files   *)
(* are resolved, defaults filled in, and the result is validated; the      *)
(* start-up and every reload do the same.  No state: module Server has the *)
(* reloads, ConfiguredServer puts the two together.                        *)
(*                                                                         *)
(* A document is what the file decodes to.  A text that may hold references*)
(* is a sequence of pieces, Lit or Ref.  A duration or a number is         *)
(* [given, parsed]: an empty text is not given, and `parsed` has at most   *)
(* one element, none if the text is not one.                               *)
(***************************************************************************)
EXTENDS Integers, Sequences, FiniteSets, Functions, SequencesExt

Lit(text) == [ref |-> FALSE, text |-> text]
Ref(var) == [ref |-> TRUE, var |-> var, defaults |-> FALSE, text |-> ""]
RefOr(var, default) == [ref |-> TRUE, var |-> var, defaults |-> TRUE, text |-> default]

Unset == [given |-> FALSE, parsed |-> {}]
Given(n) == [given |-> TRUE, parsed |-> {n}]
Default(v, n) == IF v.given THEN v ELSE Given(n)
DefaultText(s, t) == IF s = "" THEN t ELSE s
ValueOr(v, fallback) == IF v.parsed = {} THEN fallback ELSE CHOOSE n \in v.parsed : TRUE

-----------------------------------------------------------------------------
(* References.  A result is [ok, value].                                    *)

Ok(v) == [ok |-> TRUE, value |-> v]
Error == [ok |-> FALSE, value |-> ""]

IsSet(var, env) == var \in DOMAIN env
Piece(p, env) == IF p.ref /\ IsSet(p.var, env) /\ env[p.var] # "" THEN env[p.var] ELSE p.text

\* A variable that is set to nothing expands to nothing; one that is not set is an
\* error, unless its reference has a default, be it the empty one.
ExpandEnv(s, env) ==
    IF \E p \in Range(s) : p.ref /\ ~p.defaults /\ ~IsSet(p.var, env) THEN Error
    ELSE Ok(FoldLeft(LAMBDA text, p : text \o Piece(p, env), "", s))

\* A credential that refers to the environment must not come out empty.
ExpandEnvSecret(s, env) ==
    LET r == ExpandEnv(s, env)
    IN IF r.ok /\ r.value = "" /\ \E p \in Range(s) : p.ref THEN Error ELSE r

\* EnvBool: a native boolean, or a text for strconv.ParseBool, trimmed.
True == {"1", "t", "T", "true", "TRUE", "True"}
False == {"0", "f", "F", "false", "FALSE", "False", ""}
ResolveBool(b, env) ==
    LET r == ExpandEnv(b.raw, env)
    IN IF b.raw = <<>> THEN Ok(b.val)
       ELSE IF r.ok /\ r.value \in True \cup False THEN Ok(r.value \in True) ELSE Error

\* A password file is read only if there is no password, and its text is taken as it
\* is but for the white space around it; `secrets` has the files trimmed.
ResolvePassword(cl, env, secrets) ==
    IF cl.password = <<>> /\ cl.passwordFile # ""
    THEN IF cl.passwordFile \in DOMAIN secrets THEN Ok(secrets[cl.passwordFile]) ELSE Error
    ELSE ExpandEnvSecret(cl.password, env)

Resolved(cl, env, secrets) ==
    [gateway |-> ExpandEnvSecret(cl.gateway, env), username |-> ExpandEnvSecret(cl.username, env),
     skip |-> ResolveBool(cl.skip, env), password |-> ResolvePassword(cl, env, secrets)]

ResolveCluster(cl, env, secrets) ==
    LET r == Resolved(cl, env, secrets)
    IN [name |-> cl.name, gateway |-> r.gateway.value, username |-> r.username.value,
        password |-> r.password.value, passwordFile |-> cl.passwordFile,
        skip |-> [cl.skip EXCEPT !.val = r.skip.value]]

\* The first error ends it.
SecretsResolve(doc, env, secrets) ==
    \A cl \in Range(doc.clusters) :
        \A f \in DOMAIN Resolved(cl, env, secrets) : Resolved(cl, env, secrets)[f].ok
ResolveSecrets(doc, env, secrets) ==
    [doc EXCEPT !.clusters = [i \in DOMAIN @ |-> ResolveCluster(@[i], env, secrets)]]

-----------------------------------------------------------------------------
(* Defaults and validation.                                                 *)

SetDefaults(c) ==
    LET interval == Default(c.interval, 10)
    IN [c EXCEPT !.host = DefaultText(@, "0.0.0.0"), !.port = Default(@, 9445),
                 !.uri = DefaultText(@, "/metrics"),
                 !.interval = interval, !.timeout = Default(@, 8),
                 !.metrics.interval = IF @.given THEN @ ELSE interval,
                 !.maxConcurrent = IF @ < 0 THEN 0 ELSE @,
                 !.everyN = IF @ <= 0 THEN 1 ELSE @,
                 !.k8s.refresh = IF c.k8s.enabled THEN Default(@, 60) ELSE @,
                 !.k8s.driver = IF c.k8s.enabled THEN DefaultText(@, "csi-vxflexos.dellemc.com") ELSE @]

ValidDuration(d) == d.parsed # {}
ValidPort(p) == \E n \in p.parsed : n \in 1 .. 65535
ValidSlowTypes ==
    {"System", "Sds", "Sdc", "Volume", "StoragePool", "Device", "ProtectionDomain", "StorageNode",
     "DeviceGroup", "Sdt"}

ValidCollection(c) ==
    /\ ValidDuration(c.interval) /\ ValidDuration(c.timeout)
    /\ c.slowTypes \subseteq ValidSlowTypes
    /\ c.k8s.enabled => ValidDuration(c.k8s.refresh)

\* Mutation: duplicate names are not noticed.
MutValidClusters(cs) ==
    /\ cs # <<>>
    /\ \A cl \in Range(cs) : "" \notin {cl.name, cl.gateway, cl.username, cl.password}

ValidClusters(cs) ==
    /\ cs # <<>>
    /\ \A i, j \in DOMAIN cs : cs[i].name = cs[j].name => i = j
    /\ \A cl \in Range(cs) : "" \notin {cl.name, cl.gateway, cl.username, cl.password}

\* An endpoint is what is before and after its last colon.
ValidOTel(o) ==
    o.enabled => o.endpoint.host # "" /\ ValidPort(o.endpoint.port)

Validate(c) ==
    /\ ValidPort(c.port)
    /\ ValidCollection(c)
    /\ ValidClusters(c.clusters)
    /\ ValidOTel(c.metrics) /\ (c.metrics.enabled => ValidDuration(c.metrics.interval))
    /\ ValidOTel(c.tracing) /\ (c.tracing.enabled => c.tracing.rate \in 0 .. 100)

-----------------------------------------------------------------------------
\* validateConfig and SafeConfig.ReloadConfig, up to the swap.
Load(doc, env, secrets) ==
    LET c == SetDefaults(ResolveSecrets(doc, env, secrets))
    IN IF SecretsResolve(doc, env, secrets) /\ Validate(c) THEN Ok(c) ELSE Error

\* What the getters return.
Settings(c) ==
    [interval |-> ValueOr(c.interval, 10), timeout |-> ValueOr(c.timeout, 8),
     push |-> ValueOr(c.metrics.interval, ValueOr(c.interval, 10)),
     maxConcurrent |-> c.maxConcurrent, everyN |-> IF c.everyN <= 0 THEN 1 ELSE c.everyN,
     slowTypes |-> c.slowTypes, refresh |-> ValueOr(c.k8s.refresh, 60)]

===============================================================================
