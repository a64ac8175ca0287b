------------------------ MODULE ConfiguredServerProofs ------------------------
(***************************************************************************)
(* Proof that every pool is usable, for any documents, password files and  *)
(* environment, and any number of edits, signals and pools.                *)
(***************************************************************************)
EXTENDS ConfiguredServer, ServerProofs, FiniteSetTheorems

Clusters(i) == Loaded[i].value.clusters

\* A list without repetition has as many elements as it is long.
LEMMA NamesCounted ==
    ASSUME NEW s, NEW n \in Nat, DOMAIN s = 1 .. n,
           \A i, j \in DOMAIN s : s[i].name = s[j].name => i = j
    PROVE  Cardinality({cl.name : cl \in Range(s)}) = n
<1> DEFINE N == {cl.name : cl \in Range(s)}
           f == [i \in 1 .. n |-> s[i].name]
<1>1. f \in [1 .. n -> N]  BY DEF Range
<1>2. \A a, b \in 1 .. n : f[a] = f[b] => a = b  OBVIOUS
<1>3. \A m \in N : \E a \in 1 .. n : f[a] = m  BY DEF Range
<1>4. f \in Bijection(1 .. n, N)  BY <1>1, <1>2, <1>3, Zenon DEF Bijection, Injection, Surjection, IsInjective
<1>5. ExistsBijection(1 .. n, N)  BY <1>4, Zenon DEF ExistsBijection
<1> QED  BY <1>5, FS_CountingElements, Zenon

\* Resolving and filling in defaults change no number or order of clusters.
LEMMA ListKept ==
    ASSUME NEW doc, NEW secrets, "clusters" \in DOMAIN doc, doc.clusters \in Seq(Range(doc.clusters))
    PROVE  SetDefaults(ResolveSecrets(doc, Env, secrets)).clusters =
               [k \in 1 .. Len(doc.clusters) |-> ResolveCluster(doc.clusters[k], Env, secrets)]
<1> DEFINE c == ResolveSecrets(doc, Env, secrets)
<1>1. /\ DOMAIN c = DOMAIN doc
      /\ c.clusters = [k \in 1 .. Len(doc.clusters) |-> ResolveCluster(doc.clusters[k], Env, secrets)]
  BY DEF ResolveSecrets
<1> HIDE DEF c
<1>2. SetDefaults(c).clusters = c.clusters  BY <1>1 DEF SetDefaults
<1> QED  BY <1>1, <1>2 DEF c

\* A password that resolves is the expansion of its text or the text of a file.
LEMMA PasswordSource ==
    ASSUME NEW cl, NEW secrets, ResolvePassword(cl, Env, secrets).ok
    PROVE  ResolvePassword(cl, Env, secrets).value
               \in {ExpandEnv(cl.password, Env).value} \cup Range(secrets)
<1> DEFINE r == ExpandEnv(cl.password, Env)
<1>1. CASE cl.password = <<>> /\ cl.passwordFile # ""
  BY <1>1 DEF ResolvePassword, Ok, Error, Range
<1>2. CASE ~ (cl.password = <<>> /\ cl.passwordFile # "")
  <2>1. ResolvePassword(cl, Env, secrets) = ExpandEnvSecret(cl.password, Env)  BY <1>2, Zenon DEF ResolvePassword
  <2>2. ExpandEnvSecret(cl.password, Env) \in {Error, r}  BY Zenon DEF ExpandEnvSecret
  <2>3. ~Error.ok  BY DEF Error
  <2> QED  BY <2>1, <2>2, <2>3, Zenon
<1> QED  BY <1>1, <1>2

\* Whatever loads can be polled and told apart.
LEMMA LoadablePollable ==
    ASSUME NEW i \in Loadable
    PROVE  Pollable(i)
<1> DEFINE doc == Inputs[i].doc
           secrets == Inputs[i].secrets
           c == SetDefaults(ResolveSecrets(doc, Env, secrets))
           cs == Clusters(i)
<1>1. /\ i \in DOMAIN Inputs
      /\ Load(doc, Env, secrets).ok /\ Loaded[i] = Load(doc, Env, secrets)
  BY DEF Loadable, Loaded
<1>2. /\ "clusters" \in DOMAIN doc /\ doc.clusters \in Seq(Range(doc.clusters))
  BY <1>1, InputsAssumption
<1>3. /\ SecretsResolve(doc, Env, secrets) /\ Validate(c)
      /\ Loaded[i].value = c
  <2>1. CASE SecretsResolve(doc, Env, secrets) /\ Validate(c)
    <3>1. Load(doc, Env, secrets) = Ok(c)  BY <2>1, Zenon DEF Load
    <3>2. Ok(c).value = c  BY DEF Ok
    <3> QED  BY <1>1, <2>1, <3>1, <3>2, Zenon
  <2>2. CASE ~ (SecretsResolve(doc, Env, secrets) /\ Validate(c))
    <3>1. Load(doc, Env, secrets) = Error  BY <2>2, Zenon DEF Load
    <3>2. ~Error.ok  BY DEF Error
    <3> QED  BY <1>1, <3>1, <3>2, Zenon
  <2> QED  BY <2>1, <2>2, Zenon
<1>4. ValidClusters(cs)  BY <1>3 DEF Validate, Clusters
<1>5. cs = [k \in 1 .. Len(doc.clusters) |-> ResolveCluster(doc.clusters[k], Env, secrets)]
  <2>1. c.clusters = [k \in 1 .. Len(doc.clusters) |-> ResolveCluster(doc.clusters[k], Env, secrets)]
    <3> HIDE DEF doc, secrets
    <3> QED  BY <1>2, ListKept
  <2> HIDE DEF c
  <2> QED  BY <1>3, <2>1 DEF Clusters
<1>6. Len(doc.clusters) \in Nat /\ DOMAIN doc.clusters = 1 .. Len(doc.clusters)  BY <1>2
<1>7. Cardinality({cl.name : cl \in Range(cs)}) = Len(cs)
  <2>1. DOMAIN cs = 1 .. Len(doc.clusters) /\ Len(cs) = Len(doc.clusters)  BY <1>5, <1>6
  <2>2. \A a, b \in DOMAIN cs : cs[a].name = cs[b].name => a = b  BY <1>4, Zenon DEF ValidClusters
  <2> HIDE DEF cs, doc
  <2> QED  BY <1>6, <2>1, <2>2, NamesCounted
<1>8. \A cl \in Range(cs) : "" \notin {cl.name, cl.gateway, cl.username, cl.password}
  BY <1>4, Zenon DEF ValidClusters
<1>9. ASSUME NEW cl \in Range(cs)
      PROVE  cl.password \in Sources(i)
  <2>1. PICK k \in 1 .. Len(doc.clusters) : cl = ResolveCluster(doc.clusters[k], Env, secrets)
    BY <1>5 DEF Range
  <2> DEFINE d == doc.clusters[k]
  <2>2. d \in Range(doc.clusters)  BY <1>6 DEF Range
  <2>3. cl.password = ResolvePassword(d, Env, secrets).value
    BY <2>1 DEF ResolveCluster, Resolved
  <2>4. ResolvePassword(d, Env, secrets).ok
    <3>1. "password" \in DOMAIN Resolved(d, Env, secrets)
          /\ Resolved(d, Env, secrets)["password"] = ResolvePassword(d, Env, secrets)
      BY DEF Resolved
    <3> QED  BY <1>3, <2>2, <3>1, Zenon DEF SecretsResolve
  <2> HIDE DEF d
  <2>5. cl.password \in {ExpandEnv(d.password, Env).value} \cup Range(secrets)
    BY <2>3, <2>4, PasswordSource, Zenon
  <2> QED  BY <2>2, <2>5, Zenon DEF Sources
<1> QED  BY <1>7, <1>8, <1>9, Zenon DEF Pollable, Clusters

\* Pools are built of the clusters of a configuration that was loaded, whichever of
\* the files led to it; this is PoolsUsable, for any documents and password files.
THEOREM PoolsAreUsable == Spec => []PoolsUsable
<1>1. TypeOK => PoolsUsable
  <2> SUFFICES ASSUME TypeOK, NEW p \in PoolIds PROVE pools[p].clusters \in PollableInputs
    BY DEF PoolsUsable
  <2>1. pools[p].clusters \in ClusterLists
    <3>1. pools \in Seq(Pool)  BY DEF TypeOK
    <3>2. pools[p] \in Pool  BY <3>1 DEF PoolIds
    <3> QED  BY <3>2 DEF Pool
  <2>2. PICK i \in Loadable : pools[p].clusters = ClusterList(i)
    BY <2>1, ConfiguredAssumption DEF ClusterLists, LoadedConfigs
  <2>3. ClusterList(i) \in Loadable  BY Zenon DEF ClusterList
  <2> QED  BY <2>2, <2>3, LoadablePollable DEF PollableInputs
<1> QED  BY <1>1, TypeCorrect, PTL

===============================================================================
