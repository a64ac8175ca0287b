--------------------------- MODULE ConfiguredServer ---------------------------
(***************************************************************************)
(* The server with its configurations as they are loaded: what stands on   *)
(* disk is a document and the password files, and the configurations of    *)
(* module Server are what Load makes of them.  Equal cluster lists, and    *)
(* equal settings, are represented by one of the inputs that lead to them. *)
(***************************************************************************)
EXTENDS Server, Configuration

CONSTANTS
    Inputs,     \* by name: a document and the password files, [doc, secrets]
    Env         \* the environment, read once from the process and its .env file

\* A document has a list of clusters, be it empty.
ASSUME InputsAssumption ==
    \A i \in DOMAIN Inputs :
        LET doc == Inputs[i].doc
        IN "clusters" \in DOMAIN doc /\ doc.clusters \in Seq(Range(doc.clusters))

Loaded == [i \in DOMAIN Inputs |-> Load(Inputs[i].doc, Env, Inputs[i].secrets)]
Loadable == {i \in DOMAIN Inputs : Loaded[i].ok}
ClusterList(i) == CHOOSE j \in Loadable : Loaded[j].value.clusters = Loaded[i].value.clusters
OtherSettings(i) == CHOOSE j \in Loadable : Settings(Loaded[j].value) = Settings(Loaded[i].value)

LoadedConfigs == {[clusters |-> ClusterList(i), others |-> OtherSettings(i)] : i \in Loadable}

ASSUME ConfiguredAssumption == Configs = LoadedConfigs

\* What a password may be: what is written for it, with what its references stand
\* for, or what a password file holds.
Sources(i) ==
    {ExpandEnv(cl.password, Env).value : cl \in Range(Inputs[i].doc.clusters)}
        \cup Range(Inputs[i].secrets)

\* Clusters that can be polled and told apart.
Pollable(i) ==
    LET cs == Loaded[i].value.clusters
    IN /\ Cardinality({cl.name : cl \in Range(cs)}) = Len(cs)
       /\ \A cl \in Range(cs) :
            "" \notin {cl.name, cl.gateway, cl.username} /\ cl.password \in Sources(i) \ {""}
PollableInputs == {i \in Loadable : Pollable(i)}

\* However the file and the password files change between and during reloads, no
\* pool is ever built of clusters that share a name, whose snapshots would overwrite
\* each other (BuildSnapshot keys them by it), or with an empty gateway, user or
\* password, which the gateway would refuse under a misleading error
\* (ResolveSecrets, validateClusters).
PoolsUsable == \A p \in PoolIds : pools[p].clusters \in PollableInputs

===============================================================================
