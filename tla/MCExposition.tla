----------------------------- MODULE MCExposition -----------------------------
\* Two clusters of different generations, with one object of each kind that the
\* properties tell apart, and what their gateways may answer.
EXTENDS Exposition

None == [f \in {"mdm_connection_state", "membership_state", "maintenance_state", "device_state",
                "temperature_state", "ssd_end_of_life_state", "error_state", "sdt_state"} |-> ""]
Object(id, parents) ==
    [id |-> id, name |-> "", ip |-> "", path |-> "", layout |-> "", vtype |-> "", media |-> "",
     states |-> None, mapped |-> {}, counts |-> [volumes |-> 1, sds |-> 1, devices |-> 1],
     links |-> {[rel |-> "parent", type |-> p[1], id |-> p[2]] : p \in parents}]

Pool(id, layout) == [Object(id, {<<"ProtectionDomain", "pd">>}) EXCEPT !.layout = layout]
Volume(id, name) ==
    [Object(id, {<<"StoragePool", "sp">>}) EXCEPT !.name = name, !.mapped = {[id |-> "s1", ip |-> "ip1"]}]
Sdc(state) == [Object("s1", {}) EXCEPT !.ip = "ip1", !.states["mdm_connection_state"] = state]
Node(state) ==
    [Object("n1", {<<"ProtectionDomain", "pd">>})
        EXCEPT !.states["mdm_connection_state"] = "Connected", !.states["membership_state"] = state]

Gen2List(volume, node, sdc) ==
    [System |-> <<Object("sys", {})>>, ProtectionDomain |-> <<Object("pd", {})>>,
     StoragePool |-> <<Pool("sp", "ErasureCoding")>>, StorageNode |-> <<Node(node)>>,
     Volume |-> <<Volume("v1", volume)>>, Sdc |-> <<Sdc(sdc)>>]
Gen1List ==
    [System |-> <<Object("sys", {})>>, ProtectionDomain |-> <<Object("pd", {})>>,
     StoragePool |-> <<Pool("sp", "MediumGranularity")>>, Sds |-> <<Node("Joined")>>,
     Device |-> <<[Object("d1", {<<"Sds", "n1">>, <<"StoragePool", "sp">>})
                     EXCEPT !.states["device_state"] = "Normal",
                            !.states["error_state"] = "Error"]>>,
     \* A volume that Kubernetes does not know.
     Volume |-> <<Volume("v9", "vol")>>]

Bwc == [decodes |-> TRUE, numOccured |-> 6, numOccurred |-> 0, seconds |-> 4, weight |-> 9, number |-> 0]
Read1 == [op |-> "user_data", dir |-> "Read", suffix |-> "Bwc", raw |-> Bwc]
Latency1 == [Read1 EXCEPT !.suffix = "Latency"]
Capacity == [op |-> "max_capacity_in_kb", dir |-> "", suffix |-> "", raw |-> [Bwc EXCEPT !.number = 5]]
Gen1Stats ==
    {[System |-> ("" :> {Latency1})], [Volume |-> [v \in {"v1", "v9"} |-> {Read1, Capacity}]],
     [Device |-> ("d1" :> {Latency1})]}

Metric(kind, op, dir) == [metric |-> <<kind, op, dir>>, values |-> <<7>>]
Gen2Stats ==
    [System |-> <<[id |-> "sys", metrics |-> {Metric("iops", "host", "read"), Metric("scalar", "raw_total", "")}]>>,
     Volume |-> <<[id |-> "v1", metrics |-> {Metric("iops", "host", "read"), Metric("scalar", "logical_used", ""),
                                             Metric("scalar", "not_in_the_table", "")}]>>,
     Sdc |-> <<[id |-> "s1", metrics |-> {Metric("iops", "host", "read")}]>>]

Ok(stats) == [ok |-> TRUE, stats |-> stats]
Fails == [ok |-> FALSE]
Down == [ok |-> FALSE]

MCGateway ==
    [old |-> [full |-> [ok |-> TRUE, in |-> Gen1List, gen1 |-> Ok(Gen1Stats), gen2 |-> Fails]],
     new |-> [full |-> [ok |-> TRUE, in |-> Gen2List("vol", "JoinPending", "Connected"), gen1 |-> Fails,
                        gen2 |-> Ok(Gen2Stats)],
              \* A renamed volume, a node in trouble, an SDC that reports no state;
              \* the v5 API fails, and so does the query of System.
              fallback |-> [ok |-> TRUE, in |-> Gen2List("other", "Decoupled", ""),
                            gen1 |-> Ok({r \in Gen1Stats : "System" \notin DOMAIN r}),
                            gen2 |-> Fails],
              down |-> Down]]
MCClusters == DOMAIN MCGateway

Claim(pvc) ==
    [name |-> "pv1", driver |-> "csi", handle |-> [text |-> "sys-v1", rest |-> "v1"],
     namespace |-> "team", pvc |-> pvc, class |-> "fast"]
Worker == [name |-> "w1", addresses |-> {[type |-> "Hostname", address |-> "w1"],
                                         [type |-> "InternalIP", address |-> "ip1"]}]
MCKube ==
    <<[pvs |-> <<Claim("a"), [Claim("b") EXCEPT !.driver = "other"]>>, nodes |-> <<Worker>>],
      [pvs |-> <<Claim("b")>>, nodes |-> <<Worker>>]>>

MCFeatures == {[k8s |-> TRUE, otlp |-> FALSE], [k8s |-> FALSE, otlp |-> TRUE]}
===============================================================================
