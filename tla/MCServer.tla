------------------------------- MODULE MCServer -------------------------------
(* Model-checking instance of ConfiguredServer: documents and password files    *)
(* that load as three configurations, of which two have the same clusters, and  *)
(* some of each kind that does not load.                                        *)
EXTENDS ConfiguredServer, TLC

MCEnv == [HOST |-> "gw", EMPTY |-> "", PASS |-> "secret"]

Cluster(name, password, path) ==
    [name |-> name, gateway |-> <<Lit("https."), Ref("HOST")>>, username |-> <<RefOr("USER", "admin")>>,
     password |-> password, passwordFile |-> path, skip |-> [raw |-> <<RefOr("SKIP", "")>>, val |-> FALSE]]
First == Cluster("one", <<Lit("my "), Ref("PASS")>>, "")
Second == Cluster("two", <<>>, "two.pass")

NoExport == [enabled |-> FALSE, endpoint |-> [host |-> "", port |-> Unset], interval |-> Unset, rate |-> 0]
Document(clusters) ==
    [host |-> "", port |-> Unset, uri |-> "", interval |-> Unset, timeout |-> Unset, maxConcurrent |-> 0,
     everyN |-> 0, slowTypes |-> {}, k8s |-> [enabled |-> FALSE, refresh |-> Unset, driver |-> ""],
     metrics |-> NoExport, tracing |-> NoExport, clusters |-> clusters]
Main2 == Document(<<First, Second>>)
Tuned == [Main2 EXCEPT !.interval = Given(30), !.everyN = 3, !.slowTypes = {"Volume"}]

Old == ("two.pass" :> "old")
Input(doc, secrets) == [doc |-> doc, secrets |-> secrets]
MCInputs ==
    [main |-> Input(Main2, Old), tuned |-> Input(Tuned, Old),
     rotated |-> Input(Main2, "two.pass" :> "new"),
     \* Rejected by ResolveSecrets: the file is gone, the variable is empty or unset.
     gone |-> Input(Main2, <<>>),
     stray |-> Input(Document(<<Cluster("one", <<Ref("EMPTY")>>, "")>>), Old),
     unset |-> Input(Document(<<Cluster("one", <<Ref("TYPO")>>, "")>>), Old),
     \* Rejected by Validate.
     truncated |-> Input(Main2, "two.pass" :> ""),
     twice |-> Input(Document(<<First, Second, First>>), Old),
     none |-> Input(Document(<<>>), Old),
     typo |-> Input([Tuned EXCEPT !.slowTypes = {"Volumes"}], Old)]
\* At start the document is the plain one; it may be tuned, and
\* its password file rotated, later.
MCInit == Init /\ file = [clusters |-> ClusterList("main"), others |-> OtherSettings("main")]
MCSpec == MCInit /\ [][Next]_vars /\ Fairness

MCConfigs == LoadedConfigs
MCInvalid == [clusters |-> "none", others |-> "none"]
===============================================================================
