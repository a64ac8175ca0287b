\* Two clusters, one per generation; the Gen2 one answers fully, through the
\* fallback with changes and a failed query, or not at all; every second cycle full.
\* Either Kubernetes or OTLP is on: the two touch different variables.
SPECIFICATION FairSpec
CONSTANTS
    Clusters <- MCClusters
    Gateway <- MCGateway
    Kube <- MCKube
    Features <- MCFeatures
    CSIDriver = "csi"
    MaxFailures = 1
    EveryN = 2
    SlowTypes = {"Volume"}
    Reloaders = {"sighup", "watcher"}
INVARIANTS
    TypeOK
    ScrapeIsFaithful
    HealthHonest
    OneIdentityPerObject
    LabelsWereTrue
    OneInstrumentPerName
PROPERTIES
    EnrichmentConverges
