\* The same, against the promise that a missing state is surfaced.
SPECIFICATION Spec
CONSTANTS
    Clusters <- MCClusters
    Gateway <- MCGateway
    Kube <- MCKube
    Features <- MCFeatures
    CSIDriver = "csi"
    MaxFailures = 1
    EveryN = 2
    SlowTypes = {"Volume"}
    Reloaders = {"sighup", "watcher"}
INVARIANT
    LostSignalSurfaces
