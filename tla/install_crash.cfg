SPECIFICATION MCSpec
CONSTANTS
    Flow = {"f", "g"}
    Name <- MCName
    Build <- MCBuild
    Info <- MCInfo
    Version = {1, 2, 3, 4}
    StagingOf <- MCStagingOf
    PreviousOf <- MCPreviousOf
    Releases <- MCReleases
    Served <- MCBuild
    Installs <- MCInstalls
    Roots <- MCRoots
    Locks <- MCLocks
    Nothing = Nothing
    Half = Half
    AnyVersion = AnyVersion
    MaxFaults = 2
    Rocks = {"penlight"}
    Released <- MCReleased
    Plugins = {1, 2}
    Demands <- MCDemands
    Manifests <- MCManifests
PROPERTY PreviousKeptUntilReplaced
