SPECIFICATION Spec
CONSTANTS
    Dir <- MCDir
    Name = {"a", "b", "w"}
    Build <- MCBuild
    Identity = {"alice", "bob"}
    Capability = {"net"}
    Content = {"x1", "x2"}
    Info <- MCInfo
    BaseName <- MCBaseName
    NoDir = NoDir
    NoDigest = NoDigest
    Unsigned = "unsigned"
    NoLock = NoLock
    AnyPin = AnyPin
    IssuerOf <- MCIssuerOf
    Policy <- MCPolicy
    Configs <- MCConfigs
    Lists <- MCLists
    Disks <- MCDisks
    Edits <- MCEdits
    MaxEdits = 2
INVARIANTS IndexConsistent EntryIsVerified AdmittedOnly RevokedStayOut EveryNameReported
PROPERTY ImplementsRunning
