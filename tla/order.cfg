SPECIFICATION Spec
CONSTANTS
    Dir <- MCDir
    Name <- MCDir
    Version = {1, 2}
    BaseName <- MCBaseName
    Absent = Absent
    Unreadable = Unreadable
    Roots <- MCRoots
INVARIANTS MeetsContract OrderedIffNoCycleBehind CheckedVersionIsLoaded
PROPERTY Termination
CHECK_DEADLOCK FALSE
