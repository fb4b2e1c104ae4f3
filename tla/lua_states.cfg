SPECIFICATION Spec
CONSTANTS
    Name = {"a", "b", "c"}
    Modes = {"shared", "group", "plugin"}
    Graphs <- MCGraphs
INVARIANTS KeptApart SurfacesAreLive PanicStaysInside
PROPERTY ReloadKeepsWiring
