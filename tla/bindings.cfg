SPECIFICATION BFairSpec
CONSTANTS
    Thread = {"t", "u", "x"}
    Instance <- MCInstance
    Task = {"f"}
    Target <- MCTarget
    Nest <- MCNest
    Callers = {"t", "u"}
    Pollers = {"x"}
    MaxDepth = 2
    Disciplines = {"python", "ruby", "godot", "uniffi", "c"}
    Switching = {"python"}
    Nobody = "nobody"
INVARIANTS HostRunsWithoutGil NoCircleThroughInterpreter
PROPERTIES ImplementsCallGuard EveryCallServed
