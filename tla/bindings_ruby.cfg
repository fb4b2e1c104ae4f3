SPECIFICATION BSpec
CONSTANTS
    Thread = {"t", "u"}
    Instance <- MCInstance
    Task = {}
    Target <- MCNoTarget
    Nest <- MCNest
    Callers = {"t", "u"}
    Pollers = {}
    MaxDepth = 2
    Disciplines = {"ruby"}
    Switching = {"ruby"}
    Nobody = "nobody"
INVARIANT NoCircleThroughInterpreter
CHECK_DEADLOCK FALSE
