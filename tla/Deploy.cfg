SPECIFICATION Spec
CONSTANTS
    Targets <- MCTargets
    Elements <- MCElements
    Parts <- MCParts
    Patched <- MCPatched
    Within <- MCWithin
INVARIANTS GeneratedHasSources CleanRepairs
PROPERTIES SuccessIsComplete
