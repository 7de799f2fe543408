SPECIFICATION Spec
CONSTANTS
    Router = {r1, r2}
    Param <- MCParam
    Pattern <- MCPattern
    RegExp = {e1}
    Language <- MCLanguage
    Path <- MCPath
    MaxPatterns = 2
INVARIANTS
    LateRoutesTaken
CHECK_DEADLOCK FALSE
