\* The module is loaded and unloaded any number of times; two steps may fail.
SPECIFICATION Spec
CONSTANTS
    Platforms <- MCPlatforms
    MayFail <- MCMayFail
    MaxFailures = 2
    MaxWorks = 2
INVARIANTS
    NothingLeftBehind
    HandlersFindWhatTheyUse
    ControllerFreedOnce
