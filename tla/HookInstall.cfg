CONSTANTS
    Processes = {p1, p2}
    LifecycleEvents = {"PreToolUse", "Stop"}
    OtherEvents = {"Other"}
    Foreign = {linter}
    AC = AC
    UserFiles <- MCUserFiles
    MaxEdits = 2
    linter = linter
SPECIFICATION Spec
INVARIANTS HooksOnce
PROPERTIES ForeignKept SuccessIsTrue
