CONSTANTS
    Paths <- MCPaths
    Patterns <- MCPatterns
    Covers <- MCCovers
    Types = {"filesystem", "file", "command"}
    Tools = {edit, shell, save, load}
    Verbs <- MCVerbs
    WritingText = {"writes"}
    DeletingText = {"rm"}
    Keys = {"arg"}
    Values = {val}
    Text = Text
    None = None
    Ledgers <- MCLedgers
    Actions <- MCActions
    Patches <- MCPatches
    Observations <- MCObservations
    Segments = {"a", "b", "dev", "null", "f", "g"}
    PatchInputs <- MCPatchInputs
    Documents <- MCDocuments
    Says <- MCSays
    ToolInputs <- MCToolInputs
    val = val
    edit = edit
    shell = shell
    save = save
    load = load
SPECIFICATION Spec
INVARIANTS DecisionExact SplitStricter PostCoversPre ChangesBlocked PatchJudged WritesStopped
