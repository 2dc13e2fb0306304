SPECIFICATION Spec
CONSTANTS
    Absent = Absent
    Junk = Junk
    None = None
    Gone = Gone
    Fields <- MCFields
    Features = {"voice", "translation"}
    Tours <- MCTours
    Inputs <- MCInputs
    Raw <- MCRaw
    Remotes <- MCRemotes
    MaxEdits = 2
    Texts = {"note", "memo", "line", "password"}
    Concealed = {"password"}
    kMaxItems = 3
    MaxStrokes = 3
    Configs <- MCConfigs
    Vaults <- MCVaults
INVARIANT NothingMarkedIsStored
CHECK_DEADLOCK FALSE
