\* Tall plain screens: the diff and the scroll detection.
SPECIFICATION Spec
CONSTANTS
    Rows <- TallRows
    Sizes <- TallSizes
    InitSize <- TallInit
    DefaultAttrs = "plain"
    Cursors = {"home"}
    InitCursor = "home"
    Titles = {}
    Rings = TRUE
    Scrollback = 0
    Vacated = "stale"
    MaxChanges = 2
    MaxBurst = 0
    MaxOff = 0
INVARIANTS
    HostMirrors
PROPERTIES
    ScrollPays
CHECK_DEADLOCK FALSE
