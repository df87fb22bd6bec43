\* A host that blanks the rows a scroll vacates, as three of the examples do.
SPECIFICATION Spec
CONSTANTS
    Rows <- TallRows
    Sizes <- TallSizes
    InitSize <- TallInit
    DefaultAttrs = "plain"
    Cursors = {"home"}
    InitCursor = "home"
    Titles = {}
    Rings = FALSE
    Scrollback = 0
    Vacated = "blank"
    MaxChanges = 2
    MaxBurst = 0
    MaxOff = 0
INVARIANTS
    HostMirrors
CHECK_DEADLOCK FALSE
